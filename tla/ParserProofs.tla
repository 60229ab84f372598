---------------------------- MODULE ParserProofs ----------------------------
(***************************************************************************)
(* Proofs about the parser, for every set of inputs, however many          *)
(* allocations fail and however deep the stack may be.                     *)
(***************************************************************************)
EXTENDS Parser, FiniteSetTheorems, SequenceTheorems, NaturalsInduction,
        WellFoundedInduction, TLAPS

-----------------------------------------------------------------------------
(* The productions. *)

\* The rules of a statement and its parts: none reads more than seven symbols, and
\* they stand where a statement may begin.
LEMMA StatementForms ==
  ASSUME NEW r \in StatementRules
  PROVE  /\ r.lhs \in {"declaration", "assignment", "printing", "statement"}
         /\ r.below = StatementStart /\ Len(r.rhs) \in 0 .. 7
         /\ r.action \in {"node", "pass", "recovered"}
         /\ r.action = "recovered" =>
              r.lhs = "statement" /\ r.rhs = <<"error", "SEMICOLON">>
  <1>1. /\ r.lhs \in {"declaration", "assignment", "printing", "statement"}
        /\ r.below = StatementStart
    BY DEF StatementRules, Rule
  <1>2. Len(r.rhs) \in 0 .. 7 /\ r.action \in {"node", "pass", "recovered"}
    BY DEF StatementRules, Rule
  <1>3. r.action = "recovered" =>
          r.lhs = "statement" /\ r.rhs = <<"error", "SEMICOLON">>
    BY DEF StatementRules, Rule
  <1> QED BY <1>1, <1>2, <1>3

\* The rules of an expression stand where an operand may begin.
LEMMA ExpressionForms ==
  ASSUME NEW r \in ExpressionRules
  PROVE  /\ r.lhs = "expression" /\ r.below = OperandStart
         /\ Len(r.rhs) \in 0 .. 7 /\ r.action \in {"node", "pass"}
  <1>1. r.lhs = "expression" /\ r.below = OperandStart
    BY DEF ExpressionRules, Rule
  <1>2. Len(r.rhs) \in 0 .. 7 /\ r.action \in {"node", "pass"}
    BY DEF ExpressionRules, Rule
  <1> QED BY <1>1, <1>2

\* The rules of a block, its list and the program.
LEMMA BlockForms ==
  ASSUME NEW r \in BlockRules
  PROVE  /\ r.lhs \in {"block", "contents", "list", "program"}
         /\ Len(r.rhs) \in 0 .. 7
         /\ r.action \in {"attach", "emptyBlock", "newList", "firstItem", "nextItem", "pass"}
         /\ r.lhs = "block" => r.below = StatementStart \cup {"RPAREN", "else"}
         /\ r.lhs = "contents" => r.below = {"LBRACE"}
         /\ r.lhs = "list" => r.below = {"bottom", "LBRACE"}
         /\ r.lhs = "program" =>
              r.action = "attach" /\ r.below = {"bottom"} /\ r.on = {"end"}
         /\ r.action = "emptyBlock" =>
              r.lhs = "block" /\ r.rhs = <<"LBRACE", "error", "RBRACE">>
         /\ r.action = "newList" => r.lhs = "contents" /\ r.rhs = << >>
         /\ r.action = "firstItem" => r.lhs = "list" /\ r.rhs = <<"statement">>
         /\ r.action = "nextItem" => r.lhs = "list" /\ r.rhs = <<"list", "statement">>
         /\ r.action = "attach" =>
              \/ r.lhs = "block" /\ r.rhs = <<"LBRACE", "contents", "RBRACE">>
              \/ r.lhs = "program" /\ r.rhs = <<"list">>
  <1>1. /\ r.lhs \in {"block", "contents", "list", "program"}
        /\ Len(r.rhs) \in 0 .. 7
        /\ r.action \in {"attach", "emptyBlock", "newList", "firstItem", "nextItem", "pass"}
    BY DEF BlockRules, Rule
  <1>2. /\ r.lhs = "block" => r.below = StatementStart \cup {"RPAREN", "else"}
        /\ r.lhs = "contents" => r.below = {"LBRACE"}
        /\ r.lhs = "list" => r.below = {"bottom", "LBRACE"}
        /\ r.lhs = "program" =>
             r.action = "attach" /\ r.below = {"bottom"} /\ r.on = {"end"}
    BY DEF BlockRules, Rule
  <1>3. /\ r.action = "emptyBlock" =>
             r.lhs = "block" /\ r.rhs = <<"LBRACE", "error", "RBRACE">>
        /\ r.action = "newList" => r.lhs = "contents" /\ r.rhs = << >>
        /\ r.action = "firstItem" => r.lhs = "list" /\ r.rhs = <<"statement">>
        /\ r.action = "nextItem" => r.lhs = "list" /\ r.rhs = <<"list", "statement">>
        /\ r.action = "attach" =>
             \/ r.lhs = "block" /\ r.rhs = <<"LBRACE", "contents", "RBRACE">>
             \/ r.lhs = "program" /\ r.rhs = <<"list">>
    BY DEF BlockRules, Rule
  <1> QED BY <1>1, <1>2, <1>3

\* The symbol of a program is on no right-hand side.
LEMMA NoProgramInside ==
  ASSUME NEW r \in Rules
  PROVE  \A i \in DOMAIN r.rhs : r.rhs[i] # "program"
  <1>1. CASE r \in StatementRules
    BY <1>1 DEF StatementRules, Rule
  <1>2. CASE r \in ExpressionRules
    BY <1>2 DEF ExpressionRules, Rule
  <1>3. CASE r \in BlockRules
    BY <1>3 DEF BlockRules, Rule
  <1> QED BY <1>1, <1>2, <1>3 DEF Rules

\* The names of the symbols whose values own something.
Owners == {"id", "declaration", "assignment", "printing", "statement", "block",
           "contents", "list", "expression"}

\* What the actions rely on.
LEMMA RuleForms ==
  ASSUME NEW r \in Rules
  PROVE  /\ r.lhs \in Owners \cup {"program"} /\ r.lhs \in Symbols
         /\ Len(r.rhs) \in 0 .. 7
         /\ "program" \notin r.below
         /\ r.lhs = "program" =>
              r.action = "attach" /\ r.below = {"bottom"} /\ r.on = {"end"}
         /\ r.action = "recovered" =>
              r.lhs = "statement" /\ r.rhs = <<"error", "SEMICOLON">>
         /\ r.action = "emptyBlock" =>
              r.lhs = "block" /\ r.rhs = <<"LBRACE", "error", "RBRACE">>
         /\ r.action = "newList" => r.lhs = "contents" /\ r.rhs = << >>
         /\ r.action = "firstItem" => r.lhs = "list" /\ r.rhs = <<"statement">>
         /\ r.action = "nextItem" => r.lhs = "list" /\ r.rhs = <<"list", "statement">>
         /\ r.action = "attach" =>
              \/ r.lhs = "block" /\ r.rhs = <<"LBRACE", "contents", "RBRACE">>
              \/ r.lhs = "program" /\ r.rhs = <<"list">>
  <1>1. CASE r \in StatementRules
    BY <1>1, StatementForms DEF Owners, Symbols, StatementStart
  <1>2. CASE r \in ExpressionRules
    BY <1>2, ExpressionForms DEF Owners, Symbols, OperandStart
  <1>3. CASE r \in BlockRules
    <2>1. /\ r.lhs \in Owners \cup {"program"} /\ r.lhs \in Symbols
          /\ "program" \notin r.below
      BY <1>3, BlockForms DEF Owners, Symbols, StatementStart
    <2> QED BY <1>3, <2>1, BlockForms
  <1> QED BY <1>1, <1>2, <1>3 DEF Rules

-----------------------------------------------------------------------------
(* What the values own. *)

\* What a stack owns, one of its values owns.
LEMMA OwnMember ==
  ASSUME NEW s, NEW x
  PROVE  x \in Own(s) <=> \E i \in DOMAIN s : x \in s[i].own
  BY DEF Own

\* No two values share anything.
Apart(s, l, p) ==
  /\ \A i, j \in DOMAIN s : i # j => s[i].own \cap s[j].own = {}
  /\ \A i \in DOMAIN s : s[i].own \cap (l \cup p) = {}
  /\ l \cap p = {}

Inside(s, l, p, h) == Own(s) \cup l \cup p \subseteq h

\* Of stack s, k symbols are replaced by v, which gives t, and the heap h becomes
\* g: v takes over what they own, or the program parsed does, which becomes q;
\* the rest is freed, and something may be new.
Moves(S, s, l, p, h, k, v, new, t, q, g) ==
  LET T == Own(SubSeq(s, Len(s) - k + 1, Len(s)))
  IN  /\ s \in Seq(S) /\ k \in 0 .. Len(s) /\ v \in S
      /\ Apart(s, l, p) /\ Inside(s, l, p, h)
      /\ new \cap h = {} /\ new \subseteq v.own \cup q
      /\ v.own \cup q \subseteq T \cup new \cup p
      /\ p \subseteq q /\ v.own \cap q = {}
      /\ t = Append(SubSeq(s, 1, Len(s) - k), v)
      /\ g = (h \ (T \ (v.own \cup q))) \cup new

\* A reduction that takes k values off and puts one on, which owns what they owned
\* and what is new, leaves every node with one owner.
LEMMA ReplaceApart ==
  ASSUME NEW S, NEW s, NEW l, NEW p, NEW h, NEW k, NEW v, NEW new, NEW t, NEW q,
         NEW g, Moves(S, s, l, p, h, k, v, new, t, q, g)
  PROVE  /\ t \in Seq(S)
         /\ Apart(t, l, q) /\ Inside(t, l, q, g)
         /\ h \subseteq Own(s) \cup l \cup p => g \subseteq Own(t) \cup l \cup q
  <1> DEFINE T == Own(SubSeq(s, Len(s) - k + 1, Len(s)))
  <1>0. /\ s \in Seq(S) /\ k \in 0 .. Len(s) /\ v \in S
        /\ Apart(s, l, p) /\ Inside(s, l, p, h)
        /\ new \cap h = {} /\ new \subseteq v.own \cup q
        /\ v.own \cup q \subseteq T \cup new \cup p
        /\ p \subseteq q /\ v.own \cap q = {}
        /\ t = Append(SubSeq(s, 1, Len(s) - k), v)
        /\ g = (h \ (T \ (v.own \cup q))) \cup new
    BY DEF Moves
  <1> DEFINE n == Len(s) - k
  <1>1. /\ n \in 0 .. Len(s) /\ Len(s) \in Nat /\ DOMAIN s = 1 .. Len(s)
        /\ t \in Seq(S) /\ DOMAIN t = 1 .. n + 1 /\ t[n + 1] = v
        /\ \A i \in 1 .. n : t[i] = s[i]
    BY <1>0
  <1>2. \A x : x \in T <=> \E i \in n + 1 .. Len(s) : x \in s[i].own
    <2> DEFINE u == SubSeq(s, n + 1, Len(s))
    <2>1. DOMAIN u = 1 .. k /\ \A i \in 1 .. k : u[i] = s[n + i]
      BY <1>0, <1>1
    <2>2. T = Own(u)
      BY DEF T
    <2> HIDE DEF u, n
    <2>3. k = Len(s) - n
      BY <1>0, <1>1 DEF n
    <2>4. \A i \in n + 1 .. Len(s) : i - n \in 1 .. k /\ u[i - n] = s[i]
      <3>1. n \in Nat /\ Len(s) \in Nat
        BY <1>1
      <3>2. \A i \in n + 1 .. Len(s) : i - n \in 1 .. k /\ n + (i - n) = i
        BY <2>3, <3>1
      <3> QED BY <2>1, <3>2
    <2>5. \A i \in 1 .. k : n + i \in n + 1 .. Len(s)
      <3>1. n \in Nat /\ Len(s) \in Nat
        BY <1>0, <1>1
      <3> QED BY <1>0, <2>3, <3>1
    <2>6. \A x : x \in T <=> \E i \in 1 .. k : x \in u[i].own
      BY <1>0, <2>1, <2>2, OwnMember
    <2>7. ASSUME NEW x, NEW i \in n + 1 .. Len(s), x \in s[i].own
          PROVE  x \in T
      BY <1>0, <2>4, <2>6, <2>7
    <2> QED BY <1>0, <2>1, <2>5, <2>6, <2>7
  <1> HIDE DEF n, T
  <1>3. \A i \in 1 .. n : i \in DOMAIN s /\ i \in DOMAIN t /\ i # n + 1
    BY <1>0, <1>1
  <1>4. \A i \in n + 1 .. Len(s) : i \in DOMAIN s /\ i \notin 1 .. n
    BY <1>0, <1>1
  <1>5. \A i \in DOMAIN s : i \in 1 .. n \/ i \in n + 1 .. Len(s)
    BY <1>0, <1>1
  <1>6. \A i \in DOMAIN t : i \in 1 .. n \/ i = n + 1
    BY <1>0, <1>1
  <1>7. n + 1 \in DOMAIN t
    BY <1>0, <1>1
  <1>8. \A i \in DOMAIN s : s[i].own \subseteq h
    BY <1>0, OwnMember DEF Inside
  <1>9. T \subseteq h /\ l \subseteq h /\ p \subseteq h /\ T \cap (l \cup p) = {}
    BY <1>0, <1>2, <1>4, <1>8 DEF Inside, Apart
  <1>10. \A i \in 1 .. n : s[i].own \cap T = {}
    BY <1>0, <1>2, <1>3, <1>4 DEF Apart
  <1>11. \A i \in 1 .. n : t[i].own = s[i].own
    BY <1>0, <1>1
  <1>12. t[n + 1].own = v.own
    BY <1>0, <1>1
  <1>13. \A i \in 1 .. n : s[i].own \cap v.own = {} /\ s[i].own \cap q = {}
    BY <1>0, <1>3, <1>8, <1>10 DEF Apart
  <1>14. v.own \cap l = {} /\ l \cap q = {}
    BY <1>0, <1>9 DEF Apart
  <1>15. Apart(t, l, q)
    <2>1. \A i, j \in DOMAIN t : i # j => t[i].own \cap t[j].own = {}
      <3>1. \A i, j \in 1 .. n : i # j => t[i].own \cap t[j].own = {}
        BY <1>0, <1>3, <1>11 DEF Apart
      <3>2. \A i \in 1 .. n : t[i].own \cap t[n + 1].own = {}
        BY <1>0, <1>11, <1>12, <1>13
      <3> QED BY <1>0, <1>6, <3>1, <3>2
    <2>2. \A i \in DOMAIN t : t[i].own \cap (l \cup q) = {}
      <3>1. \A i \in 1 .. n : t[i].own \cap (l \cup q) = {}
        BY <1>0, <1>3, <1>11, <1>13 DEF Apart
      <3>2. t[n + 1].own \cap (l \cup q) = {}
        BY <1>0, <1>12, <1>14
      <3> QED BY <1>0, <1>6, <3>1, <3>2
    <2> QED BY <1>0, <1>14, <2>1, <2>2 DEF Apart
  <1>16. Inside(t, l, q, g)
    <2>1. \A i \in 1 .. n : t[i].own \subseteq g
      BY <1>0, <1>3, <1>8, <1>10, <1>11
    <2>2. v.own \subseteq g /\ q \subseteq g /\ l \subseteq g
      BY <1>0, <1>9
    <2>3. \A x : x \in Own(t) => x \in g
      BY <1>0, <1>6, <1>12, <2>1, <2>2, OwnMember
    <2> QED BY <1>0, <2>2, <2>3 DEF Inside
  <1>17. ASSUME h \subseteq Own(s) \cup l \cup p, NEW x \in g
         PROVE  x \in Own(t) \cup l \cup q
    <2>1. CASE x \in new
      <3>1. x \in v.own \/ x \in q
        BY <1>0, <2>1
      <3> QED BY <1>0, <1>7, <1>12, <3>1, OwnMember
    <2>2. CASE x \in h /\ x \notin T
      <3>1. x \in l \/ x \in p \/ \E i \in DOMAIN s : x \in s[i].own
        BY <1>0, <1>17, <2>2, OwnMember
      <3>2. ASSUME NEW i \in DOMAIN s, x \in s[i].own PROVE x \in Own(t)
        BY <1>0, <1>2, <1>3, <1>5, <1>11, <2>2, <3>2, OwnMember
      <3> QED BY <1>0, <3>1, <3>2
    <2>3. CASE x \in v.own \/ x \in q
      BY <1>0, <1>7, <1>12, <2>3, OwnMember
    <2> QED BY <1>0, <1>17, <2>1, <2>2, <2>3
  <1> QED BY <1>0, <1>1, <1>15, <1>16, <1>17

\* Of stack s, k symbols stay; the others are popped and destroyed, and so is
\* what m does not keep of the token.
Cuts(S, s, l, p, h, k, m, t, g) ==
  /\ s \in Seq(S) /\ k \in 0 .. Len(s)
  /\ Apart(s, l, p) /\ Inside(s, l, p, h) /\ m \subseteq l
  /\ t = SubSeq(s, 1, k)
  /\ g = h \ ((l \ m) \cup Own(SubSeq(s, k + 1, Len(s))))

\* So does taking values off and freeing what they own.
LEMMA CutApart ==
  ASSUME NEW S, NEW s, NEW l, NEW p, NEW h, NEW k, NEW m, NEW t, NEW g,
         Cuts(S, s, l, p, h, k, m, t, g)
  PROVE  /\ t \in Seq(S) /\ Len(t) = k /\ \A i \in 1 .. k : t[i] = s[i]
         /\ Apart(t, m, p) /\ Inside(t, m, p, g)
         /\ h \subseteq Own(s) \cup l \cup p => g \subseteq Own(t) \cup m \cup p
  <1> DEFINE d == Own(SubSeq(s, k + 1, Len(s)))
  <1>0. /\ s \in Seq(S) /\ k \in 0 .. Len(s)
        /\ Apart(s, l, p) /\ Inside(s, l, p, h) /\ m \subseteq l
        /\ t = SubSeq(s, 1, k) /\ g = h \ ((l \ m) \cup d)
    BY DEF Cuts
  <1>1. /\ Len(s) \in Nat /\ k \in Nat /\ k <= Len(s) /\ DOMAIN s = 1 .. Len(s)
        /\ t \in Seq(S) /\ Len(t) = k /\ DOMAIN t = 1 .. k
        /\ \A i \in 1 .. k : t[i] = s[i]
    BY <1>0
  <1>2. \A x : x \in d <=> \E i \in k + 1 .. Len(s) : x \in s[i].own
    <2> DEFINE u == SubSeq(s, k + 1, Len(s))
               n == Len(s) - k
    <2>1. DOMAIN u = 1 .. n /\ \A i \in 1 .. n : u[i] = s[k + i]
      BY <1>0, <1>1
    <2>2. d = Own(u)
      BY DEF d
    <2>3. n \in Nat /\ Len(s) = k + n
      BY <1>0, <1>1
    <2> HIDE DEF u, n
    <2>4. \A i \in k + 1 .. Len(s) : i - k \in 1 .. n /\ u[i - k] = s[i]
      BY <1>0, <1>1, <2>1, <2>3
    <2>5. \A i \in 1 .. n : k + i \in k + 1 .. Len(s)
      BY <1>0, <1>1, <2>3
    <2>6. \A x : x \in d <=> \E i \in 1 .. n : x \in u[i].own
      BY <1>0, <2>1, <2>2, OwnMember
    <2>7. ASSUME NEW x, NEW i \in k + 1 .. Len(s), x \in s[i].own
          PROVE  x \in d
      BY <1>0, <2>4, <2>6, <2>7
    <2> QED BY <1>0, <2>1, <2>5, <2>6, <2>7
  <1> HIDE DEF d
  <1>3. \A i \in 1 .. k : i \in DOMAIN s /\ i \in DOMAIN t /\ t[i].own = s[i].own
    BY <1>0, <1>1
  <1>4. \A i \in k + 1 .. Len(s) : i \in DOMAIN s /\ i \notin 1 .. k
    BY <1>0, <1>1
  <1>5. \A i \in DOMAIN s : i \in 1 .. k \/ i \in k + 1 .. Len(s)
    BY <1>0, <1>1
  <1>6. \A i \in DOMAIN s : s[i].own \subseteq h
    BY <1>0, OwnMember DEF Inside
  <1>7. d \cap (l \cup p) = {} /\ l \subseteq h /\ p \subseteq h
    BY <1>0, <1>2, <1>4 DEF Apart, Inside
  <1>8. \A i \in 1 .. k : s[i].own \cap d = {} /\ s[i].own \cap (l \cup p) = {}
    BY <1>0, <1>2, <1>3, <1>4 DEF Apart
  <1>9. Apart(t, m, p)
    BY <1>0, <1>1, <1>3, <1>8 DEF Apart
  <1>10. Inside(t, m, p, g)
    <2>1. \A i \in 1 .. k : t[i].own \subseteq g
      BY <1>0, <1>3, <1>6, <1>8
    <2>2. m \subseteq g /\ p \subseteq g
      BY <1>0, <1>7 DEF Apart
    <2> QED BY <1>0, <1>1, <2>1, <2>2, OwnMember DEF Inside
  <1>11. ASSUME h \subseteq Own(s) \cup l \cup p, NEW x \in g
         PROVE  x \in Own(t) \cup m \cup p
    <2>1. x \in h /\ x \notin d /\ (x \in l => x \in m)
      BY <1>0, <1>11
    <2>2. x \in l \/ x \in p \/ \E i \in DOMAIN s : x \in s[i].own
      BY <1>0, <1>11, <2>1, OwnMember
    <2>3. ASSUME NEW i \in DOMAIN s, x \in s[i].own PROVE x \in Own(t)
      BY <1>0, <1>2, <1>3, <1>5, <2>1, <2>3, OwnMember
    <2> QED BY <1>0, <2>1, <2>2, <2>3
  <1> QED BY <1>0, <1>1, <1>9, <1>10, <1>11

\* What is pushed adds what it owns.
LEMMA OwnAppend ==
  ASSUME NEW S, NEW s \in Seq(S), NEW v
  PROVE  Own(Append(s, v)) = Own(s) \cup v.own
  <1> DEFINE t == Append(s, v)
             n == Len(s) + 1
  <1>1. /\ DOMAIN s = 1 .. n - 1 /\ DOMAIN t = 1 .. n /\ t[n] = v /\ n \in Nat \ {0}
        /\ \A i \in 1 .. n - 1 : t[i] = s[i]
    OBVIOUS
  <1> HIDE DEF t, n
  <1>2. n \in DOMAIN t /\ \A i \in DOMAIN s : i \in DOMAIN t
    BY <1>1
  <1>3. \A i \in DOMAIN t : i = n \/ i \in DOMAIN s
    BY <1>1
  <1>4. \A i \in DOMAIN s : t[i].own = s[i].own
    BY <1>1
  <1>5. \A x : x \in Own(t) <=> x \in Own(s) \/ x \in v.own
    BY <1>1, <1>2, <1>3, <1>4, OwnMember
  <1> QED BY <1>5 DEF t

\* A symbol that owns nothing can be put on the stack.
Puts(S, s, l, p, h, v, t) ==
  /\ s \in Seq(S) /\ v \in S /\ v.own = {} /\ t = Append(s, v)
  /\ Apart(s, l, p) /\ Inside(s, l, p, h)

\* A value that owns nothing can be pushed.
LEMMA PlainApart ==
  ASSUME NEW S, NEW s, NEW l, NEW p, NEW h, NEW v, NEW t, Puts(S, s, l, p, h, v, t)
  PROVE  /\ t \in Seq(S)
         /\ Apart(t, l, p) /\ Inside(t, l, p, h)
         /\ h \subseteq Own(s) \cup l \cup p => h \subseteq Own(t) \cup l \cup p
  <1>0. /\ s \in Seq(S) /\ v \in S /\ v.own = {} /\ t = Append(s, v)
        /\ Apart(s, l, p) /\ Inside(s, l, p, h)
    BY DEF Puts
  <1>1. /\ t \in Seq(S) /\ Len(s) \in Nat /\ DOMAIN s = 1 .. Len(s)
        /\ DOMAIN t = 1 .. Len(s) + 1
        /\ t[Len(s) + 1] = v /\ \A i \in 1 .. Len(s) : t[i] = s[i]
    BY <1>0
  <1>2. \A i \in DOMAIN t : (i \in DOMAIN s /\ t[i] = s[i]) \/ t[i].own = {}
    BY <1>0, <1>1
  <1>3. Own(t) = Own(s)
    BY <1>0, OwnAppend
  <1>4. Apart(t, l, p)
    BY <1>0, <1>2 DEF Apart
  <1> QED BY <1>0, <1>1, <1>3, <1>4 DEF Inside

-----------------------------------------------------------------------------
(* The inductive invariant for what is allocated. *)

\* A value is what its fields say, the items of a list are its own, and what is
\* not a name, a node or a list owns nothing.
Sound(v) ==
  /\ v = [name |-> v.name, own |-> v.own, items |-> v.items]
  /\ v.items \in Seq(SUBSET v.own)
  /\ v.name \notin Owners => v.own = {}

Values == [name : Symbols, own : SUBSET Nat, items : Seq(SUBSET Nat)]
TokenValues ==
  [name : Tokens \cup {"end", "undef", "none"}, own : SUBSET Nat, items : {<< >>}]

\* Stack s, token l, program parsed p and heap h fit each other ...
Fits(s, l, p, h) ==
  /\ s \in Seq(Values) /\ \A i \in DOMAIN s : Sound(s[i])
  /\ l \in TokenValues /\ Sound(l)
  /\ h \in SUBSET Nat /\ IsFiniteSet(h)
  /\ Apart(s, l.own, p) /\ Inside(s, l.own, p, h)

\* ... and nothing is lost.
Whole(s, l, p, h) == h \subseteq Own(s) \cup l.own \cup p

\* A program is parsed when its symbol is on the stack, alone, with the end of
\* the source read; between calls of yyparse there is nothing on the stack.
Phases ==
  /\ status # "parsing" => stack = << >> /\ lookahead = NoToken
  /\ status = "parsing" => result = 0
  /\ status = "parsing" /\ Top # "program" => parsed = {}
  /\ Top = "program" => lookahead.name = "end"
  /\ \A i \in DOMAIN stack : stack[i].name = "program" => i = 1 /\ Len(stack) = 1

\* The variables that own nothing.
Simple ==
  /\ recovering \in BOOLEAN /\ ended \in BOOLEAN
  /\ counts \in Counts
  /\ result \in 0 .. 2
  /\ status \in Statuses
  /\ failures \in 0 .. MaxFailures
  /\ input \in Beginnings
  /\ errors \in Seq([at : Nat, reported : BOOLEAN])

IInv ==
  /\ Fits(stack, lookahead, parsed, heap)
  /\ result # 2 => Whole(stack, lookahead, parsed, heap)
  /\ Phases /\ Simple

-----------------------------------------------------------------------------
(* Numbers and sequences. *)

\* A set of naturals has a least element ...
LEMMA LeastOfSet ==
  ASSUME NEW S \in SUBSET Nat, S # {}
  PROVE  \E i \in S : \A j \in S : i <= j
  <1> DEFINE R == OpToRel(<, Nat)
  <1>1. \A i, j \in Nat : i < j => <<i, j>> \in R
    BY DEF OpToRel
  <1>2. IsWellFoundedOn(R, Nat)
    BY NatLessThanWellFounded
  <1> HIDE DEF R
  <1>3. PICK i \in S : \A j \in S : ~(<<j, i>> \in R)
    BY <1>2, WFMin
  <1>4. \A j \in S : i \in Nat /\ j \in Nat /\ ~(j < i)
    BY <1>1, <1>3
  <1>5. \A j \in S : i <= j
    BY <1>4
  <1> QED BY <1>5

\* ... and one within bounds has a greatest.
LEMMA GreatestOfSet ==
  ASSUME NEW n \in Nat, NEW S \in SUBSET (0 .. n), S # {}
  PROVE  \E i \in S : \A j \in S : i >= j
  <1> DEFINE T == {n - i : i \in S}
  <1>1. T # {} /\ T \in SUBSET Nat
    <2>1. \A i \in S : n - i \in Nat
      OBVIOUS
    <2> QED BY <2>1
  <1>2. PICK m \in T : \A k \in T : m <= k
    <2> HIDE DEF T
    <2> QED BY <1>1, LeastOfSet
  <1>3. PICK i \in S : m = n - i
    BY <1>2
  <1>4. \A j \in S : n - j \in T /\ j \in 0 .. n
    OBVIOUS
  <1>5. \A j \in S : m <= n - j
    BY <1>2, <1>4
  <1>6. \A j \in S : i >= j
    BY <1>3, <1>4, <1>5
  <1> QED BY <1>6

\* A sequence over a set is one over any set that has its members.
LEMMA SeqWider ==
  ASSUME NEW S, NEW T, NEW s \in Seq(S), \A i \in DOMAIN s : s[i] \in T
  PROVE  s \in Seq(T)
  OBVIOUS

\* A new allocation is none of those not freed.
LEMMA FreshIsNew ==
  ASSUME heap \in SUBSET Nat, IsFiniteSet(heap)
  PROVE  Fresh \in Nat /\ Fresh \notin heap
  <1> DEFINE n == Cardinality(heap) + 1
             S == 1 .. n \ heap
  <1>1. n \in Nat /\ Cardinality(heap) = n - 1
    BY FS_CardinalityType
  <1>2. S # {}
    <2> SUFFICES ASSUME 1 .. n \subseteq heap PROVE FALSE
      OBVIOUS
    <2> HIDE DEF n
    <2>1. Cardinality(1 .. n) <= Cardinality(heap)
      BY FS_Subset
    <2>2. Cardinality(1 .. n) = n
      BY <1>1, FS_Interval
    <2> QED BY <1>1, <2>1, <2>2
  <1>3. S \in SUBSET Nat
    BY <1>1
  <1> HIDE DEF n, S
  <1>4. \E i \in S : \A j \in S : i <= j
    BY <1>2, <1>3, LeastOfSet
  <1>5. Fresh \in S
    BY <1>4 DEF Fresh, Min, S, n
  <1> QED BY <1>3, <1>5 DEF S

\* Where the error token is shifted there is room for it.
LEMMA KeptOnStack ==
  ASSUME NEW S, stack \in Seq(S)
  PROVE  /\ Kept \in 0 .. Len(stack)
         /\ Kept = 0 \/ stack[Kept].name \in StatementStart
         /\ \A n \in Kept + 1 .. Len(stack) : stack[n].name \notin StatementStart
  <1> DEFINE N == {n \in 0 .. Len(stack) : n = 0 \/ stack[n].name \in StatementStart}
  <1>1. Len(stack) \in Nat /\ N \in SUBSET (0 .. Len(stack)) /\ 0 \in N
    OBVIOUS
  <1>2. \E i \in N : \A j \in N : i >= j
    <2> HIDE DEF N
    <2> QED BY <1>1, GreatestOfSet
  <1>3. Kept \in N /\ \A j \in N : Kept >= j
    <2> HIDE DEF N
    <2>1. Kept = Max(N)
      BY DEF Kept, N
    <2> QED BY <1>2, <2>1 DEF Max
  <1>4. \A n \in Kept + 1 .. Len(stack) : n \notin N
    BY <1>1, <1>3
  <1> QED BY <1>1, <1>3, <1>4

\* What was read is a sequence; it may be empty.
LEMMA EmptyBeginning ==
  << >> \in Beginnings
  <1>1. PICK s \in Inputs : s \in Seq(Tokens \cup {"bad"})
    BY InputsAssumption
  <1>2. SubSeq(s, 1, 0) = << >> /\ 0 \in 0 .. Len(s)
    BY <1>1
  <1>3. << >> \in Prefixes(s)
    BY <1>2 DEF Prefixes
  <1> QED BY <1>1, <1>3 DEF Beginnings

\* What can have been read of a source is a sequence of tokens.
LEMMA BeginningType ==
  ASSUME NEW b \in Beginnings
  PROVE  b \in Seq(Tokens \cup {"bad"}) /\ Len(b) \in Nat /\ DOMAIN b = 1 .. Len(b)
  <1>1. PICK s \in Inputs : b \in Prefixes(s)
    BY DEF Beginnings
  <1>2. PICK l \in 0 .. Len(s) : b = SubSeq(s, 1, l)
    BY <1>1 DEF Prefixes
  <1>3. s \in Seq(Tokens \cup {"bad"})
    BY InputsAssumption
  <1>4. b \in Seq(Tokens \cup {"bad"})
    BY <1>2, <1>3
  <1> QED BY <1>4

-----------------------------------------------------------------------------
(* What the invariant says. *)

\* The invariant implies the property.
LEMMA OwnershipFromIInv ==
  IInv => Ownership
  <1> SUFFICES ASSUME IInv PROVE Ownership
    OBVIOUS
  <1> USE DEF IInv
  <1>1. /\ stack \in Seq(Values) /\ lookahead \in TokenValues
        /\ \A i \in DOMAIN stack : Sound(stack[i])
        /\ Sound(lookahead) /\ heap \in SUBSET Nat
        /\ Apart(stack, lookahead.own, parsed)
        /\ Inside(stack, lookahead.own, parsed, heap)
    BY DEF Fits
  <1>2. lookahead.own \subseteq heap /\ parsed \subseteq heap /\ Own(stack) \subseteq heap
    BY <1>1 DEF Inside
  <1>3. \A i \in DOMAIN stack : stack[i].own \subseteq heap
    BY <1>2, OwnMember
  <1>4. \A i \in DOMAIN stack : stack[i] \in Value(Symbols)
    <2> SUFFICES ASSUME NEW v, NEW i \in DOMAIN stack, v = stack[i]
                 PROVE  v \in Value(Symbols)
      OBVIOUS
    <2>1. v \in Values /\ Sound(v) /\ v.own \in SUBSET heap
      BY <1>1, <1>3
    <2>2. v.name \in Symbols
      BY <2>1 DEF Values
    <2>3. /\ v.items \in Seq(SUBSET v.own)
          /\ v = [name |-> v.name, own |-> v.own, items |-> v.items]
      BY <2>1 DEF Sound
    <2>4. v.items \in Seq(SUBSET heap)
      BY <2>1, <2>3, SeqWider
    <2> QED BY <2>1, <2>2, <2>3, <2>4 DEF Value
  <1>5. stack \in Seq(Value(Symbols))
    BY <1>1, <1>4, SeqWider
  <1>6. lookahead \in Value(Symbols \cup {"none"})
    <2>1. /\ lookahead.name \in Symbols \cup {"none"} /\ lookahead.items = << >>
          /\ lookahead = [name |-> lookahead.name, own |-> lookahead.own,
                          items |-> lookahead.items]
      BY <1>1 DEF TokenValues, Symbols
    <2>2. lookahead.items \in Seq(SUBSET heap)
      BY <2>1
    <2>3. lookahead.own \in SUBSET heap
      BY <1>2
    <2> QED BY <2>1, <2>2, <2>3 DEF Value
  <1>7. TypeOK
    <2>1. heap \subseteq Nat
      BY <1>1
    <2> QED BY <1>2, <1>5, <1>6, <2>1 DEF TypeOK, Simple
  <1>8. OwnedOnce
    <2> DEFINE last == <<lookahead, Symbol("parsed", parsed)>>
               values == stack \o last
               n == Len(stack)
    <2>1. /\ n \in Nat /\ DOMAIN stack = 1 .. n /\ DOMAIN values = 1 .. n + 2
          /\ \A i \in 1 .. n : values[i] = stack[i]
      BY <1>1
    <2>2. values[n + 1] = lookahead /\ values[n + 2] = Symbol("parsed", parsed)
      BY <1>1, <2>1
    <2>3. values[n + 1].own = lookahead.own /\ values[n + 2].own = parsed
      BY <2>2 DEF Symbol
    <2> HIDE DEF values, n
    <2>4. \A i \in DOMAIN values : i \in 1 .. n \/ i = n + 1 \/ i = n + 2
      BY <2>1
    <2>5. \A i \in 1 .. n : values[i].own = stack[i].own /\ i \in DOMAIN stack
      BY <2>1
    <2>6. \A i \in DOMAIN values : values[i].own \subseteq heap
      BY <1>2, <1>3, <2>3, <2>4, <2>5
    <2>7. Own(values) \subseteq heap
      BY <2>6, OwnMember
    <2>8. ASSUME NEW i \in DOMAIN values, NEW j \in DOMAIN values, i # j
          PROVE  values[i].own \cap values[j].own = {}
      <3>1. CASE i \in 1 .. n /\ j \in 1 .. n
        BY <1>1, <2>5, <2>8, <3>1 DEF Apart
      <3>2. CASE i \in 1 .. n /\ j \notin 1 .. n
        BY <1>1, <2>3, <2>4, <2>5, <3>2 DEF Apart
      <3>3. CASE i \notin 1 .. n /\ j \in 1 .. n
        BY <1>1, <2>3, <2>4, <2>5, <3>3 DEF Apart
      <3>4. CASE i \notin 1 .. n /\ j \notin 1 .. n
        BY <1>1, <2>3, <2>4, <2>8, <3>4 DEF Apart
      <3> QED BY <3>1, <3>2, <3>3, <3>4
    <2> QED BY <2>7, <2>8 DEF OwnedOnce, values
  <1> QED BY <1>7, <1>8 DEF Ownership, NothingLost, Whole

-----------------------------------------------------------------------------
(* What the steps have in common. *)

\* The same as OwnAppend, for the form with \o.
LEMMA OwnConcat ==
  ASSUME NEW S, NEW s \in Seq(S), NEW v
  PROVE  Own(s \o <<v>>) = Own(s) \cup v.own
  <1>1. s \o <<v>> = Append(s, v)
    OBVIOUS
  <1> QED BY <1>1, OwnAppend

\* yyerror keeps the types of the counts.
LEMMA YyerrorType ==
  ASSUME NEW c \in Counts, NEW memory \in BOOLEAN
  PROVE  Yyerror(c, memory) \in Counts
  <1>1. /\ c.lexical \in Nat /\ c.syntax \in Nat /\ c.syntax + 1 \in Nat
        /\ c.internal \in BOOLEAN
    BY DEF Counts
  <1>2. [c EXCEPT !.seen_lexical = c.lexical] \in Counts
    BY <1>1 DEF Counts
  <1>3. [c EXCEPT !.seen_internal = TRUE] \in Counts
    BY DEF Counts
  <1>4. [c EXCEPT !.parser_internal = TRUE] \in Counts
    BY DEF Counts
  <1>5. [c EXCEPT !.syntax = @ + 1] \in Counts
    BY <1>1 DEF Counts
  <1> QED BY <1>2, <1>3, <1>4, <1>5 DEF Yyerror

\* The rest of a stack owns nothing else than the stack ...
LEMMA OwnPart ==
  ASSUME NEW S, NEW s \in Seq(S), NEW n \in 0 .. Len(s)
  PROVE  Own(SubSeq(s, 1, n)) \subseteq Own(s)
  <1>1. \A i \in DOMAIN SubSeq(s, 1, n) : i \in DOMAIN s /\ SubSeq(s, 1, n)[i] = s[i]
    OBVIOUS
  <1> QED BY <1>1, OwnMember

\* ... and neither does what is taken off it.
LEMMA OwnTaken ==
  ASSUME NEW S, NEW s \in Seq(S), NEW n \in 0 .. Len(s)
  PROVE  Own(SubSeq(s, Len(s) - n + 1, Len(s))) \subseteq Own(s)
  <1> DEFINE m == Len(s) - n
             u == SubSeq(s, m + 1, Len(s))
  <1>1. \A i \in DOMAIN u : m + i \in DOMAIN s /\ u[i] = s[m + i]
    OBVIOUS
  <1>2. \A i \in DOMAIN u : u[i].own = s[m + i].own
    BY <1>1
  <1> HIDE DEF u, m
  <1>3. Own(u) \subseteq Own(s)
    BY <1>1, <1>2, OwnMember
  <1> QED BY <1>3 DEF u, m

\* What the invariant gives the steps.
LEMMA Given ==
  ASSUME IInv
  PROVE  /\ stack \in Seq(Values) /\ Len(stack) \in Nat /\ DOMAIN stack = 1 .. Len(stack)
         /\ \A i \in DOMAIN stack : Sound(stack[i])
         /\ lookahead \in TokenValues /\ Sound(lookahead)
         /\ heap \in SUBSET Nat /\ IsFiniteSet(heap)
         /\ Apart(stack, lookahead.own, parsed)
         /\ Inside(stack, lookahead.own, parsed, heap)
         /\ parsed \subseteq heap /\ lookahead.own \subseteq heap /\ Own(stack) \subseteq heap
         /\ Fresh \in Nat /\ Fresh \notin heap
  <1>1. /\ stack \in Seq(Values)
        /\ \A i \in DOMAIN stack : Sound(stack[i])
        /\ lookahead \in TokenValues /\ Sound(lookahead)
        /\ heap \in SUBSET Nat /\ IsFiniteSet(heap)
        /\ Apart(stack, lookahead.own, parsed)
        /\ Inside(stack, lookahead.own, parsed, heap)
    BY DEF IInv, Fits
  <1>2. Len(stack) \in Nat /\ DOMAIN stack = 1 .. Len(stack)
    BY <1>1
  <1>3. parsed \subseteq heap /\ lookahead.own \subseteq heap /\ Own(stack) \subseteq heap
    BY <1>1 DEF Inside
  <1>4. Fresh \in Nat /\ Fresh \notin heap
    BY <1>1, FreshIsNew
  <1> QED BY <1>1, <1>2, <1>3, <1>4

\* No symbol is called as the bottom of the stack is.
LEMMA NoBottom ==
  ASSUME NEW s \in Seq(Values), NEW i \in DOMAIN s
  PROVE  s[i].name \in Symbols /\ s[i].name # "bottom"
  <1>1. s[i] \in Values
    OBVIOUS
  <1>2. s[i].name \in Symbols
    BY <1>1 DEF Values
  <1>3. "bottom" \notin Symbols
    BY DEF Symbols, Tokens
  <1> QED BY <1>2, <1>3

\* No value owns a part of the program parsed.
LEMMA ParsedApart ==
  ASSUME IInv
  PROVE  parsed \cap (Own(stack) \cup lookahead.own) = {}
  <1>1. Apart(stack, lookahead.own, parsed)
    BY Given
  <1>2. ASSUME NEW x \in parsed PROVE x \notin Own(stack)
    BY <1>1, <1>2, OwnMember DEF Apart
  <1> QED BY <1>1, <1>2 DEF Apart

\* There is nothing on the stack: what is allocated is the program parsed.
LEMMA IdleKeeps ==
  ASSUME heap' \in SUBSET Nat, IsFiniteSet(heap'), parsed' \subseteq heap',
         stack' = << >>, lookahead' = NoToken, result' # 2 => heap' \subseteq parsed',
         status' = "parsing" => result' = 0 /\ parsed' = {}, Simple'
  PROVE  IInv'
  <1>1. NoToken \in TokenValues /\ Sound(NoToken) /\ NoToken.own = {}
    BY DEF NoToken, Symbol, TokenValues, Sound, Owners
  <1>2. Own(stack') = {} /\ stack' \in Seq(Values) /\ DOMAIN stack' = {}
    <2>1. DOMAIN stack' = {}
      OBVIOUS
    <2> QED BY <2>1, OwnMember
  <1>3. Fits(stack', lookahead', parsed', heap')
    BY <1>1, <1>2 DEF Fits, Apart, Inside
  <1>4. result' # 2 => Whole(stack', lookahead', parsed', heap')
    BY DEF Whole
  <1>5. Phases'
    BY <1>2 DEF Phases, Top
  <1> QED BY <1>3, <1>4, <1>5 DEF IInv

\* yyparse returns: the program parsed stays, the rest goes.
LEMMA ReturnKeeps ==
  ASSUME IInv, NEW gone, parsed \cap gone = {}, heap' = heap \ gone,
         stack' = << >>, lookahead' = NoToken, status' = "returned",
         parsed' = parsed, result' \in 0 .. 2, result' # 2 => heap' \subseteq parsed,
         counts' \in Counts, failures' \in 0 .. MaxFailures,
         UNCHANGED <<recovering, input, ended, errors>>
  PROVE  IInv'
  <1>1. heap' \in SUBSET heap /\ parsed' \subseteq heap'
    BY Given
  <1>2. heap' \in SUBSET Nat /\ IsFiniteSet(heap')
    BY <1>1, Given, FS_Subset
  <1>3. Simple'
    BY DEF IInv, Simple, Statuses
  <1> QED BY <1>1, <1>2, <1>3, IdleKeeps

\* Memory is exhausted, with n symbols of a right-hand side on the stack.
LEMMA ExhaustKeeps ==
  ASSUME IInv, NEW n \in 0 .. Len(stack), NEW freed \in SUBSET Own(stack),
         Exhaust(n, freed), failures' \in 0 .. MaxFailures
  PROVE  IInv'
  <1> DEFINE gone == freed \cup Freed(Without(n) \o <<lookahead>>)
  <1>1. /\ heap' = heap \ gone /\ counts' = Yyerror(counts, TRUE) /\ result' = 2
        /\ stack' = << >> /\ lookahead' = NoToken /\ status' = "returned"
        /\ UNCHANGED <<recovering, parsed, input, ended, errors>>
    BY DEF Exhaust, Cleanup
  <1>2. counts' \in Counts
    BY <1>1, YyerrorType DEF IInv, Simple
  <1>3. Without(n) \in Seq(Values) /\ Own(Without(n)) \subseteq Own(stack)
    <2>1. Len(stack) - n \in 0 .. Len(stack)
      BY Given
    <2> QED BY <2>1, Given, OwnPart DEF Without
  <1>4. Own(Without(n) \o <<lookahead>>) = Own(Without(n)) \cup lookahead.own
    BY <1>3, OwnConcat
  <1>5. parsed \cap gone = {}
    BY <1>3, <1>4, ParsedApart DEF Freed
  <1> HIDE DEF gone
  <1>6. result' \in 0 .. 2 /\ ~(result' # 2)
    BY <1>1
  <1> QED BY <1>1, <1>2, <1>5, <1>6, ReturnKeeps

\* An action that finds no memory frees its operands and gives up.
LEMMA NoMemoryKeeps ==
  ASSUME IInv, NEW r \in Rules, Applies(r), NEW freed \in SUBSET Own(stack),
         NoMemory(r, freed)
  PROVE  IInv'
  <1>1. Len(r.rhs) \in 0 .. Len(stack)
    BY RuleForms, Given DEF Applies, Ends
  <1>2. failures' \in 0 .. MaxFailures
    BY BoundsAssumption DEF NoMemory, CanFail, Fail, IInv, Simple
  <1>3. Exhaust(Len(r.rhs), freed)
    BY DEF NoMemory
  <1> QED BY <1>1, <1>2, <1>3, ExhaustKeeps

\* A reduction replaces the right-hand side of r by v, which takes over what it
\* owned, or the program parsed does, and frees the rest.
TakesOver(r, v, new) ==
  LET T == Own(Taken(Len(r.rhs)))
      kept == v.own \cup parsed'
  IN  /\ new \in SUBSET {Fresh} /\ new \subseteq kept /\ kept \subseteq T \cup new \cup parsed
      /\ v.own \cap parsed' = {} /\ parsed \subseteq parsed'
      /\ r.lhs # "program" => parsed' = parsed
      /\ heap' = (heap \ (T \ kept)) \cup new
      /\ stack' = Append(Without(Len(r.rhs)), v) /\ recovering' \in BOOLEAN
      /\ UNCHANGED <<lookahead, counts, result, status, failures, input, ended, errors>>

\* A reduction that replaces its operands by a value that takes over what they own
\* keeps the invariant.
LEMMA ReplaceKeeps ==
  ASSUME IInv, NEW r \in Rules, Reduces(r), NEW new, NEW v \in Values, Sound(v),
         v.name = r.lhs, TakesOver(r, v, new)
  PROVE  IInv'
  <1> DEFINE k == Len(r.rhs)
             T == Own(Taken(k))
  <1>1. k \in 0 .. Len(stack) /\ Below(k) \in r.below /\ lookahead.name \in r.on
    BY RuleForms, Given DEF Reduces, Applies, Ends
  <1>2. /\ stack \in Seq(Values) /\ Len(stack) \in Nat
        /\ Apart(stack, lookahead.own, parsed)
        /\ Inside(stack, lookahead.own, parsed, heap)
        /\ T = Own(SubSeq(stack, Len(stack) - k + 1, Len(stack)))
        /\ IsFiniteSet(heap) /\ heap \in SUBSET Nat
    BY Given DEF Taken, Without
  <1>3. /\ heap' = (heap \ (T \ (v.own \cup parsed'))) \cup new
        /\ new \in SUBSET {Fresh} /\ new \cap heap = {}
        /\ v.own \cup parsed' \subseteq T \cup new \cup parsed
        /\ new \subseteq v.own \cup parsed'
        /\ v.own \cap parsed' = {} /\ parsed \subseteq parsed'
    BY Given DEF TakesOver
  <1>4. /\ stack' = Append(SubSeq(stack, 1, Len(stack) - k), v)
        /\ r.lhs # "program" => parsed' = parsed
        /\ lookahead' = lookahead /\ result' = result /\ status' = status
    BY DEF TakesOver, Without
  <1>5. /\ Len(stack') = Len(stack) - k + 1 /\ DOMAIN stack' = 1 .. Len(stack) - k + 1
        /\ stack'[Len(stack) - k + 1] = v
        /\ \A i \in 1 .. Len(stack) - k : i \in DOMAIN stack /\ stack'[i] = stack[i]
    <2> HIDE DEF T, k
    <2>1. Len(stack) - k \in 0 .. Len(stack)
      BY <1>1, <1>2
    <2> QED BY <1>1, <1>2, <1>4, <2>1
  <1> HIDE DEF T, k
  <1>6. /\ stack' \in Seq(Values)
        /\ Apart(stack', lookahead.own, parsed')
        /\ Inside(stack', lookahead.own, parsed', heap')
        /\ heap \subseteq Own(stack) \cup lookahead.own \cup parsed =>
             heap' \subseteq Own(stack') \cup lookahead.own \cup parsed'
    <2>1. Moves(Values, stack, lookahead.own, parsed, heap, k, v, new, stack', parsed',
                heap')
      BY <1>1, <1>2, <1>3, <1>4 DEF Moves
    <2> QED BY <2>1, ReplaceApart
  <1>7. heap' \in SUBSET Nat /\ IsFiniteSet(heap')
    <2>1. heap' \in SUBSET (heap \cup {Fresh})
      BY <1>3, <1>4
    <2>2. IsFiniteSet(heap \cup {Fresh})
      BY <1>2, FS_AddElement
    <2>3. heap \cup {Fresh} \in SUBSET Nat
      BY Given
    <2> QED BY <2>1, <2>2, <2>3, FS_Subset
  <1>8. \A i \in DOMAIN stack' : Sound(stack'[i])
    <2>1. \A i \in DOMAIN stack' : i \in 1 .. Len(stack) - k \/ i = Len(stack) - k + 1
      BY <1>1, <1>2, <1>5
    <2> QED BY <1>5, <2>1, Given
  <1>9. Fits(stack', lookahead', parsed', heap')
    BY <1>4, <1>6, <1>7, <1>8, Given DEF Fits
  <1>10. result' # 2 => Whole(stack', lookahead', parsed', heap')
    BY <1>4, <1>6 DEF IInv, Whole
  <1>11. Phases'
    <2>1. Top' = r.lhs
      <3>1. stack' # << >> /\ stack'[Len(stack')] = v
        BY <1>1, <1>2, <1>5
      <3> QED BY <3>1 DEF Top, Last
    <2>2. r.lhs = "program" => lookahead.name = "end" /\ Len(stack') = 1
      <3>1. SUFFICES ASSUME r.lhs = "program" PROVE lookahead.name = "end" /\ Len(stack') = 1
        OBVIOUS
      <3>2. lookahead.name = "end" /\ Below(k) = "bottom"
        BY <1>1, <3>1, RuleForms
      <3>3. \A i \in DOMAIN stack : stack[i].name # "bottom"
        BY Given, NoBottom
      <3>4. Len(stack) = k
        <4>1. Len(stack) # k => Len(stack) - k \in DOMAIN stack
          BY <1>1, <1>2
        <4> QED BY <3>2, <3>3, <4>1 DEF Below
      <3> QED BY <1>2, <1>5, <3>2, <3>4
    <2>3. \A i \in DOMAIN stack' : stack'[i].name = "program" => i = 1 /\ Len(stack') = 1
      <3>1. SUFFICES ASSUME NEW i \in DOMAIN stack', stack'[i].name = "program"
                     PROVE  i = 1 /\ Len(stack') = 1
        OBVIOUS
      <3>2. CASE i = Len(stack) - k + 1
        BY <1>1, <1>2, <1>5, <2>2, <3>1, <3>2
      <3>3. CASE i \in 1 .. Len(stack) - k
        <4>1. i = 1 /\ Len(stack) = 1 /\ stack[1].name = "program"
          BY <1>5, <3>1, <3>3 DEF IInv, Phases
        <4>2. k = 0 /\ Below(k) = "program"
          BY <1>1, <3>3, <4>1 DEF Below
        <4> QED BY <1>1, <4>2, RuleForms
      <3> QED BY <1>1, <1>2, <1>5, <3>2, <3>3
    <2>4. status = "parsing" /\ result = 0
      BY DEF Reduces, Parsing, IInv, Phases
    <2>5. r.lhs # "program" => parsed' = {}
      <3>1. SUFFICES ASSUME r.lhs # "program" PROVE parsed = {}
        BY <1>4
      <3>2. CASE Top # "program"
        BY <2>4, <3>2 DEF IInv, Phases
      <3>3. CASE Top = "program"
        <4>1. stack # << >> /\ stack[Len(stack)].name = "program"
          BY <3>3 DEF Top, Last
        <4>2. Len(stack) \in DOMAIN stack
          BY <1>2, <4>1
        <4>3. Len(stack) = 1 /\ stack[1].name = "program"
          BY <4>1, <4>2 DEF IInv, Phases
        <4>4. k = 0 => Below(k) = "program"
          BY <4>3 DEF Below
        <4>5. k = 1
          BY <1>1, <4>3, <4>4, RuleForms
        <4>6. 1 \in DOMAIN r.rhs /\ r.rhs[1] = "program"
          BY <4>3, <4>5 DEF Reduces, Applies, Ends, k
        <4> QED BY <4>6, NoProgramInside
      <3> QED BY <3>2, <3>3
    <2> QED BY <1>4, <2>1, <2>2, <2>3, <2>4, <2>5 DEF Phases
  <1>12. Simple'
    BY DEF IInv, Simple, TakesOver
  <1> QED BY <1>9, <1>10, <1>11, <1>12 DEF IInv

-----------------------------------------------------------------------------
(* Reductions. *)

\* The symbols of a right-hand side.
LEMMA TakenSymbols ==
  ASSUME IInv, NEW r \in Rules, Applies(r), NEW k, k = Len(r.rhs)
  PROVE  /\ k \in 0 .. Len(stack) /\ DOMAIN Taken(k) = 1 .. k
         /\ \A i \in 1 .. k : /\ Len(stack) - k + i \in DOMAIN stack
                              /\ Taken(k)[i] = stack[Len(stack) - k + i]
                              /\ Taken(k)[i] \in Values /\ Sound(Taken(k)[i])
         /\ \A i \in DOMAIN r.rhs : stack[Len(stack) - k + i].name = r.rhs[i]
         /\ Own(Taken(k)) \subseteq Own(stack) /\ Own(Taken(k)) \subseteq heap
         /\ Own(Taken(k)) \cap parsed = {}
  <1>1. k \in 0 .. Len(stack) /\ stack \in Seq(Values) /\ Len(stack) \in Nat
    BY RuleForms, Given DEF Applies, Ends
  <1>2. Own(Taken(k)) \subseteq Own(stack)
    BY <1>1, OwnTaken DEF Taken
  <1>3. /\ DOMAIN Taken(k) = 1 .. k
        /\ \A i \in 1 .. k : /\ Len(stack) - k + i \in DOMAIN stack
                             /\ Taken(k)[i] = stack[Len(stack) - k + i]
    <2> DEFINE m == Len(stack) - k
    <2>1. m \in 0 .. Len(stack) /\ Len(stack) = m + k
      BY <1>1
    <2>2. Taken(k) = SubSeq(stack, m + 1, Len(stack))
      BY DEF Taken
    <2> HIDE DEF m
    <2>3. /\ DOMAIN Taken(k) = 1 .. k
          /\ \A i \in 1 .. k : m + i \in DOMAIN stack /\ Taken(k)[i] = stack[m + i]
      BY <1>1, <2>1, <2>2
    <2> QED BY <2>3 DEF m
  <1>4. \A i \in 1 .. k : Taken(k)[i] \in Values /\ Sound(Taken(k)[i])
    <2>1. \A i \in DOMAIN stack : stack[i] \in Values /\ Sound(stack[i])
      BY <1>1, Given
    <2> QED BY <1>3, <2>1
  <1>5. \A i \in DOMAIN r.rhs : stack[Len(stack) - k + i].name = r.rhs[i]
    BY DEF Applies, Ends
  <1>6. Own(Taken(k)) \subseteq heap /\ Own(Taken(k)) \cap parsed = {}
    BY <1>2, Given, ParsedApart
  <1> QED BY <1>1, <1>2, <1>3, <1>4, <1>5, <1>6

\* What is neither a name nor a node nor a list owns nothing.
LEMMA PlainTaken ==
  ASSUME IInv, NEW r \in Rules, Applies(r),
         \A i \in 1 .. Len(r.rhs) : i \in DOMAIN r.rhs /\ r.rhs[i] \notin Owners
  PROVE  Own(Taken(Len(r.rhs))) = {}
  <1> DEFINE k == Len(r.rhs)
  <1>1. /\ DOMAIN Taken(k) = 1 .. k
        /\ \A i \in 1 .. k : Sound(Taken(k)[i]) /\ Taken(k)[i].name = r.rhs[i]
    <2> HIDE DEF k
    <2>1. k = Len(r.rhs)
      BY DEF k
    <2>2. DOMAIN Taken(k) = 1 .. k
      BY <2>1, TakenSymbols
    <2>3. ASSUME NEW i \in 1 .. k PROVE Taken(k)[i] = stack[Len(stack) - k + i]
      BY <2>1, TakenSymbols
    <2>4. \A i \in 1 .. k : Sound(Taken(k)[i])
      BY <2>1, TakenSymbols
    <2>5. \A i \in DOMAIN r.rhs : stack[Len(stack) - k + i].name = r.rhs[i]
      BY DEF Applies, Ends, k
    <2>6. \A i \in 1 .. k : i \in DOMAIN r.rhs
      BY <2>1
    <2> QED BY <2>2, <2>3, <2>4, <2>5, <2>6
  <1>2. \A i \in 1 .. k : Taken(k)[i].own = {}
    BY <1>1 DEF Sound
  <1> HIDE DEF k
  <1>3. Own(Taken(k)) = {}
    BY <1>1, <1>2, OwnMember
  <1> QED BY <1>3 DEF k

\* A right-hand side of one symbol, and one of two.
LEMMA TakenOne ==
  ASSUME IInv, NEW r \in Rules, Applies(r), NEW a, r.rhs = <<a>>
  PROVE  /\ Len(stack) \in DOMAIN stack /\ stack[Len(stack)].name = a
         /\ Sound(stack[Len(stack)])
         /\ Own(Taken(Len(r.rhs))) = stack[Len(stack)].own
  <1> DEFINE k == Len(r.rhs)
             m == Len(stack)
  <1>1. k = 1 /\ 1 \in DOMAIN r.rhs /\ r.rhs[1] = a /\ m \in Nat
    BY Given
  <1>2. m - k + 1 = m
    BY <1>1
  <1>3. /\ DOMAIN Taken(k) = {1} /\ m \in DOMAIN stack /\ Taken(k)[1] = stack[m]
        /\ Sound(stack[m]) /\ stack[m].name = a
    <2>0. DOMAIN Taken(k) = 1 .. k
      BY TakenSymbols
    <2>1. ASSUME NEW i \in 1 .. k
          PROVE  /\ m - k + i \in DOMAIN stack
                 /\ Taken(k)[i] = stack[m - k + i] /\ Sound(Taken(k)[i])
      <3>1. m - k + i \in DOMAIN stack
        BY TakenSymbols
      <3>2. Taken(k)[i] = stack[m - k + i]
        BY TakenSymbols
      <3>3. Sound(Taken(k)[i])
        BY TakenSymbols
      <3> QED BY <3>1, <3>2, <3>3
    <2>2. \A i \in DOMAIN r.rhs : stack[m - k + i].name = r.rhs[i]
      BY TakenSymbols
    <2> HIDE DEF m, k
    <2>3. 1 .. k = {1} /\ m - k + 1 = m
      BY <1>1
    <2> QED BY <1>1, <2>0, <2>1, <2>2, <2>3
  <1> HIDE DEF k, m
  <1>4. Own(Taken(k)) = stack[m].own
    BY <1>3, OwnMember
  <1> QED BY <1>3, <1>4 DEF k, m

\* The operands of a rule with two of them.
LEMMA TakenTwo ==
  ASSUME IInv, NEW r \in Rules, Applies(r), NEW a, NEW b, r.rhs = <<a, b>>
  PROVE  /\ Len(stack) >= 2 /\ Last(stack) = stack[Len(stack)]
         /\ Last(Without(1)) = stack[Len(stack) - 1]
         /\ stack[Len(stack) - 1].name = a /\ Sound(stack[Len(stack) - 1])
         /\ Own(Taken(Len(r.rhs))) = stack[Len(stack) - 1].own \cup stack[Len(stack)].own
  <1> DEFINE k == Len(r.rhs)
             m == Len(stack)
  <1>1. k = 2 /\ 1 \in DOMAIN r.rhs /\ r.rhs[1] = a /\ m \in Nat
    BY Given
  <1>2. m - k + 1 = m - 1 /\ m - k + 2 = m
    BY <1>1
  <1>3. k <= m
    <2>1. k \in 0 .. m
      BY TakenSymbols
    <2> QED BY <1>1, <2>1
  <1>4. /\ DOMAIN Taken(k) = {1, 2}
        /\ Taken(k)[1] = stack[m - 1] /\ Taken(k)[2] = stack[m]
        /\ Sound(stack[m - 1]) /\ stack[m - 1].name = a
    <2>0. DOMAIN Taken(k) = 1 .. k
      BY TakenSymbols
    <2>1. ASSUME NEW i \in 1 .. k
          PROVE  /\ m - k + i \in DOMAIN stack
                 /\ Taken(k)[i] = stack[m - k + i] /\ Sound(Taken(k)[i])
      <3>1. m - k + i \in DOMAIN stack
        BY TakenSymbols
      <3>2. Taken(k)[i] = stack[m - k + i]
        BY TakenSymbols
      <3>3. Sound(Taken(k)[i])
        BY TakenSymbols
      <3> QED BY <3>1, <3>2, <3>3
    <2>2. \A i \in DOMAIN r.rhs : stack[m - k + i].name = r.rhs[i]
      BY TakenSymbols
    <2> HIDE DEF m, k
    <2>3. 1 .. k = {1, 2} /\ m - k + 1 = m - 1 /\ m - k + 2 = m
      BY <1>1
    <2> QED BY <1>1, <2>0, <2>1, <2>2, <2>3
  <1>5. Last(Without(1)) = stack[m - 1]
    <2>1. Without(1) = SubSeq(stack, 1, m - 1) /\ stack \in Seq(Values)
      BY Given DEF Without
    <2> HIDE DEF k, m
    <2>2. m = Len(stack) /\ m >= 2
      BY <1>1, <1>3 DEF m
    <2> QED BY <2>1, <2>2 DEF Last
  <1> HIDE DEF k, m
  <1>6. Own(Taken(k)) = stack[m - 1].own \cup stack[m].own
    BY <1>4, OwnMember
  <1> QED BY <1>1, <1>3, <1>4, <1>5, <1>6 DEF k, m, Last

\* The value an action makes is sound.
LEMMA ValueMade ==
  ASSUME NEW name \in Symbols, NEW own \in SUBSET Nat, NEW items \in Seq(SUBSET own),
         name \in Owners \/ own = {}, NEW v,
         v = [name |-> name, own |-> own, items |-> items]
  PROVE  v \in Values /\ Sound(v)
  <1>1. items \in Seq(SUBSET Nat)
    <2>1. \A i \in DOMAIN items : items[i] \in SUBSET own
      OBVIOUS
    <2>2. \A i \in DOMAIN items : items[i] \in SUBSET Nat
      BY <2>1
    <2> QED BY <2>2, SeqWider
  <1> QED BY <1>1 DEF Values, Sound

\* A value without items.
LEMMA SymbolMade ==
  ASSUME NEW name \in Symbols, NEW own \in SUBSET Nat, name \in Owners \/ own = {}
  PROVE  /\ Symbol(name, own) \in Values /\ Sound(Symbol(name, own))
         /\ Symbol(name, own).name = name /\ Symbol(name, own).own = own
  <1>1. << >> \in Seq(SUBSET own)
    OBVIOUS
  <1>2. Symbol(name, own) = [name |-> name, own |-> own, items |-> << >>]
    BY DEF Symbol
  <1>3. Symbol(name, own) \in Values /\ Sound(Symbol(name, own))
    BY <1>1, <1>2, ValueMade
  <1> QED BY <1>2, <1>3

\* What is passed on comes from the right-hand side.
LEMMA PassForms ==
  ASSUME NEW r \in Rules, r.action = "pass"
  PROVE  Len(r.rhs) # 0
  <1>1. \A q \in StatementRules \cup ExpressionRules : Len(q.rhs) \in 1 .. 7
    <2>1. ASSUME NEW q \in StatementRules PROVE Len(q.rhs) \in 1 .. 7
      BY DEF StatementRules, Rule
    <2>2. ASSUME NEW q \in ExpressionRules PROVE Len(q.rhs) \in 1 .. 7
      BY DEF ExpressionRules, Rule
    <2> QED BY <2>1, <2>2
  <1>2. CASE r \in BlockRules
    <2>1. r.rhs = <<"list">>
      BY <1>2 DEF BlockRules, Rule
    <2> QED BY <2>1
  <1>3. CASE r \in StatementRules \cup ExpressionRules
    <2>1. Len(r.rhs) \in 1 .. 7
      BY <1>1, <1>3
    <2> DEFINE n == Len(r.rhs)
    <2>2. n \in 1 .. 7
      BY <2>1
    <2> HIDE DEF n
    <2>3. n # 0
      BY <2>2
    <2> QED BY <2>3 DEF n
  <1> QED BY <1>2, <1>3 DEF Rules

\* A rule that hands on the value of its operand (parser.y:140).
LEMMA PassKeeps ==
  ASSUME IInv, NEW r \in Rules, ReducePass(r)
  PROVE  IInv'
  <1> DEFINE k == Len(r.rhs)
             T == Own(Taken(k))
             items == Taken(k)[1].items
             v == [name |-> r.lhs, own |-> T, items |-> items]
  <1>1. Reduces(r) /\ Applies(r) /\ r.action = "pass"
    BY DEF ReducePass, Reduces
  <1>2. /\ stack' = Append(Without(k), v) /\ recovering' = recovering
        /\ heap' = heap /\ parsed' = parsed
        /\ UNCHANGED <<lookahead, counts, result, status, failures, input, ended, errors>>
    BY DEF ReducePass, Replace
  <1>3. k \in Nat /\ k >= 1 /\ r.lhs \in Owners /\ r.lhs \in Symbols /\ r.lhs # "program"
    BY <1>1, PassForms, RuleForms DEF Owners
  <1>4. /\ DOMAIN Taken(k) = 1 .. k /\ Sound(Taken(k)[1])
        /\ T \subseteq heap /\ T \cap parsed = {}
    BY <1>1, <1>3, TakenSymbols
  <1>5. items \in Seq(SUBSET T)
    <2>1. Taken(k)[1].own \subseteq T
      BY <1>3, <1>4, OwnMember
    <2>2. items \in Seq(SUBSET Taken(k)[1].own)
      BY <1>4 DEF Sound
    <2> HIDE DEF T, items
    <2> QED BY <2>1, <2>2, SeqWider
  <1>6. v \in Values /\ Sound(v) /\ v.name = r.lhs /\ v.own = T
    <2>1. T \in SUBSET Nat
      BY <1>4, Given
    <2> HIDE DEF T, items
    <2> QED BY <1>3, <1>5, <2>1, ValueMade
  <1> HIDE DEF v
  <1>7. TakesOver(r, v, {})
    BY <1>2, <1>4, <1>6 DEF TakesOver, IInv, Simple
  <1> QED BY <1>1, <1>6, <1>7, ReplaceKeeps

\* A statement in which an error was recovered has no value.
LEMMA RecoveredKeeps ==
  ASSUME IInv, NEW r \in Rules, ReduceRecovered(r)
  PROVE  IInv'
  <1> DEFINE T == Own(Taken(Len(r.rhs)))
             v == Symbol(r.lhs, {})
  <1>1. Reduces(r) /\ Applies(r) /\ r.lhs = "statement" /\ r.rhs = <<"error", "SEMICOLON">>
    BY RuleForms DEF ReduceRecovered, Reduces
  <1>2. /\ stack' = Append(Without(Len(r.rhs)), v) /\ recovering' = FALSE
        /\ heap' = heap /\ parsed' = parsed
        /\ UNCHANGED <<lookahead, counts, result, status, failures, input, ended, errors>>
    BY DEF ReduceRecovered, Replace
  <1>3. T = {}
    <2>1. \A i \in 1 .. Len(r.rhs) : i \in DOMAIN r.rhs /\ r.rhs[i] \notin Owners
      BY <1>1 DEF Owners
    <2> QED BY <1>1, <2>1, PlainTaken
  <1>4. v \in Values /\ Sound(v) /\ v.name = r.lhs /\ v.own = {}
    BY <1>1, SymbolMade DEF Owners, Symbols
  <1> HIDE DEF v
  <1>5. TakesOver(r, v, {})
    BY <1>1, <1>2, <1>3, <1>4 DEF TakesOver
  <1> QED BY <1>1, <1>4, <1>5, ReplaceKeeps

\* A rule that makes a node of its operands and frees the texts of its tokens.
LEMMA NodeKeeps ==
  ASSUME IInv, NEW r \in Rules, ReduceNode(r)
  PROVE  IInv'
  <1> DEFINE k == Len(r.rhs)
             T == Own(Taken(k))
             names == {i \in DOMAIN Taken(k) : Taken(k)[i].name = "id"}
             texts == UNION {Taken(k)[i].own : i \in names}
             v == Symbol(r.lhs, (T \ texts) \cup {Fresh})
  <1>1. Reduces(r) /\ Applies(r) /\ r.action = "node"
    BY DEF ReduceNode, Reduces
  <1>2. CASE NoMemory(r, {})
    BY <1>1, <1>2, NoMemoryKeeps
  <1>3. CASE /\ Replace(r, v) /\ heap' = (heap \ texts) \cup {Fresh}
             /\ UNCHANGED <<recovering, failures>>
    <2>1. /\ stack' = Append(Without(k), v) /\ recovering' = recovering
          /\ heap' = (heap \ texts) \cup {Fresh} /\ parsed' = parsed
          /\ UNCHANGED <<lookahead, counts, result, status, failures, input, ended, errors>>
      BY <1>3 DEF Replace
    <2>2. texts \subseteq T
      BY OwnMember
    <2>3. r.lhs \in Owners /\ r.lhs \in Symbols /\ r.lhs # "program"
      BY <1>1, RuleForms DEF Owners
    <2>4. T \subseteq heap /\ T \cap parsed = {} /\ parsed \subseteq heap
      BY <1>1, TakenSymbols, Given
    <2> HIDE DEF texts, T
    <2>5. /\ v \in Values /\ Sound(v) /\ v.name = r.lhs
          /\ v.own = (T \ texts) \cup {Fresh}
      <3>1. (T \ texts) \cup {Fresh} \in SUBSET Nat
        BY <2>4, Given
      <3> QED BY <2>3, <3>1, SymbolMade
    <2> HIDE DEF v
    <2>6. /\ {Fresh} \subseteq v.own \cup parsed'
          /\ v.own \cup parsed' \subseteq T \cup {Fresh} \cup parsed
          /\ v.own \cap parsed' = {}
          /\ T \ (v.own \cup parsed') = texts
      BY <2>1, <2>2, <2>4, <2>5, Given
    <2>7. TakesOver(r, v, {Fresh})
      <3>1. heap' = (heap \ (T \ (v.own \cup parsed'))) \cup {Fresh}
        BY <2>1, <2>6
      <3>2. recovering' \in BOOLEAN /\ parsed \subseteq parsed'
        BY <2>1 DEF IInv, Simple
      <3> QED BY <2>1, <2>6, <3>1, <3>2 DEF TakesOver, T
    <2> QED BY <1>1, <2>5, <2>7, ReplaceKeeps
  <1> QED BY <1>2, <1>3 DEF ReduceNode

\* A value of an allocation alone: an empty block, a new list.
LEMMA MadeKeeps ==
  ASSUME IInv, NEW r \in Rules, Reduces(r), r.lhs \in Owners,
         \A i \in 1 .. Len(r.rhs) : i \in DOMAIN r.rhs /\ r.rhs[i] \notin Owners,
         NEW v, v = [name |-> r.lhs, own |-> {Fresh}, items |-> << >>],
         Replace(r, v), heap' = heap \cup {Fresh}, recovering' \in BOOLEAN,
         failures' = failures
  PROVE  IInv'
  <1>1. /\ stack' = Append(Without(Len(r.rhs)), v) /\ parsed' = parsed
        /\ UNCHANGED <<lookahead, counts, result, status, failures, input, ended, errors>>
    BY DEF Replace
  <1>2. Own(Taken(Len(r.rhs))) = {}
    BY PlainTaken DEF Reduces
  <1>3. << >> \in Seq(SUBSET {Fresh}) /\ {Fresh} \in SUBSET Nat /\ r.lhs \in Symbols
    BY Given, RuleForms
  <1>4. v \in Values /\ Sound(v) /\ v.name = r.lhs /\ v.own = {Fresh}
    BY <1>3, ValueMade
  <1>5. v.own \cap parsed' = {}
    BY <1>1, <1>4, Given
  <1>6. TakesOver(r, v, {Fresh})
    BY <1>1, <1>2, <1>4, <1>5 DEF TakesOver
  <1> QED BY <1>4, <1>6, ReplaceKeeps

\* "{" error "}" makes an empty block (parser.y:257).
LEMMA EmptyBlockKeeps ==
  ASSUME IInv, NEW r \in Rules, ReduceEmptyBlock(r)
  PROVE  IInv'
  <1>1. Reduces(r) /\ Applies(r) /\ r.lhs = "block" /\ r.rhs = <<"LBRACE", "error", "RBRACE">>
    BY RuleForms DEF ReduceEmptyBlock, Reduces
  <1>2. CASE NoMemory(r, {})
    BY <1>1, <1>2, NoMemoryKeeps
  <1>3. CASE /\ Replace(r, Symbol(r.lhs, {Fresh})) /\ heap' = heap \cup {Fresh}
             /\ recovering' = FALSE /\ UNCHANGED failures
    <2>1. \A i \in 1 .. Len(r.rhs) : i \in DOMAIN r.rhs /\ r.rhs[i] \notin Owners
      BY <1>1 DEF Owners
    <2>2. r.lhs \in Owners
      BY <1>1 DEF Owners
    <2> QED BY <1>1, <1>3, <2>1, <2>2, MadeKeeps DEF Symbol
  <1> QED BY <1>2, <1>3 DEF ReduceEmptyBlock

\* The empty list before the first statement of a block (parser.y:267).
LEMMA NewListKeeps ==
  ASSUME IInv, NEW r \in Rules, ReduceNewList(r)
  PROVE  IInv'
  <1>1. Reduces(r) /\ Applies(r) /\ r.lhs = "contents" /\ r.rhs = << >>
    BY RuleForms DEF ReduceNewList, Reduces
  <1>2. CASE NoMemory(r, {})
    BY <1>1, <1>2, NoMemoryKeeps
  <1>3. CASE /\ Replace(r, Symbol(r.lhs, {Fresh})) /\ heap' = heap \cup {Fresh}
             /\ UNCHANGED <<recovering, failures>>
    <2>1. \A i \in 1 .. Len(r.rhs) : i \in DOMAIN r.rhs /\ r.rhs[i] \notin Owners
      BY <1>1
    <2>2. r.lhs \in Owners /\ recovering' \in BOOLEAN
      BY <1>1, <1>3 DEF Owners, IInv, Simple
    <2> QED BY <1>1, <1>3, <2>1, <2>2, MadeKeeps DEF Symbol
  <1> QED BY <1>2, <1>3 DEF ReduceNewList

\* What the list l and the statement x make.
LEMMA AppendedValue ==
  ASSUME NEW l, Sound(l), l.name = "list", NEW x, l.own \cup x.own \in SUBSET Nat
  PROVE  /\ Appended(l, x) \in Values /\ Sound(Appended(l, x))
         /\ Appended(l, x).name = "list" /\ Appended(l, x).own = l.own \cup x.own
  <1>1. /\ l = [name |-> "list", own |-> l.own, items |-> l.items]
        /\ l.items \in Seq(SUBSET l.own)
    BY DEF Sound
  <1>2. "list" \in Symbols /\ "list" \in Owners
    BY DEF Symbols, Owners
  <1>3. CASE x.own = {}
    <2>1. l \in Values
      BY <1>1, <1>2, ValueMade
    <2> QED BY <1>3, <2>1 DEF Appended
  <1>4. CASE x.own # {}
    <2> DEFINE own == l.own \cup x.own
               items == Append(l.items, x.own)
    <2>1. l.items \in Seq(SUBSET own)
      BY <1>1, SeqWider
    <2>2. items \in Seq(SUBSET own)
      BY <2>1
    <2>3. Appended(l, x) = [name |-> "list", own |-> own, items |-> items]
      BY <1>4 DEF Appended, List
    <2> HIDE DEF items
    <2>4. Appended(l, x) \in Values /\ Sound(Appended(l, x))
      BY <1>2, <2>2, <2>3, ValueMade
    <2> QED BY <2>3, <2>4
  <1> QED BY <1>3, <1>4

\* The first statement of a list (parser.y:117).
LEMMA FirstItemKeeps ==
  ASSUME IInv, NEW r \in Rules, ReduceFirstItem(r)
  PROVE  IInv'
  <1> DEFINE x == stack[Len(stack)]
             v == Appended(List({Fresh}, << >>), x)
  <1>1. Reduces(r) /\ Applies(r) /\ r.lhs = "list" /\ r.rhs = <<"statement">>
    BY RuleForms DEF ReduceFirstItem, Reduces
  <1>2. CASE NoMemory(r, {})
    BY <1>1, <1>2, NoMemoryKeeps
  <1>3. CASE /\ Replace(r, v) /\ heap' = heap \cup {Fresh}
             /\ UNCHANGED <<recovering, failures>>
    <2>1. /\ stack' = Append(Without(Len(r.rhs)), v) /\ parsed' = parsed
          /\ recovering' \in BOOLEAN /\ heap' = heap \cup {Fresh}
          /\ UNCHANGED <<lookahead, counts, result, status, failures, input, ended, errors>>
      BY <1>3 DEF Replace, IInv, Simple
    <2>2. Own(Taken(Len(r.rhs))) = x.own
      BY <1>1, TakenOne
    <2>3. x.own \subseteq heap /\ x.own \cap parsed = {} /\ parsed \subseteq heap
      <3>1. LET T == Own(Taken(Len(r.rhs))) IN T \subseteq heap /\ T \cap parsed = {}
        BY <1>1, TakenSymbols
      <3> QED BY <2>2, <3>1, Given
    <2>4. v \in Values /\ Sound(v) /\ v.name = r.lhs /\ v.own = {Fresh} \cup x.own
      <3> DEFINE l == List({Fresh}, << >>)
      <3>1. Sound(l) /\ l.name = "list" /\ l.own = {Fresh}
        <4>1. << >> \in Seq(SUBSET {Fresh})
          OBVIOUS
        <4> QED BY <4>1 DEF List, Sound, Owners
      <3>2. l.own \cup x.own \in SUBSET Nat
        BY <2>3, <3>1, Given
      <3>3. v = Appended(l, x)
        OBVIOUS
      <3> HIDE DEF l, v, x
      <3> QED BY <1>1, <3>1, <3>2, <3>3, AppendedValue
    <2> HIDE DEF v, x
    <2>5. TakesOver(r, v, {Fresh})
      <3>1. v.own \cap parsed' = {}
        BY <2>1, <2>3, <2>4, Given
      <3> QED BY <2>1, <2>2, <2>4, <3>1 DEF TakesOver
    <2> QED BY <1>1, <2>4, <2>5, ReplaceKeeps
  <1> QED BY <1>2, <1>3 DEF ReduceFirstItem, Last

\* Another statement of a list (parser.y:129).
LEMMA NextItemKeeps ==
  ASSUME IInv, NEW r \in Rules, ReduceNextItem(r)
  PROVE  IInv'
  <1> DEFINE l == stack[Len(stack) - 1]
             x == stack[Len(stack)]
             v == Appended(l, x)
  <1>1. Reduces(r) /\ Applies(r) /\ r.lhs = "list" /\ r.rhs = <<"list", "statement">>
    BY RuleForms DEF ReduceNextItem, Reduces
  <1>2. /\ Own(Taken(Len(r.rhs))) = l.own \cup x.own
        /\ Sound(l) /\ l.name = "list" /\ Last(Without(1)) = l /\ Last(stack) = x
    BY <1>1, TakenTwo
  <1>3. CASE NoMemory(r, {})
    BY <1>1, <1>3, NoMemoryKeeps
  <1>4. CASE Replace(r, v) /\ UNCHANGED <<recovering, heap, failures>>
    <2>1. /\ stack' = Append(Without(Len(r.rhs)), v) /\ parsed' = parsed
          /\ recovering' \in BOOLEAN /\ heap' = heap
          /\ UNCHANGED <<lookahead, counts, result, status, failures, input, ended, errors>>
      BY <1>4 DEF Replace, IInv, Simple
    <2>2. /\ l.own \cup x.own \subseteq heap /\ (l.own \cup x.own) \cap parsed = {}
          /\ parsed \subseteq heap
      BY <1>1, <1>2, TakenSymbols, Given
    <2>3. l.own \cup x.own \in SUBSET Nat
      BY <2>2, Given
    <2> HIDE DEF x, l
    <2>4. v \in Values /\ Sound(v) /\ v.name = r.lhs /\ v.own = l.own \cup x.own
      BY <1>1, <1>2, <2>3, AppendedValue
    <2> HIDE DEF v
    <2>5. TakesOver(r, v, {})
      <3>1. v.own \cap parsed' = {}
        BY <2>1, <2>2, <2>4
      <3> QED BY <1>2, <2>1, <2>4, <3>1 DEF TakesOver
    <2> QED BY <1>1, <2>4, <2>5, ReplaceKeeps
  <1> QED BY <1>2, <1>3, <1>4 DEF ReduceNextItem

\* The list of a block or of a program is all that its right-hand side owns.
LEMMA TakenList ==
  ASSUME IInv, NEW r \in Rules, Applies(r), r.action = "attach", NEW i,
         i = Len(stack) - Len(r.rhs) + (IF r.lhs = "program" THEN 1 ELSE 2)
  PROVE  /\ i \in DOMAIN stack /\ Sound(stack[i])
         /\ Own(Taken(Len(r.rhs))) = stack[i].own
         /\ r.lhs = "program" => i = Len(stack) /\ stack[i].name = "list"
         /\ r.lhs # "program" => r.lhs = "block"
  <1>1. CASE r.lhs = "program" /\ r.rhs = <<"list">>
    <2>1. i = Len(stack)
      BY <1>1, Given
    <2> QED BY <1>1, <2>1, TakenOne
  <1>2. CASE r.lhs = "block" /\ r.rhs = <<"LBRACE", "contents", "RBRACE">>
    <2> DEFINE k == Len(r.rhs)
               m == Len(stack)
    <2>1. k = 3 /\ DOMAIN r.rhs = 1 .. 3 /\ m \in Nat
      BY <1>2, Given
    <2>2. DOMAIN Taken(k) = 1 .. k
      BY TakenSymbols
    <2>3. ASSUME NEW j \in 1 .. k
          PROVE  /\ m - k + j \in DOMAIN stack
                 /\ Taken(k)[j] = stack[m - k + j] /\ Sound(Taken(k)[j])
                 /\ Taken(k)[j].name = r.rhs[j]
      <3>1. m - k + j \in DOMAIN stack
        BY TakenSymbols
      <3>2. Taken(k)[j] = stack[m - k + j]
        BY TakenSymbols
      <3>3. Sound(Taken(k)[j])
        BY TakenSymbols
      <3>4. stack[m - k + j].name = r.rhs[j]
        <4>1. j \in DOMAIN r.rhs
          BY <2>1
        <4> QED BY <4>1, TakenSymbols
      <3> QED BY <3>1, <3>2, <3>3, <3>4
    <2> HIDE DEF k, m
    <2>4. i = m - k + 2
      BY <1>2 DEF k, m
    <2>5. i \in DOMAIN stack /\ Sound(stack[i]) /\ Taken(k)[2] = stack[i]
      <3>1. 2 \in 1 .. k
        BY <2>1
      <3>2. /\ m - k + 2 \in DOMAIN stack
            /\ Taken(k)[2] = stack[m - k + 2] /\ Sound(Taken(k)[2])
        BY <2>3, <3>1
      <3> QED BY <2>4, <3>2
    <2>6. Taken(k)[1].own = {} /\ Taken(k)[3].own = {}
      <3>1. /\ Taken(k)[1].name = "LBRACE" /\ Taken(k)[3].name = "RBRACE"
            /\ Sound(Taken(k)[1]) /\ Sound(Taken(k)[3])
        BY <1>2, <2>1, <2>3
      <3> QED BY <3>1 DEF Sound, Owners
    <2>7. \A j \in DOMAIN Taken(k) : j = 1 \/ j = 2 \/ j = 3
      BY <2>1, <2>2
    <2>8. 2 \in DOMAIN Taken(k)
      BY <2>1, <2>2
    <2>9. Own(Taken(k)) = stack[i].own
      <3>1. ASSUME NEW x PROVE x \in Own(Taken(k)) <=> x \in Taken(k)[2].own
        BY <2>6, <2>7, <2>8, OwnMember
      <3> QED BY <2>5, <3>1
    <2> QED BY <1>2, <2>5, <2>9 DEF k
  <1> QED BY <1>1, <1>2, RuleForms

\* A list becomes a block, or the program (parser.y:98, :241).
LEMMA AttachKeeps ==
  ASSUME IInv, NEW r \in Rules, ReduceAttach(r)
  PROVE  IInv'
  <1> DEFINE i == Len(stack) - Len(r.rhs) + (IF r.lhs = "program" THEN 1 ELSE 2)
             list == stack[i]
             items == UNION Range(list.items)
             node == items \cup {Fresh}
             moved(k) == UNION {list.items[j] : j \in 1 .. k}
             v == Symbol(r.lhs, KeptValue(r, node))
             T == Own(Taken(Len(r.rhs)))
  <1>1. Reduces(r) /\ Applies(r) /\ r.action = "attach"
    BY DEF ReduceAttach, Reduces
  <1>2. /\ i \in DOMAIN stack /\ Sound(list) /\ T = list.own
        /\ r.lhs = "program" => i = Len(stack) /\ stack[i].name = "list"
        /\ r.lhs # "program" => r.lhs = "block"
    BY <1>1, TakenList
  <1>3. T \subseteq Own(stack) /\ T \subseteq heap /\ T \cap parsed = {}
    BY <1>1, TakenSymbols
  <1>4. \A j \in DOMAIN list.items : list.items[j] \subseteq T
    <2> HIDE DEF list, T
    <2>1. list.items \in Seq(SUBSET list.own)
      BY <1>2 DEF Sound
    <2>2. \A j \in DOMAIN list.items : list.items[j] \in SUBSET list.own
      BY <2>1
    <2> QED BY <1>2, <2>2
  <1>5. items \subseteq T
    BY <1>4 DEF Range
  <1>6. CASE NoMemory(r, {})
    BY <1>1, <1>6, NoMemoryKeeps
  <1>7. ASSUME NEW k \in 0 .. Len(list.items) - 1, NoMemory(r, moved(k))
        PROVE  IInv'
    <2>1. list.items \in Seq(SUBSET list.own)
      BY <1>2 DEF Sound
    <2>2. 1 .. k \subseteq DOMAIN list.items
      <3> HIDE DEF list
      <3> QED BY <2>1
    <2>3. moved(k) \subseteq T
      BY <1>4, <2>2
    <2> HIDE DEF moved
    <2> QED BY <1>1, <1>3, <1>7, <2>3, NoMemoryKeeps
  <1>8. CASE /\ stack' = Append(Without(Len(r.rhs)), v)
             /\ parsed' = (IF r.lhs = "program" THEN node ELSE parsed)
             /\ heap' = (heap \ (list.own \ items)) \cup {Fresh}
             /\ UNCHANGED <<lookahead, recovering, counts, result, status, failures,
                            input, ended, errors>>
    <2> HIDE DEF items, list, T, i
    <2>1. r.lhs = "program" => parsed = {}
      <3>1. SUFFICES ASSUME r.lhs = "program" PROVE parsed = {}
        OBVIOUS
      <3>2. Top = "list"
        <4>1. Len(stack) \in DOMAIN stack /\ stack[Len(stack)].name = "list"
          BY <1>2, <3>1
        <4>2. stack # << >>
          BY <4>1
        <4> QED BY <4>1, <4>2 DEF Top, Last
      <3> QED BY <1>1, <3>2 DEF IInv, Phases, Reduces, Parsing
    <2>2. v \in Values /\ Sound(v) /\ v.name = r.lhs /\ v.own = KeptValue(r, node)
      <3>1. KeptValue(r, node) \in SUBSET Nat
        BY <1>3, <1>5, Given DEF KeptValue
      <3>2. r.lhs \in Owners \/ KeptValue(r, node) = {}
        BY <1>2 DEF KeptValue, Owners
      <3>3. r.lhs \in Symbols
        BY RuleForms
      <3> HIDE DEF node
      <3> QED BY <3>1, <3>2, <3>3, SymbolMade
    <2> HIDE DEF v
    <2>3. /\ v.own \cup parsed' = node \cup parsed
          /\ v.own \cap parsed' = {} /\ parsed \subseteq parsed'
          /\ r.lhs # "program" => parsed' = parsed
      <3>1. node \cap parsed = {}
        BY <1>3, <1>5, Given
      <3> HIDE DEF node
      <3> QED BY <1>8, <2>1, <2>2, <3>1 DEF KeptValue
    <2>4. heap' = (heap \ (T \ (node \cup parsed))) \cup {Fresh}
      BY <1>2, <1>3, <1>8, Given DEF list
    <2>5. recovering' \in BOOLEAN
      BY <1>8 DEF IInv, Simple
    <2>6. /\ {Fresh} \subseteq node \cup parsed
          /\ node \cup parsed \subseteq T \cup {Fresh} \cup parsed
      BY <1>5
    <2>7. TakesOver(r, v, {Fresh})
      <3> HIDE DEF node
      <3> QED BY <1>8, <2>3, <2>4, <2>5, <2>6 DEF TakesOver, T
    <2> QED BY <1>1, <2>2, <2>7, ReplaceKeeps
  <1> QED BY <1>6, <1>7, <1>8 DEF ReduceAttach

\* Every reduction keeps the invariant.
LEMMA ReduceKeeps ==
  ASSUME IInv, Reduce
  PROVE  IInv'
  BY PassKeeps, RecoveredKeeps, NodeKeeps, EmptyBlockKeeps, NewListKeeps, FirstItemKeeps,
     NextItemKeeps, AttachKeeps DEF Reduce

-----------------------------------------------------------------------------
(* Tokens. *)

\* A token that has no name is none.
LEMMA TokenName ==
  ASSUME IInv
  PROVE  /\ lookahead.name = "none" <=> lookahead = NoToken
         /\ lookahead # NoToken => lookahead.name \in Symbols /\ lookahead \in Values
         /\ lookahead.name \notin {"program", "error", "bottom"}
  <1>1. lookahead \in TokenValues /\ Sound(lookahead)
    BY Given
  <1>2. lookahead.name \in Tokens \cup {"end", "undef", "none"} /\ lookahead.items = << >>
    BY <1>1 DEF TokenValues
  <1>3. lookahead.name = "none" => lookahead = NoToken
    <2>1. lookahead.name = "none" => lookahead.own = {}
      BY <1>1 DEF Sound, Owners
    <2> QED BY <1>1, <1>2, <2>1 DEF Sound, NoToken, Symbol
  <1>4. lookahead = NoToken => lookahead.name = "none"
    BY DEF NoToken, Symbol
  <1>5. lookahead.name # "none" => lookahead.name \in Symbols
    BY <1>2 DEF Symbols
  <1>6. lookahead.name \notin {"program", "error", "bottom"}
    BY <1>2 DEF Tokens
  <1>7. lookahead.name \in Symbols => lookahead \in Values
    <2>1. << >> \in Seq(SUBSET Nat)
      OBVIOUS
    <2> QED BY <1>1, <2>1 DEF TokenValues, Values
  <1> QED BY <1>3, <1>4, <1>5, <1>6, <1>7

\* Once there is a program on the stack the source has ended.
LEMMA ProgramOnTop ==
  ASSUME IInv, Top = "program" \/ \E i \in DOMAIN stack : stack[i].name = "program"
  PROVE  Top = "program" /\ lookahead.name = "end" /\ Expected = {"end"}
  <1>1. Top = "program"
    <2>1. SUFFICES ASSUME NEW i \in DOMAIN stack, stack[i].name = "program"
                   PROVE  Top = "program"
      OBVIOUS
    <2>2. i = 1 /\ Len(stack) = 1
      BY <2>1 DEF IInv, Phases
    <2>3. stack # << >>
      BY <2>2
    <2> QED BY <2>1, <2>2, <2>3 DEF Top, Last
  <1>2. Expected = {"end"}
    BY <1>1 DEF Expected, StatementStart, OperandStart
  <1> QED BY <1>1, <1>2 DEF IInv, Phases

\* A token that is read owns its text, if it has one.
LEMMA ReadKeeps ==
  ASSUME IInv, Reading, NEW t \in Tokens \cup {"end", "undef"}, NEW own \in SUBSET {Fresh},
         t \in Owners \/ own = {}, lookahead' = Symbol(t, own), heap' = heap \cup own, Simple'
  PROVE  IInv'
  <1>1. /\ lookahead = NoToken /\ status = "parsing" /\ lookahead.own = {}
        /\ UNCHANGED <<stack, recovering, parsed, result, status, errors>>
    BY DEF Reading, Parsing, NoToken, Symbol
  <1>2. own \in SUBSET Nat /\ own \cap heap = {}
    BY Given
  <1>3. /\ lookahead' \in TokenValues /\ Sound(lookahead')
        /\ lookahead'.own = own /\ lookahead'.name = t
    <2>1. /\ lookahead'.own = own /\ lookahead'.name = t /\ lookahead'.items = << >>
          /\ lookahead' = [name |-> t, own |-> own, items |-> << >>]
      BY DEF Symbol
    <2>2. t \in Symbols
      BY DEF Symbols
    <2>3. Sound(lookahead')
      BY <1>2, <2>2, SymbolMade
    <2> QED BY <1>2, <2>1, <2>3 DEF TokenValues
  <1>4. heap' \in SUBSET Nat /\ IsFiniteSet(heap')
    <2>1. IsFiniteSet(heap \cup {Fresh}) /\ heap' \in SUBSET (heap \cup {Fresh})
      BY Given, FS_AddElement
    <2> QED BY <1>2, <2>1, Given, FS_Subset
  <1>5. /\ stack \in Seq(Values) /\ \A i \in DOMAIN stack : Sound(stack[i])
        /\ Apart(stack, {}, parsed) /\ Own(stack) \subseteq heap /\ parsed \subseteq heap
    BY <1>1, Given
  <1>6. Apart(stack, own, parsed) /\ Inside(stack, own, parsed, heap')
    <2>1. \A i \in DOMAIN stack : stack[i].own \subseteq heap
      BY <1>5, OwnMember
    <2> QED BY <1>2, <1>5, <2>1 DEF Apart, Inside
  <1>7. Fits(stack', lookahead', parsed', heap')
    BY <1>1, <1>3, <1>4, <1>5, <1>6 DEF Fits
  <1>8. result' # 2 => Whole(stack', lookahead', parsed', heap')
    BY <1>1, <1>3 DEF IInv, Whole
  <1>9. Phases'
    <2>1. Top # "program"
      BY <1>1, ProgramOnTop, TokenName
    <2> QED BY <1>1, <2>1 DEF IInv, Phases, Top
  <1> QED BY <1>7, <1>8, <1>9 DEF IInv

\* Every read keeps the invariant.
LEMMA ReadsKeep ==
  ASSUME IInv, ReadEnd \/ ReadIdentifier \/ ReadBad \/ \E t \in Tokens : ReadPlain(t)
  PROVE  IInv'
  <1>1. CASE ReadEnd
    <2>1. Reading /\ lookahead' = Symbol("end", {}) /\ heap' = heap \cup {}
      BY <1>1 DEF ReadEnd
    <2>2. Simple'
      BY <1>1 DEF ReadEnd, Reading, IInv, Simple
    <2> QED BY <2>1, <2>2, ReadKeeps
  <1>2. ASSUME NEW t \in Tokens, ReadPlain(t) PROVE IInv'
    <2>1. Reading /\ lookahead' = Symbol(t, {}) /\ heap' = heap \cup {}
      BY <1>2 DEF ReadPlain, Read
    <2>2. Simple'
      BY <1>2 DEF ReadPlain, Read, Reading, IInv, Simple
    <2> QED BY <2>1, <2>2, ReadKeeps
  <1>3. CASE ReadBad
    <2>1. Reading /\ lookahead' = Symbol("undef", {}) /\ heap' = heap \cup {}
      BY <1>3 DEF ReadBad, Read
    <2>2. counts' \in Counts
      BY <1>3 DEF ReadBad, IInv, Simple, Counts
    <2>3. Simple'
      BY <1>3, <2>2 DEF ReadBad, Read, Reading, IInv, Simple
    <2> QED BY <2>1, <2>3, ReadKeeps
  <1>4. CASE ReadIdentifier
    <2>1. Read("id") /\ Reading
      BY <1>4 DEF ReadIdentifier, Read
    <2>2. /\ recovering' = recovering /\ ended' = ended /\ result' = result
          /\ status' = status /\ errors' = errors /\ input' \in Beginnings
      BY <2>1 DEF Read, Reading
    <2>3. CASE /\ lookahead' = Symbol("id", {Fresh}) /\ heap' = heap \cup {Fresh}
               /\ UNCHANGED <<counts, failures>>
      <3>1. Simple'
        BY <2>2, <2>3 DEF IInv, Simple
      <3>2. "id" \in Tokens /\ "id" \in Owners
        BY DEF Tokens, Owners
      <3> QED BY <2>1, <2>3, <3>1, <3>2, ReadKeeps
    <2>4. CASE /\ CanFail /\ Fail /\ lookahead' = Symbol("undef", {})
               /\ counts' = [counts EXCEPT !.internal = TRUE] /\ UNCHANGED heap
      <3>1. counts' \in Counts
        BY <2>4 DEF IInv, Simple, Counts
      <3>2. failures' \in 0 .. MaxFailures
        BY <2>4, BoundsAssumption DEF CanFail, Fail, IInv, Simple
      <3>3. Simple'
        BY <2>2, <3>1, <3>2 DEF IInv, Simple
      <3>4. heap' = heap \cup {}
        BY <2>4
      <3> QED BY <2>1, <2>4, <3>3, <3>4, ReadKeeps
    <2> QED BY <1>4, <2>3, <2>4 DEF ReadIdentifier
  <1> QED BY <1>1, <1>2, <1>3, <1>4

-----------------------------------------------------------------------------
(* Shifts and errors. *)

\* What is shifted, or is an error, does not come after a program.
LEMMA NotAfterProgram ==
  ASSUME IInv, Decided, lookahead.name \notin Expected \/ lookahead.name # "end"
  PROVE  /\ Top # "program" /\ \A i \in DOMAIN stack : stack[i].name # "program"
         /\ status = "parsing" /\ result = 0 /\ parsed = {} /\ lookahead # NoToken
  <1>1. status = "parsing" /\ lookahead # NoToken
    BY DEF Decided, Parsing
  <1>2. Top # "program" /\ \A i \in DOMAIN stack : stack[i].name # "program"
    BY ProgramOnTop
  <1> QED BY <1>1, <1>2 DEF IInv, Phases

\* A shift hands what the token owns to the stack.
LEMMA ShiftKeeps ==
  ASSUME IInv, Shift
  PROVE  IInv'
  <1> DEFINE l == lookahead.own
  <1>1. /\ Decided /\ lookahead.name # "end"
        /\ stack' = Append(stack, lookahead) /\ lookahead' = NoToken
        /\ UNCHANGED <<recovering, counts, parsed, result, status, heap, failures, input,
                       ended, errors>>
    BY DEF Shift
  <1>2. lookahead \in Values /\ lookahead.name # "program" /\ Sound(lookahead)
    BY <1>1, TokenName, Given DEF Decided
  <1>3. NoToken \in TokenValues /\ Sound(NoToken) /\ NoToken.own = {}
    BY DEF NoToken, Symbol, TokenValues, Sound, Owners
  <1>4. Moves(Values, stack, {}, parsed, heap \ l, 0, lookahead, l, stack', parsed, heap)
    <2>1. stack \in Seq(Values) /\ 0 \in 0 .. Len(stack)
      BY Given
    <2>2. Apart(stack, {}, parsed) /\ Inside(stack, {}, parsed, heap \ l)
      <3>1. Own(stack) \cap l = {}
        BY Given, OwnMember DEF Apart
      <3> QED BY <3>1, Given DEF Apart, Inside
    <2>3. SubSeq(stack, Len(stack) - 0 + 1, Len(stack)) = << >>
      BY <2>1
    <2>4. Own(SubSeq(stack, Len(stack) - 0 + 1, Len(stack))) = {}
      BY <2>3 DEF Own
    <2>5. SubSeq(stack, 1, Len(stack) - 0) = stack
      BY <2>1
    <2>6. l \cap parsed = {} /\ l \subseteq heap
      BY Given DEF Apart
    <2>7. stack' = Append(SubSeq(stack, 1, Len(stack) - 0), lookahead)
      BY <1>1, <2>5
    <2> DEFINE T == Own(SubSeq(stack, Len(stack) - 0 + 1, Len(stack)))
    <2>8. T = {}
      BY <2>4
    <2>9. heap = ((heap \ l) \ (T \ (lookahead.own \cup parsed))) \cup l
      BY <2>6, <2>8
    <2> QED BY <1>2, <2>1, <2>2, <2>6, <2>7, <2>9 DEF Moves
  <1>5. /\ stack' \in Seq(Values)
        /\ Apart(stack', {}, parsed) /\ Inside(stack', {}, parsed, heap)
        /\ heap \ l \subseteq Own(stack) \cup {} \cup parsed =>
             heap \subseteq Own(stack') \cup {} \cup parsed
    BY <1>4, ReplaceApart
  <1>6. \A i \in DOMAIN stack' : \/ stack'[i] = lookahead
                                 \/ i \in DOMAIN stack /\ stack'[i] = stack[i]
    BY <1>1, Given
  <1>7. Fits(stack', lookahead', parsed', heap')
    BY <1>1, <1>2, <1>3, <1>5, <1>6, Given DEF Fits
  <1>8. result' # 2 => Whole(stack', lookahead', parsed', heap')
    <2>1. result # 2 => heap \subseteq Own(stack) \cup l \cup parsed
      BY DEF IInv, Whole
    <2>2. result # 2 => heap \subseteq Own(stack') \cup parsed
      BY <1>5, <2>1
    <2> QED BY <1>1, <2>2 DEF Whole
  <1>9. Phases'
    <2>1. /\ \A i \in DOMAIN stack' : stack'[i].name # "program"
          /\ status = "parsing" /\ result = 0 /\ parsed = {}
      BY <1>1, <1>2, <1>6, NotAfterProgram
    <2>2. Top' # "program"
      <3>1. stack' # << >> /\ stack'[Len(stack')] = lookahead
        BY <1>1, Given
      <3> QED BY <1>2, <3>1 DEF Top, Last
    <2> QED BY <1>1, <2>1, <2>2 DEF Phases
  <1>10. Simple'
    BY <1>1 DEF IInv, Simple
  <1> QED BY <1>7, <1>8, <1>9, <1>10 DEF IInv

\* The error token takes the place of what is popped; the token read is kept or
\* discarded.
LEMMA ShiftErrorKeeps ==
  ASSUME IInv, Unexpected, NEW d, ShiftError(d), counts' \in Counts,
         errors' \in Seq([at : Nat, reported : BOOLEAN]),
         \/ d = {} /\ lookahead' = lookahead
         \/ d = lookahead.own /\ lookahead' = NoToken
  PROVE  IInv'
  <1> DEFINE t == SubSeq(stack, 1, Kept)
             m == lookahead'.own
             e == Symbol("error", {})
  <1>1. /\ stack' = Append(t, e) /\ recovering' = TRUE
        /\ heap' = heap \ (d \cup Own(SubSeq(stack, Kept + 1, Len(stack))))
        /\ UNCHANGED <<parsed, result, status, failures, input, ended>>
    BY DEF ShiftError, Freed
  <1>2. lookahead' \in TokenValues /\ Sound(lookahead')
    BY Given DEF NoToken, Symbol, TokenValues, Sound, Owners
  <1>3. m \subseteq lookahead.own /\ d = lookahead.own \ m
    BY DEF NoToken, Symbol
  <1>4. Kept \in 0 .. Len(stack) /\ stack \in Seq(Values)
    BY Given, KeptOnStack
  <1>5. Cuts(Values, stack, lookahead.own, parsed, heap, Kept, m, t, heap')
    BY <1>1, <1>3, <1>4, Given DEF Cuts
  <1> HIDE DEF t, m
  <1>6. /\ t \in Seq(Values) /\ Len(t) = Kept /\ \A i \in 1 .. Kept : t[i] = stack[i]
        /\ Apart(t, m, parsed) /\ Inside(t, m, parsed, heap')
        /\ heap \subseteq Own(stack) \cup lookahead.own \cup parsed =>
             heap' \subseteq Own(t) \cup m \cup parsed
    BY <1>5, CutApart
  <1>7. e \in Values /\ Sound(e) /\ e.name = "error" /\ e.own = {}
    BY SymbolMade DEF Symbols
  <1> HIDE DEF e
  <1>8. /\ stack' \in Seq(Values)
        /\ Apart(stack', m, parsed) /\ Inside(stack', m, parsed, heap')
        /\ heap' \subseteq Own(t) \cup m \cup parsed =>
             heap' \subseteq Own(stack') \cup m \cup parsed
    <2>1. Puts(Values, t, m, parsed, heap', e, stack')
      BY <1>1, <1>6, <1>7 DEF Puts
    <2> QED BY <2>1, PlainApart
  <1>9. \A i \in DOMAIN stack' : \/ stack'[i] = e
                                 \/ i \in DOMAIN stack /\ stack'[i] = stack[i]
    BY <1>1, <1>4, <1>6
  <1>10. heap' \in SUBSET Nat /\ IsFiniteSet(heap')
    <2>1. heap' \in SUBSET heap
      BY <1>1
    <2> QED BY <2>1, Given, FS_Subset
  <1>11. Fits(stack', lookahead', parsed', heap')
    <2>1. \A i \in DOMAIN stack' : Sound(stack'[i])
      BY <1>7, <1>9, Given
    <2> QED BY <1>1, <1>2, <1>8, <1>10, <2>1 DEF Fits, m
  <1>12. result' # 2 => Whole(stack', lookahead', parsed', heap')
    BY <1>1, <1>6, <1>8 DEF IInv, Whole, m
  <1>13. Phases'
    <2>1. /\ \A i \in DOMAIN stack' : stack'[i].name # "program"
          /\ status = "parsing" /\ result = 0 /\ parsed = {}
      BY <1>7, <1>9, NotAfterProgram DEF Unexpected
    <2>2. Top' = "error"
      <3>1. stack' # << >> /\ stack'[Len(stack')] = e
        BY <1>1, <1>6
      <3> QED BY <1>7, <3>1 DEF Top, Last
    <2> QED BY <1>1, <2>1, <2>2 DEF Phases
  <1>14. Simple'
    BY <1>1 DEF IInv, Simple
  <1> QED BY <1>11, <1>12, <1>13, <1>14 DEF IInv

\* An error takes values off the stack and frees what they own.
LEMMA DetectKeeps ==
  ASSUME IInv, Detect
  PROVE  IInv'
  <1>1. counts' \in Counts
    BY YyerrorType DEF Detect, IInv, Simple
  <1>2. errors' \in Seq([at : Nat, reported : BOOLEAN])
    <2> DEFINE x == [at |-> Len(input) + (IF ended THEN 1 ELSE 0),
                     reported |-> counts'.syntax > counts.syntax]
    <2>1. errors' = Append(errors, x) /\ errors \in Seq([at : Nat, reported : BOOLEAN])
      BY DEF Detect, IInv, Simple
    <2>2. Len(input) \in Nat
      BY BeginningType DEF IInv, Simple
    <2>3. x \in [at : Nat, reported : BOOLEAN]
      BY <2>2
    <2> QED BY <2>1, <2>3
  <1> QED BY <1>1, <1>2, ShiftErrorKeeps DEF Detect

\* A discarded token is freed.
LEMMA DiscardKeeps ==
  ASSUME IInv, Discard
  PROVE  IInv'
  <1>1. Freed(<<lookahead>>) = lookahead.own
    <2> DEFINE s == <<lookahead>>
    <2>1. DOMAIN s = {1} /\ s[1] = lookahead
      OBVIOUS
    <2> HIDE DEF s
    <2>2. Own(s) = lookahead.own
      BY <2>1, OwnMember
    <2> QED BY <2>2 DEF Freed, s
  <1>2. counts' \in Counts /\ errors' \in Seq([at : Nat, reported : BOOLEAN])
    BY DEF Discard, IInv, Simple
  <1> QED BY <1>1, <1>2, ShiftErrorKeeps DEF Discard

\* yyparse returns, with everything but the program destroyed.
LEMMA ReturnsKeep ==
  ASSUME IInv, Accept \/ GiveUp \/ Overflow
  PROVE  IInv'
  <1>1. CASE Overflow
    <2>1. 0 \in 0 .. Len(stack) /\ failures' \in 0 .. MaxFailures
      BY <1>1, Given DEF Overflow, IInv, Simple
    <2> QED BY <1>1, <2>1, ExhaustKeeps DEF Overflow
  <1>2. CASE Accept \/ GiveUp
    <2> DEFINE gone == {} \cup Freed(stack \o <<lookahead>>)
    <2>1. /\ heap' = heap \ gone /\ stack' = << >> /\ lookahead' = NoToken
          /\ status' = "returned" /\ result' \in 0 .. 1
          /\ UNCHANGED <<recovering, counts, parsed, failures, input, ended, errors>>
      BY <1>2 DEF Accept, GiveUp, Cleanup
    <2>2. gone = Own(stack) \cup lookahead.own
      BY Given, OwnConcat DEF Freed
    <2>3. parsed \cap gone = {}
      BY <2>2, ParsedApart
    <2>4. result # 2
      BY <1>2 DEF Accept, GiveUp, Unexpected, Decided, Parsing, IInv, Phases
    <2>5. heap' \subseteq parsed
      BY <2>1, <2>2, <2>4 DEF IInv, Whole
    <2>6. counts' \in Counts /\ failures' \in 0 .. MaxFailures /\ result' \in 0 .. 2
      BY <2>1 DEF IInv, Simple
    <2> HIDE DEF gone
    <2> QED BY <2>1, <2>3, <2>5, <2>6, ReturnKeeps
  <1> QED BY <1>1, <1>2

\* Between the calls of yyparse.
LEMMA CallsKeep ==
  ASSUME IInv, Begin \/ End \/ Destroy
  PROVE  IInv'
  <1>1. CASE Begin
    <2>1. heap' \in SUBSET Nat /\ IsFiniteSet(heap')
      BY <1>1, FS_EmptySet DEF Begin
    <2>2. Simple'
      <3>1. NoCounts \in Counts
        BY DEF NoCounts, Counts
      <3>2. << >> \in Beginnings
        BY EmptyBeginning
      <3>3. << >> \in Seq([at : Nat, reported : BOOLEAN])
        OBVIOUS
      <3>0. recovering' \in BOOLEAN /\ ended' \in BOOLEAN
        BY <1>1 DEF Begin
      <3>4. /\ counts' = NoCounts /\ result' = 0
            /\ status' = "parsing" /\ input' = << >> /\ errors' = << >>
            /\ failures' = failures
        BY <1>1 DEF Begin
      <3>5. failures \in 0 .. MaxFailures
        BY DEF IInv, Simple
      <3>6. result' \in 0 .. 2
        BY <3>4
      <3>7. status' \in Statuses
        BY <3>4 DEF Statuses
      <3>8. /\ counts' \in Counts /\ failures' \in 0 .. MaxFailures /\ input' \in Beginnings
            /\ errors' \in Seq([at : Nat, reported : BOOLEAN])
        BY <3>1, <3>2, <3>3, <3>4, <3>5
      <3> QED BY <3>0, <3>6, <3>7, <3>8 DEF Simple
    <2> QED BY <1>1, <2>1, <2>2, IdleKeeps DEF Begin
  <1>2. CASE End \/ Destroy
    <2>1. /\ status \notin {"none", "parsing"}
          /\ UNCHANGED <<stack, lookahead, recovering, counts, result, failures, input, ended,
                         errors>>
      BY <1>2 DEF End, Destroy, Done
    <2>2. \/ parsed' = parsed /\ heap' = heap
          \/ parsed' = {} /\ heap' = heap \ parsed
      BY <1>2 DEF End, Destroy
    <2>3. stack = << >> /\ lookahead = NoToken
      BY <2>1 DEF IInv, Phases
    <2>4. result # 2 => heap \subseteq parsed
      <3>1. Own(stack) = {} /\ lookahead.own = {}
        BY <2>3, OwnMember DEF NoToken, Symbol
      <3> QED BY <3>1 DEF IInv, Whole
    <2>5. heap' \in SUBSET heap /\ parsed' \subseteq heap'
      BY <2>2, Given
    <2>6. heap' \in SUBSET Nat /\ IsFiniteSet(heap')
      BY <2>5, Given, FS_Subset
    <2>7. status' \in Statuses /\ status' # "parsing"
      BY <1>2 DEF End, Destroy, Verdict, Statuses
    <2>8. Simple'
      BY <2>1, <2>7 DEF IInv, Simple
    <2>9. result' # 2 => heap' \subseteq parsed'
      BY <2>1, <2>2, <2>4
    <2> QED BY <2>1, <2>3, <2>5, <2>6, <2>7, <2>8, <2>9, IdleKeeps
  <1> QED BY <1>1, <1>2

\* The invariant holds at the start ...
LEMMA InitIInv ==
  Init => IInv
  <1> SUFFICES ASSUME Init PROVE IInv
    OBVIOUS
  <1>1. NoToken \in TokenValues /\ Sound(NoToken) /\ NoToken.own = {}
    BY DEF NoToken, Symbol, TokenValues, Sound, Owners
  <1>2. Own(stack) = {} /\ stack \in Seq(Values) /\ DOMAIN stack = {} /\ stack = << >>
    BY OwnMember DEF Init
  <1>3. NoCounts \in Counts /\ << >> \in Beginnings /\ 0 \in 0 .. MaxFailures
    BY EmptyBeginning, BoundsAssumption DEF NoCounts, Counts
  <1>4. Fits(stack, lookahead, parsed, heap)
    BY <1>1, <1>2, FS_EmptySet DEF Init, Fits, Apart, Inside
  <1>5. Whole(stack, lookahead, parsed, heap) /\ Phases
    BY <1>2 DEF Init, Whole, Phases, Top
  <1>6. Simple
    <2>1. << >> \in Seq([at : Nat, reported : BOOLEAN])
      OBVIOUS
    <2>0. recovering \in BOOLEAN /\ ended \in BOOLEAN
      BY DEF Init
    <2>2. /\ counts = NoCounts /\ result = 0
          /\ status = "none" /\ input = << >> /\ errors = << >> /\ failures = 0
      BY DEF Init
    <2>3. result \in 0 .. 2
      BY <2>2
    <2>4. status \in Statuses
      BY <2>2 DEF Statuses
    <2>5. /\ counts \in Counts /\ failures \in 0 .. MaxFailures /\ input \in Beginnings
          /\ errors \in Seq([at : Nat, reported : BOOLEAN])
      BY <1>3, <2>1, <2>2
    <2> QED BY <2>0, <2>3, <2>4, <2>5 DEF Simple
  <1> QED BY <1>4, <1>5, <1>6 DEF IInv

\* ... and each step keeps it.
LEMMA StepKeeps ==
  ASSUME IInv, [Next]_vars
  PROVE  IInv'
  <1>1. CASE Next
    BY <1>1, CallsKeep, ReadsKeep, ReduceKeeps, ShiftKeeps, DetectKeeps, DiscardKeeps,
       ReturnsKeep DEF Next, Step
  <1>2. CASE UNCHANGED vars
    BY <1>2 DEF vars, IInv, Fits, Whole, Phases, Simple, Top
  <1> QED BY <1>1, <1>2

\* So it always holds.
LEMMA Invariant ==
  Spec => []IInv
  <1>1. Init => IInv
    BY InitIInv
  <1>2. IInv /\ [Next]_vars => IInv'
    BY StepKeeps
  <1> QED BY <1>1, <1>2, PTL DEF Spec

\* What is allocated has one owner at each moment: no two values share what
\* they own, nothing that a value owns is freed, and nothing is lost but what
\* YYNOMEM leaves.  (%destructor, parser_statement_list_append,
\* parser_attach_statements, yyerrlab1 and yyreturnlab.)
THEOREM EverythingOwnedOnce ==
  Spec => []Ownership
  <1>1. IInv => Ownership
    BY OwnershipFromIInv
  <1> QED BY <1>1, Invariant, PTL

-----------------------------------------------------------------------------
(* The shape of the stack. *)

NameAt(s, i) == IF i = 0 THEN "bottom" ELSE s[i].name

\* What a symbol may stand on.
Ground(name) ==
  CASE name \in {"type", "if", "while", "print", "declaration", "assignment",
                 "printing", "statement", "error"} -> StatementStart
    [] name = "id" -> StatementStart \cup {"type", "print"} \cup OperandStart
    [] name = "=" -> {"id"}
    [] name = "LPAREN" -> {"if", "while"} \cup OperandStart
    [] name \in {"RPAREN", "op"} -> {"expression"}
    [] name \in {"lit", "not", "expression"} -> OperandStart
    [] name \in {"LBRACE", "block"} -> StatementStart \cup {"RPAREN", "else"}
    [] name = "RBRACE" -> {"contents", "error"}
    [] name = "SEMICOLON" -> {"declaration", "assignment", "printing", "error"}
    [] name = "else" -> {"block"}
    [] name = "contents" -> {"LBRACE"}
    [] name = "list" -> {"bottom", "LBRACE"}
    [] name = "program" -> {"bottom"}
    [] OTHER -> {}

\* What a symbol on top of the first k of stack s has further below.
HeadAt(s, k, name) ==
  /\ name = "RPAREN" => k >= 2 /\ s[k - 1].name = "LPAREN"
  /\ name \in {"LBRACE", "block"} /\ NameAt(s, k) = "RPAREN" =>
       k >= 4 /\ s[k - 3].name \in {"if", "while"}
  /\ name = "else" => k >= 5 /\ s[k - 1].name = "RPAREN" /\ s[k - 4].name = "if"
  /\ name = "RBRACE" /\ NameAt(s, k) = "error" => k >= 2 /\ s[k - 1].name = "LBRACE"

Braces(s, i) == Cardinality({j \in 1 .. i : s[j].name = "LBRACE"})

\* Every symbol stands where it may, and a block is opened no deeper on the
\* stack than the blocks around it account for.
Shape(s) ==
  \A i \in DOMAIN s :
    /\ NameAt(s, i - 1) \in Ground(s[i].name)
    /\ HeadAt(s, i - 1, s[i].name)
    /\ s[i].name = "LBRACE" => i <= 8 * Braces(s, i)

\* The open braces up to a place are a number ...
LEMMA BracesType ==
  ASSUME NEW s, NEW i \in Nat
  PROVE  /\ IsFiniteSet({j \in 1 .. i : s[j].name = "LBRACE"}) /\ Braces(s, i) \in Nat
  <1>1. IsFiniteSet(1 .. i)
    BY FS_Interval
  <1>2. IsFiniteSet({j \in 1 .. i : s[j].name = "LBRACE"})
    BY <1>1, FS_Subset
  <1> QED BY <1>2, FS_CardinalityType DEF Braces

\* Another brace counts, and what is above does not take any away.
LEMMA BracesNext ==
  ASSUME NEW s, NEW i \in Nat
  PROVE  /\ s[i + 1].name = "LBRACE" => Braces(s, i + 1) = Braces(s, i) + 1
         /\ s[i + 1].name # "LBRACE" => Braces(s, i + 1) = Braces(s, i)
  <1> DEFINE B(k) == {j \in 1 .. k : s[j].name = "LBRACE"}
  <1>1. IsFiniteSet(B(i)) /\ i + 1 \notin B(i)
    <2>1. IsFiniteSet(B(i))
      BY BracesType
    <2>2. i + 1 \notin 1 .. i
      OBVIOUS
    <2> QED BY <2>1, <2>2
  <1>2. 1 .. i + 1 = (1 .. i) \cup {i + 1}
    OBVIOUS
  <1>3. s[i + 1].name = "LBRACE" => B(i + 1) = B(i) \cup {i + 1}
    BY <1>2
  <1>4. s[i + 1].name # "LBRACE" => B(i + 1) = B(i)
    BY <1>2
  <1>5. Cardinality(B(i) \cup {i + 1}) = Cardinality(B(i)) + 1
    <2> HIDE DEF B
    <2> QED BY <1>1, FS_AddElement
  <1> QED BY <1>3, <1>4, <1>5 DEF Braces

\* ... that does not go down further up ...
LEMMA BracesBelow ==
  ASSUME NEW s, NEW i \in Nat, NEW k \in Nat, i <= k
  PROVE  Braces(s, i) <= Braces(s, k)
  <1> DEFINE B(n) == {j \in 1 .. n : s[j].name = "LBRACE"}
  <1>1. IsFiniteSet(B(k))
    BY BracesType
  <1>2. B(i) \subseteq B(k)
    OBVIOUS
  <1> HIDE DEF B
  <1>3. Cardinality(B(i)) <= Cardinality(B(k))
    BY <1>1, <1>2, FS_Subset
  <1> QED BY <1>3 DEF Braces, B

\* ... and depends on nothing above the place.
LEMMA BracesSame ==
  ASSUME NEW s, NEW t, NEW i \in Nat, \A j \in 1 .. i : s[j] = t[j]
  PROVE  Braces(s, i) = Braces(t, i)
  <1>1. {j \in 1 .. i : s[j].name = "LBRACE"} = {j \in 1 .. i : t[j].name = "LBRACE"}
    OBVIOUS
  <1> QED BY <1>1 DEF Braces

\* Where a statement may begin the stack is no higher than its blocks.
LEMMA StartShallow ==
  ASSUME NEW S, NEW s \in Seq(S), Shape(s), NEW i \in 0 .. Len(s),
         NameAt(s, i) \in StatementStart
  PROVE  i <= 1 + 8 * Braces(s, i)
  <1>1. Len(s) \in Nat /\ DOMAIN s = 1 .. Len(s) /\ i \in Nat /\ Braces(s, i) \in Nat
    <2>1. i \in Nat /\ i <= Len(s) /\ Len(s) \in Nat /\ DOMAIN s = 1 .. Len(s)
      OBVIOUS
    <2>2. Braces(s, i) \in Nat
      BY <2>1, BracesType
    <2> QED BY <2>1, <2>2
  <1>2. CASE i = 0
    BY <1>1, <1>2
  <1>3. CASE i # 0 /\ s[i].name = "LBRACE"
    <2>1. i \in DOMAIN s
      BY <1>1, <1>3
    <2>2. i <= 8 * Braces(s, i)
      BY <1>3, <2>1 DEF Shape
    <2> QED BY <1>1, <2>2
  <1>4. CASE i # 0 /\ s[i].name = "list"
    <2>1. i \in DOMAIN s /\ i - 1 \in Nat
      BY <1>1, <1>4
    <2>2. NameAt(s, i - 1) \in {"bottom", "LBRACE"}
      BY <1>4, <2>1 DEF Shape, Ground
    <2>3. Braces(s, i) = Braces(s, i - 1)
      <3>1. i - 1 + 1 = i
        BY <1>1
      <3> QED BY <1>4, <2>1, <3>1, BracesNext
    <2>4. CASE i - 1 = 0
      BY <1>1, <2>4
    <2>5. CASE i - 1 # 0 /\ s[i - 1].name = "LBRACE"
      <3>1. i - 1 \in DOMAIN s
        BY <1>1, <2>1, <2>5
      <3>2. i - 1 <= 8 * Braces(s, i - 1)
        BY <2>5, <3>1 DEF Shape
      <3> QED BY <1>1, <2>3, <3>2
    <2>6. CASE i - 1 # 0 /\ s[i - 1].name = "bottom"
      <3>1. i - 1 \in DOMAIN s /\ s[i - 1].name = "bottom"
        BY <1>1, <2>1, <2>6
      <3> QED BY <3>1, <2>6 DEF Shape, Ground
    <2> QED BY <2>2, <2>4, <2>5, <2>6 DEF NameAt
  <1>5. CASE i # 0 /\ s[i].name = "bottom"
    <2>1. i \in DOMAIN s
      BY <1>1, <1>5
    <2> QED BY <1>5, <2>1 DEF Shape, Ground
  <1> QED BY <1>2, <1>3, <1>4, <1>5 DEF NameAt, StatementStart

\* The first k symbols stay and another one is put on them.
LEMMA PushShape ==
  ASSUME NEW S, NEW s \in Seq(S), Shape(s), NEW k \in 0 .. Len(s), NEW v, NEW t,
         t = Append(SubSeq(s, 1, k), v),
         NameAt(s, k) \in Ground(v.name), HeadAt(s, k, v.name),
         v.name = "LBRACE" => k <= 7 + 8 * Braces(s, k)
  PROVE  Shape(t)
  <1>1. /\ Len(s) \in Nat /\ k \in Nat /\ k <= Len(s) /\ DOMAIN s = 1 .. Len(s)
        /\ DOMAIN t = 1 .. k + 1 /\ t[k + 1] = v /\ \A i \in 1 .. k : t[i] = s[i]
    OBVIOUS
  <1>2. ASSUME NEW i \in 0 .. k PROVE NameAt(t, i) = NameAt(s, i)
    BY <1>1 DEF NameAt
  <1>3. ASSUME NEW i \in 0 .. k, NEW name, HeadAt(s, i, name) PROVE HeadAt(t, i, name)
    <2>1. NameAt(t, i) = NameAt(s, i)
      BY <1>2
    <2>2. i >= 2 => t[i - 1] = s[i - 1]
      BY <1>1
    <2>3. i >= 4 => t[i - 3] = s[i - 3]
      BY <1>1
    <2>4. i >= 5 => t[i - 4] = s[i - 4]
      BY <1>1
    <2>5. i >= 5 => i >= 2
      BY <1>1
    <2> QED BY <1>3, <2>1, <2>2, <2>3, <2>4, <2>5 DEF HeadAt
  <1>4. ASSUME NEW i \in 0 .. k PROVE Braces(t, i) = Braces(s, i)
    <2>1. i \in Nat /\ \A j \in 1 .. i : t[j] = s[j]
      BY <1>1
    <2> QED BY <2>1, BracesSame
  <1>5. ASSUME NEW i \in 1 .. k
        PROVE  /\ NameAt(t, i - 1) \in Ground(t[i].name)
               /\ HeadAt(t, i - 1, t[i].name)
               /\ t[i].name = "LBRACE" => i <= 8 * Braces(t, i)
    <2>1. i - 1 \in 0 .. k /\ i \in 0 .. k /\ i \in DOMAIN s /\ t[i] = s[i]
      BY <1>1
    <2>2. /\ NameAt(s, i - 1) \in Ground(s[i].name) /\ HeadAt(s, i - 1, s[i].name)
          /\ s[i].name = "LBRACE" => i <= 8 * Braces(s, i)
      BY <2>1 DEF Shape
    <2> QED BY <1>2, <1>3, <1>4, <2>1, <2>2
  <1>6. /\ NameAt(t, k) \in Ground(v.name) /\ HeadAt(t, k, v.name)
        /\ v.name = "LBRACE" => k + 1 <= 8 * Braces(t, k + 1)
    <2>1. k \in 0 .. k
      BY <1>1
    <2>2. v.name = "LBRACE" => Braces(t, k + 1) = Braces(s, k) + 1
      BY <1>1, <1>4, <2>1, BracesNext
    <2>3. Braces(s, k) \in Nat
      BY <1>1, BracesType
    <2>4. v.name = "LBRACE" => k + 1 <= 8 * Braces(t, k + 1)
      BY <1>1, <2>2, <2>3
    <2> QED BY <1>2, <1>3, <2>1, <2>4
  <1>7. \A i \in DOMAIN t : i \in 1 .. k \/ i = k + 1
    BY <1>1
  <1>8. ASSUME NEW i, i = k + 1
        PROVE  /\ NameAt(t, i - 1) \in Ground(t[i].name)
               /\ HeadAt(t, i - 1, t[i].name)
               /\ t[i].name = "LBRACE" => i <= 8 * Braces(t, i)
    <2>1. i - 1 = k /\ t[i] = v
      BY <1>1, <1>8
    <2> QED BY <1>6, <1>8, <2>1
  <1> QED BY <1>5, <1>7, <1>8 DEF Shape

\* A block has a right-hand side.
LEMMA BlockLength ==
  ASSUME NEW r \in Rules, r.lhs = "block"
  PROVE  Len(r.rhs) # 0
  <1>1. CASE r \in BlockRules
    BY <1>1 DEF BlockRules, Rule
  <1> QED BY <1>1, StatementForms, ExpressionForms DEF Rules

\* What a reduction leaves stands where it may.
LEMMA RuleGround ==
  ASSUME NEW r \in Rules
  PROVE  /\ r.below \subseteq Ground(r.lhs)
         /\ r.lhs = "block" => 1 \in DOMAIN r.rhs /\ r.rhs[1] = "LBRACE"
         /\ r.lhs \notin {"LBRACE", "RPAREN", "else", "RBRACE"}
  <1>1. CASE r \in StatementRules
    BY <1>1, StatementForms DEF Ground
  <1>2. CASE r \in ExpressionRules
    BY <1>2, ExpressionForms DEF Ground
  <1>3. CASE r \in BlockRules
    <2>1. r.lhs = "block" => 1 \in DOMAIN r.rhs /\ r.rhs[1] = "LBRACE"
      BY <1>3 DEF BlockRules, Rule
    <2>2. r.lhs \in {"block", "contents", "list", "program"}
      BY <1>3, BlockForms
    <2>3. r.below \subseteq Ground(r.lhs)
      BY <1>3, <2>2, BlockForms DEF Ground
    <2> QED BY <2>1, <2>2, <2>3
  <1> QED BY <1>1, <1>2, <1>3 DEF Rules

\* The stack is emptied, or a symbol of that name is put on the first k of it.
Put(k, name) == \E v : v.name = name /\ stack' = Append(SubSeq(stack, 1, k), v)

\* A program is handed out as its symbol is put there.
HandsOut(name) == name = "program" => parsed' # {}

\* A reduction empties the stack, when it gives up, or replaces the right side of a
\* rule by its left.
LEMMA ReducePuts ==
  ASSUME IInv, Reduce
  PROVE  \/ stack' = << >>
         \/ \E r \in Rules : /\ Applies(r) /\ Put(Len(stack) - Len(r.rhs), r.lhs)
                             /\ HandsOut(r.lhs)
  <1> SUFFICES ASSUME stack' # << >>
               PROVE  \E r \in Rules : /\ Applies(r) /\ Put(Len(stack) - Len(r.rhs), r.lhs)
                                       /\ HandsOut(r.lhs)
    OBVIOUS
  <1>0. ASSUME NEW r \in Rules, r.action # "attach" PROVE HandsOut(r.lhs)
    BY <1>0, RuleForms DEF HandsOut
  <1>1. ASSUME NEW r \in Rules, NEW freed PROVE ~NoMemory(r, freed)
    BY DEF NoMemory, Exhaust, Cleanup
  <1>2. ASSUME NEW r \in Rules, NEW v, v.name = r.lhs, Replace(r, v)
        PROVE  Put(Len(stack) - Len(r.rhs), r.lhs)
    BY <1>2 DEF Replace, Without, Put
  <1>3. ASSUME NEW r \in Rules, ReducePass(r)
        PROVE  Applies(r) /\ Put(Len(stack) - Len(r.rhs), r.lhs) /\ HandsOut(r.lhs)
    <2>1. \E own, items : Replace(r, [name |-> r.lhs, own |-> own, items |-> items])
      BY <1>3 DEF ReducePass
    <2>2. Put(Len(stack) - Len(r.rhs), r.lhs)
      BY <1>2, <2>1
    <2> QED BY <1>0, <1>3, <2>2 DEF ReducePass, Reduces
  <1>4. ASSUME NEW r \in Rules,
               \/ ReduceRecovered(r) \/ ReduceNode(r) \/ ReduceEmptyBlock(r) \/ ReduceNewList(r)
        PROVE  Applies(r) /\ Put(Len(stack) - Len(r.rhs), r.lhs) /\ HandsOut(r.lhs)
    <2>1. Applies(r)
      BY <1>4 DEF ReduceRecovered, ReduceNode, ReduceEmptyBlock, ReduceNewList, Reduces
    <2>2. \E own : Replace(r, Symbol(r.lhs, own))
      BY <1>1, <1>4 DEF ReduceRecovered, ReduceNode, ReduceEmptyBlock, ReduceNewList
    <2>3. \A own : Symbol(r.lhs, own).name = r.lhs
      BY DEF Symbol
    <2>4. r.action # "attach"
      BY <1>4 DEF ReduceRecovered, ReduceNode, ReduceEmptyBlock, ReduceNewList
    <2> QED BY <1>0, <1>2, <2>1, <2>2, <2>3, <2>4
  <1>5. ASSUME NEW r \in Rules, ReduceFirstItem(r) \/ ReduceNextItem(r)
        PROVE  Applies(r) /\ Put(Len(stack) - Len(r.rhs), r.lhs) /\ HandsOut(r.lhs)
    <2>1. Applies(r) /\ r.lhs = "list"
      BY <1>5, RuleForms DEF ReduceFirstItem, ReduceNextItem, Reduces
    <2>2. PICK l, x : l.name = "list" /\ Replace(r, Appended(l, x))
      <3>1. CASE ReduceFirstItem(r)
        <4>1. List({Fresh}, << >>).name = "list"
          BY DEF List
        <4> QED BY <1>1, <3>1, <4>1 DEF ReduceFirstItem
      <3>2. CASE ReduceNextItem(r)
        <4>1. Last(Without(1)).name = "list"
          BY <2>1, <3>2, RuleForms, TakenTwo DEF ReduceNextItem
        <4> QED BY <1>1, <3>2, <4>1 DEF ReduceNextItem
      <3> QED BY <1>5, <3>1, <3>2
    <2>3. Appended(l, x).name = "list"
      BY <2>2 DEF Appended, List
    <2>4. HandsOut(r.lhs)
      BY <2>1 DEF HandsOut
    <2> QED BY <1>2, <2>1, <2>2, <2>3, <2>4
  <1>6. ASSUME NEW r \in Rules, ReduceAttach(r)
        PROVE  Applies(r) /\ Put(Len(stack) - Len(r.rhs), r.lhs) /\ HandsOut(r.lhs)
    <2>1. Applies(r)
      BY <1>6 DEF ReduceAttach, Reduces
    <2>2. \E own : stack' = Append(Without(Len(r.rhs)), Symbol(r.lhs, own))
      BY <1>1, <1>6 DEF ReduceAttach
    <2>3. \A own : Symbol(r.lhs, own).name = r.lhs
      BY DEF Symbol
    <2>4. r.lhs = "program" => \E x : parsed' = x \cup {Fresh}
      BY <1>1, <1>6 DEF ReduceAttach
    <2>5. HandsOut(r.lhs)
      BY <2>4 DEF HandsOut
    <2> QED BY <2>1, <2>2, <2>3, <2>5 DEF Without, Put
  <1> QED BY <1>3, <1>4, <1>5, <1>6 DEF Reduce

\* So a reduction keeps the shape of the stack.
LEMMA ReduceKeepsShape ==
  ASSUME IInv, Shape(stack), Reduce
  PROVE  Shape(stack')
  <1>1. CASE stack' = << >>
    BY <1>1 DEF Shape
  <1>2. ASSUME NEW r \in Rules, Applies(r), Put(Len(stack) - Len(r.rhs), r.lhs)
        PROVE  Shape(stack')
    <2> DEFINE k == Len(stack) - Len(r.rhs)
    <2>1. PICK v : v.name = r.lhs /\ stack' = Append(SubSeq(stack, 1, k), v)
      BY <1>2 DEF Put
    <2>2. /\ Len(r.rhs) \in 0 .. Len(stack) /\ stack \in Seq(Values) /\ Len(stack) \in Nat
          /\ \A i \in DOMAIN r.rhs : stack[k + i].name = r.rhs[i]
      BY <1>2, RuleForms, Given DEF Applies, Ends
    <2>3. k \in 0 .. Len(stack) /\ k + 1 - 1 = k
      BY <2>2
    <2>4. NameAt(stack, k) \in Ground(r.lhs)
      <3>1. NameAt(stack, k) = Below(Len(r.rhs))
        BY <2>2 DEF NameAt, Below
      <3>2. Below(Len(r.rhs)) \in r.below
        BY <1>2 DEF Applies
      <3> QED BY <3>1, <3>2, RuleGround
    <2>5. HeadAt(stack, k, r.lhs)
      <3>1. CASE r.lhs = "block"
        <4>1. stack[k + 1].name = "LBRACE"
          BY <2>2, <3>1, RuleGround
        <4>2. k + 1 \in DOMAIN stack
          <5>1. k + 1 <= Len(stack)
            BY <2>2, <3>1, BlockLength
          <5>2. DOMAIN stack = 1 .. Len(stack) /\ Len(stack) \in Nat
            BY Given
          <5>3. k \in Nat
            BY <2>3, <5>2
          <5> HIDE DEF k
          <5> QED BY <5>1, <5>2, <5>3
        <4>3. HeadAt(stack, k, "LBRACE")
          <5> HIDE DEF k
          <5> QED BY <2>3, <4>1, <4>2 DEF Shape
        <4> QED BY <3>1, <4>3 DEF HeadAt
      <3>2. CASE r.lhs # "block"
        BY <3>2, RuleGround DEF HeadAt
      <3> QED BY <3>1, <3>2
    <2>6. r.lhs # "LBRACE"
      BY RuleGround
    <2> HIDE DEF k
    <2> QED BY <2>1, <2>2, <2>3, <2>4, <2>5, <2>6, PushShape
  <1> QED BY <1>1, <1>2, ReducePuts

-----------------------------------------------------------------------------
(* What is on top when nothing can be reduced. *)

\* The stack ends with a right side when its names are there, one by one ...
LEMMA EndsAt ==
  ASSUME NEW rhs, NEW n \in Nat, Len(rhs) = n, DOMAIN rhs = 1 .. n, n <= Len(stack),
         \A i \in 1 .. n : stack[Len(stack) - n + i].name = rhs[i]
  PROVE  Ends(rhs)
  BY DEF Ends

\* ... for a right side of one symbol, ...
LEMMA EndsOne ==
  ASSUME IInv, NEW a, NEW m, m = Len(stack), m >= 1, stack[m].name = a
  PROVE  Ends(<<a>>)
  <1>1. m \in Nat
    BY Given
  <1>2. \A i \in 1 .. 1 : stack[m - 1 + i].name = <<a>>[i]
    BY <1>1
  <1>3. Len(<<a>>) = 1 /\ DOMAIN <<a>> = 1 .. 1 /\ 1 \in Nat
    OBVIOUS
  <1> QED BY <1>2, <1>3, EndsAt

\* ... of two, ...
LEMMA EndsTwo ==
  ASSUME IInv, NEW a, NEW b, NEW m, m = Len(stack), m >= 2,
         stack[m - 1].name = a, stack[m].name = b
  PROVE  Ends(<<a, b>>)
  <1>1. m \in Nat /\ m - 2 + 1 = m - 1 /\ m - 2 + 2 = m
    BY Given
  <1>2. \A i \in 1 .. 2 : stack[m - 2 + i].name = <<a, b>>[i]
    <2>1. \A i \in 1 .. 2 : i = 1 \/ i = 2
      OBVIOUS
    <2> QED BY <1>1, <2>1
  <1>3. Len(<<a, b>>) = 2 /\ DOMAIN <<a, b>> = 1 .. 2 /\ 2 \in Nat
    OBVIOUS
  <1> QED BY <1>2, <1>3, EndsAt

\* ... of three, ...
LEMMA EndsThree ==
  ASSUME IInv, NEW a, NEW b, NEW c, NEW m, m = Len(stack), m >= 3,
         stack[m - 2].name = a, stack[m - 1].name = b, stack[m].name = c
  PROVE  Ends(<<a, b, c>>)
  <1>1. m \in Nat /\ m - 3 + 1 = m - 2 /\ m - 3 + 2 = m - 1 /\ m - 3 + 3 = m
    BY Given
  <1>2. \A i \in 1 .. 3 : stack[m - 3 + i].name = <<a, b, c>>[i]
    <2>1. \A i \in 1 .. 3 : i = 1 \/ i = 2 \/ i = 3
      OBVIOUS
    <2> QED BY <1>1, <2>1
  <1>3. Len(<<a, b, c>>) = 3 /\ DOMAIN <<a, b, c>> = 1 .. 3 /\ 3 \in Nat
    OBVIOUS
  <1> QED BY <1>2, <1>3, EndsAt

\* ... of five ...
LEMMA EndsFive ==
  ASSUME IInv, NEW a, NEW b, NEW c, NEW d, NEW e, NEW m, m = Len(stack), m >= 5,
         stack[m - 4].name = a, stack[m - 3].name = b, stack[m - 2].name = c,
         stack[m - 1].name = d, stack[m].name = e
  PROVE  Ends(<<a, b, c, d, e>>)
  <1>1. /\ m \in Nat /\ m - 5 + 1 = m - 4 /\ m - 5 + 2 = m - 3 /\ m - 5 + 3 = m - 2
        /\ m - 5 + 4 = m - 1 /\ m - 5 + 5 = m
    BY Given
  <1>2. \A i \in 1 .. 5 : stack[m - 5 + i].name = <<a, b, c, d, e>>[i]
    <2> DEFINE rhs == <<a, b, c, d, e>>
    <2>1. rhs[1] = a /\ rhs[2] = b /\ rhs[3] = c /\ rhs[4] = d /\ rhs[5] = e
      OBVIOUS
    <2> HIDE DEF rhs
    <2>2. /\ stack[m - 5 + 1].name = rhs[1] /\ stack[m - 5 + 2].name = rhs[2]
          /\ stack[m - 5 + 3].name = rhs[3] /\ stack[m - 5 + 4].name = rhs[4]
          /\ stack[m - 5 + 5].name = rhs[5]
      BY <1>1, <2>1
    <2>3. ASSUME NEW i \in 1 .. 5 PROVE stack[m - 5 + i].name = rhs[i]
      <3>1. i = 1 \/ i = 2 \/ i = 3 \/ i = 4 \/ i = 5
        OBVIOUS
      <3> QED BY ONLY <2>2, <3>1, Zenon
    <2> QED BY <2>3 DEF rhs
  <1>3. Len(<<a, b, c, d, e>>) = 5 /\ DOMAIN <<a, b, c, d, e>> = 1 .. 5 /\ 5 \in Nat
    OBVIOUS
  <1> QED BY <1>2, <1>3, EndsAt

\* ... and of seven.
LEMMA EndsSeven ==
  ASSUME IInv, NEW a, NEW b, NEW c, NEW d, NEW e, NEW f, NEW g, NEW m,
         m = Len(stack), m >= 7,
         stack[m - 6].name = a, stack[m - 5].name = b, stack[m - 4].name = c,
         stack[m - 3].name = d, stack[m - 2].name = e, stack[m - 1].name = f,
         stack[m].name = g
  PROVE  Ends(<<a, b, c, d, e, f, g>>)
  <1>1. /\ m \in Nat /\ m - 7 + 1 = m - 6 /\ m - 7 + 2 = m - 5 /\ m - 7 + 3 = m - 4
        /\ m - 7 + 4 = m - 3 /\ m - 7 + 5 = m - 2 /\ m - 7 + 6 = m - 1 /\ m - 7 + 7 = m
    BY Given
  <1>2. \A i \in 1 .. 7 : stack[m - 7 + i].name = <<a, b, c, d, e, f, g>>[i]
    <2> DEFINE rhs == <<a, b, c, d, e, f, g>>
    <2>1. /\ rhs[1] = a /\ rhs[2] = b /\ rhs[3] = c /\ rhs[4] = d /\ rhs[5] = e
          /\ rhs[6] = f /\ rhs[7] = g
      OBVIOUS
    <2> HIDE DEF rhs
    <2>2. /\ stack[m - 7 + 1].name = rhs[1] /\ stack[m - 7 + 2].name = rhs[2]
          /\ stack[m - 7 + 3].name = rhs[3] /\ stack[m - 7 + 4].name = rhs[4]
          /\ stack[m - 7 + 5].name = rhs[5] /\ stack[m - 7 + 6].name = rhs[6]
          /\ stack[m - 7 + 7].name = rhs[7]
      BY <1>1, <2>1
    <2>3. ASSUME NEW i \in 1 .. 7 PROVE stack[m - 7 + i].name = rhs[i]
      <3>1. i = 1 \/ i = 2 \/ i = 3 \/ i = 4 \/ i = 5 \/ i = 6 \/ i = 7
        OBVIOUS
      <3> QED BY ONLY <2>2, <3>1, Zenon
    <2> QED BY <2>3 DEF rhs
  <1>3. /\ Len(<<a, b, c, d, e, f, g>>) = 7 /\ 7 \in Nat
        /\ DOMAIN <<a, b, c, d, e, f, g>> = 1 .. 7
    OBVIOUS
  <1> QED BY <1>2, <1>3, EndsAt

\* What is below the operands is a name of the stack.
LEMMA BelowAt ==
  ASSUME IInv, NEW n \in 0 .. Len(stack)
  PROVE  Below(n) = NameAt(stack, Len(stack) - n)
  BY Given DEF Below, NameAt

\* A token that was read is one of those a rule may want to see.
LEMMA TokenAlways ==
  ASSUME IInv
  PROVE  lookahead.name \in Always
  BY Given DEF TokenValues, Always, All

\* What the shape says of the symbol at place i.
LEMMA ShapeAt ==
  ASSUME IInv, Shape(stack), NEW i \in 1 .. Len(stack)
  PROVE  /\ NameAt(stack, i) = stack[i].name
         /\ NameAt(stack, i - 1) \in Ground(stack[i].name)
         /\ HeadAt(stack, i - 1, stack[i].name)
         /\ stack[i].name \in Symbols /\ stack[i].name # "bottom"
  <1>1. i \in DOMAIN stack
    BY Given
  <1>2. stack[i].name \in Symbols /\ stack[i].name # "bottom"
    BY <1>1, Given, NoBottom
  <1> QED BY <1>1, <1>2 DEF Shape, NameAt

\* The top of the stack.
LEMMA TopAt ==
  ASSUME IInv
  PROVE  /\ Top = NameAt(stack, Len(stack))
         /\ Top # "bottom" => Len(stack) \in 1 .. Len(stack) /\ stack[Len(stack)].name = Top
  <1>1. stack = << >> <=> Len(stack) = 0
    BY Given
  <1> QED BY <1>1, Given DEF Top, Last, NameAt

\* A literal is an expression.
LEMMA LiteralReduced ==
  ASSUME IInv, Shape(stack), Top = "lit"
  PROVE  CanReduce
  <1> DEFINE r == Rule("expression", <<"lit">>, OperandStart, Always, "node")
             m == Len(stack)
  <1>1. m \in 1 .. m /\ stack[m].name = "lit" /\ m \in Nat
    BY TopAt, Given
  <1>2. NameAt(stack, m - 1) \in OperandStart
    <2>1. NameAt(stack, m - 1) \in Ground("lit")
      BY <1>1, ShapeAt
    <2> QED BY <2>1 DEF Ground
  <1>3. r \in Rules /\ r.rhs = <<"lit">> /\ r.below = OperandStart /\ r.on = Always
    <2>1. r \in ExpressionRules
      BY DEF ExpressionRules
    <2> QED BY <2>1 DEF Rules, Rule
  <1>4. Ends(<<"lit">>)
    BY <1>1, EndsOne
  <1>5. Below(1) \in OperandStart
    BY <1>1, <1>2, BelowAt
  <1> HIDE DEF r
  <1> QED BY <1>3, <1>4, <1>5, TokenAlways DEF CanReduce, Applies

\* A statement is the first of a list, or another one.
LEMMA StatementReduced ==
  ASSUME IInv, Shape(stack), Top = "statement"
  PROVE  CanReduce
  <1> DEFINE first == Rule("list", <<"statement">>, {"bottom", "LBRACE"}, Always, "firstItem")
             next == Rule("list", <<"list", "statement">>, {"bottom", "LBRACE"}, Always,
                          "nextItem")
             m == Len(stack)
  <1>1. m \in 1 .. m /\ stack[m].name = "statement" /\ m \in Nat
    BY TopAt, Given
  <1>2. NameAt(stack, m - 1) \in StatementStart
    <2>1. NameAt(stack, m - 1) \in Ground("statement")
      BY <1>1, ShapeAt
    <2> QED BY <2>1 DEF Ground
  <1>3. CASE NameAt(stack, m - 1) \in {"bottom", "LBRACE"}
    <2>1. /\ first \in Rules /\ first.rhs = <<"statement">>
          /\ first.below = {"bottom", "LBRACE"} /\ first.on = Always
      <3>1. first \in BlockRules
        BY DEF BlockRules
      <3> QED BY <3>1 DEF Rules, Rule
    <2>2. Ends(<<"statement">>)
      BY <1>1, EndsOne
    <2>3. Below(1) \in {"bottom", "LBRACE"}
      BY <1>1, <1>3, BelowAt
    <2> HIDE DEF first
    <2> QED BY <2>1, <2>2, <2>3, TokenAlways DEF CanReduce, Applies
  <1>4. CASE NameAt(stack, m - 1) = "list"
    <2>1. m - 1 \in 1 .. m /\ stack[m - 1].name = "list"
      <3>1. m - 1 # 0
        BY <1>4 DEF NameAt
      <3> HIDE DEF m
      <3> QED BY <1>1, <1>4, <3>1 DEF NameAt
    <2>2. NameAt(stack, m - 1 - 1) \in {"bottom", "LBRACE"}
      <3>1. NameAt(stack, m - 1 - 1) \in Ground("list")
        BY <2>1, ShapeAt
      <3> QED BY <3>1 DEF Ground
    <2>3. /\ next \in Rules /\ next.rhs = <<"list", "statement">>
          /\ next.below = {"bottom", "LBRACE"} /\ next.on = Always
      <3>1. next \in BlockRules
        BY DEF BlockRules
      <3> QED BY <3>1 DEF Rules, Rule
    <2>4. Ends(<<"list", "statement">>)
      <3>1. m >= 2
        BY <1>1, <2>1
      <3> QED BY <1>1, <2>1, <3>1, EndsTwo
    <2>5. Below(2) \in {"bottom", "LBRACE"}
      <3>1. m - 1 - 1 = m - 2 /\ 2 \in 0 .. m
        BY <1>1, <2>1
      <3> QED BY <2>2, <3>1, BelowAt
    <2> HIDE DEF next
    <2> QED BY <2>3, <2>4, <2>5, TokenAlways DEF CanReduce, Applies
  <1> QED BY <1>2, <1>3, <1>4 DEF StatementStart

\* A semicolon ends a statement, or an error.
LEMMA SemicolonReduced ==
  ASSUME IInv, Shape(stack), Top = "SEMICOLON"
  PROVE  CanReduce
  <1> DEFINE m == Len(stack)
             a == stack[m - 1].name
             r == Rule("statement", <<a, "SEMICOLON">>, StatementStart, Always,
                       IF a = "error" THEN "recovered" ELSE "pass")
  <1>1. m \in 1 .. m /\ stack[m].name = "SEMICOLON" /\ m \in Nat
    BY TopAt, Given
  <1>2. NameAt(stack, m - 1) \in {"declaration", "assignment", "printing", "error"}
    <2>1. NameAt(stack, m - 1) \in Ground("SEMICOLON")
      BY <1>1, ShapeAt
    <2> QED BY <2>1 DEF Ground
  <1>3. m - 1 # 0
    BY <1>2 DEF NameAt
  <1>4. m - 1 \in 1 .. m /\ m >= 2 /\ m - 1 - 1 = m - 2 /\ 2 \in 0 .. m
    <2> HIDE DEF m
    <2> QED BY <1>1, <1>3
  <1>5. a \in {"declaration", "assignment", "printing", "error"}
    BY <1>2, <1>3 DEF NameAt
  <1>6. NameAt(stack, m - 2) \in StatementStart
    <2>1. NameAt(stack, m - 1 - 1) \in Ground(a)
      BY <1>4, ShapeAt
    <2> HIDE DEF a, m
    <2> QED BY <1>4, <1>5, <2>1 DEF Ground
  <1>7. Ends(<<a, "SEMICOLON">>)
    BY <1>1, <1>4, EndsTwo
  <1>8. Below(2) \in StatementStart
    BY <1>4, <1>6, BelowAt
  <1> HIDE DEF a, m
  <1>9. r \in Rules /\ r.rhs = <<a, "SEMICOLON">> /\ r.below = StatementStart /\ r.on = Always
    <2>1. r \in StatementRules
      BY <1>5 DEF StatementRules
    <2> QED BY <2>1 DEF Rules, Rule
  <1> HIDE DEF r
  <1>10. Len(r.rhs) = 2
    BY <1>9
  <1> QED BY <1>7, <1>8, <1>9, <1>10, TokenAlways DEF CanReduce, Applies

\* A closing brace ends a block, whatever is in it.
LEMMA BraceReduced ==
  ASSUME IInv, Shape(stack), Top = "RBRACE"
  PROVE  CanReduce
  <1> DEFINE m == Len(stack)
             a == stack[m - 1].name
             places == StatementStart \cup {"RPAREN", "else"}
             r == Rule("block", <<"LBRACE", a, "RBRACE">>, places, Always,
                       IF a = "error" THEN "emptyBlock" ELSE "attach")
  <1>1. m \in 1 .. m /\ stack[m].name = "RBRACE" /\ m \in Nat
    BY TopAt, Given
  <1>2. NameAt(stack, m - 1) \in {"contents", "error"} /\ HeadAt(stack, m - 1, "RBRACE")
    <2>1. NameAt(stack, m - 1) \in Ground("RBRACE") /\ HeadAt(stack, m - 1, "RBRACE")
      BY <1>1, ShapeAt
    <2> QED BY <2>1 DEF Ground
  <1>3. m - 1 # 0
    BY <1>2 DEF NameAt
  <1>4. m - 1 \in 1 .. m /\ m - 1 - 1 = m - 2
    <2> HIDE DEF m
    <2> QED BY <1>1, <1>3
  <1>5. a \in {"contents", "error"} /\ NameAt(stack, m - 1) = a
    BY <1>2, <1>3 DEF NameAt
  <1>6. m >= 3 /\ stack[m - 2].name = "LBRACE"
    <2>1. CASE a = "error"
      <3>1. m - 1 >= 2 /\ stack[m - 1 - 1].name = "LBRACE"
        BY <1>2, <1>5, <2>1 DEF HeadAt
      <3> QED BY <1>1, <1>4, <3>1
    <2>2. CASE a = "contents"
      <3>1. NameAt(stack, m - 2) \in Ground("contents")
        BY <1>4, <2>2, ShapeAt
      <3>2. NameAt(stack, m - 2) = "LBRACE"
        BY <3>1 DEF Ground
      <3>3. m - 2 # 0 /\ stack[m - 2].name = "LBRACE"
        BY <3>2 DEF NameAt
      <3> QED BY <1>1, <1>4, <3>3
    <2> QED BY <1>5, <2>1, <2>2
  <1>7. m - 2 \in 1 .. m /\ m - 2 - 1 = m - 3 /\ 3 \in 0 .. m
    <2> HIDE DEF m
    <2> QED BY <1>1, <1>6
  <1>8. NameAt(stack, m - 3) \in places
    <2>1. NameAt(stack, m - 2 - 1) \in Ground("LBRACE")
      BY <1>6, <1>7, ShapeAt
    <2> QED BY <1>7, <2>1 DEF Ground
  <1>9. Ends(<<"LBRACE", a, "RBRACE">>)
    BY <1>1, <1>6, EndsThree
  <1>10. Below(3) \in places
    BY <1>7, <1>8, BelowAt
  <1> HIDE DEF a, m
  <1>11. r \in Rules /\ r.rhs = <<"LBRACE", a, "RBRACE">> /\ r.below = places /\ r.on = Always
    <2>1. r \in BlockRules
      BY <1>5 DEF BlockRules
    <2> QED BY <2>1 DEF Rules, Rule
  <1> HIDE DEF r, places
  <1>12. Len(r.rhs) = 3
    BY <1>11
  <1> QED BY <1>9, <1>10, <1>11, <1>12, TokenAlways DEF CanReduce, Applies

\* What is between parentheses, at place m of the stack.
LEMMA InParentheses ==
  ASSUME IInv, Shape(stack), NEW m \in 1 .. Len(stack), stack[m].name = "RPAREN"
  PROVE  /\ m \in Nat /\ m >= 3
         /\ stack[m - 2].name = "LPAREN" /\ stack[m - 1].name = "expression"
         /\ NameAt(stack, m - 3) \in {"if", "while"} \cup OperandStart
  <1>1. m \in Nat /\ m >= 1 /\ m <= Len(stack) /\ Len(stack) \in Nat
    BY Given
  <1>2. NameAt(stack, m - 1) = "expression" /\ m - 1 >= 2 /\ stack[m - 1 - 1].name = "LPAREN"
    <2>1. NameAt(stack, m - 1) \in Ground("RPAREN") /\ HeadAt(stack, m - 1, "RPAREN")
      BY ShapeAt
    <2> QED BY <2>1 DEF Ground, HeadAt
  <1>3. m >= 3 /\ m - 1 - 1 = m - 2 /\ m - 2 \in 1 .. Len(stack) /\ m - 2 - 1 = m - 3 /\ m - 1 # 0
    BY <1>1, <1>2
  <1>4. NameAt(stack, m - 3) \in {"if", "while"} \cup OperandStart
    <2>1. NameAt(stack, m - 2 - 1) \in Ground("LPAREN")
      BY <1>2, <1>3, ShapeAt
    <2> QED BY <1>3, <2>1 DEF Ground
  <1> QED BY <1>1, <1>2, <1>3, <1>4 DEF NameAt

\* A parenthesis that ends no operand is that of a condition.
LEMMA ConditionEnds ==
  ASSUME IInv, Shape(stack), Top = "RPAREN", ~CanReduce, NEW m, m = Len(stack)
  PROVE  m \in Nat /\ m >= 4 /\ stack[m - 3].name \in {"if", "while"}
  <1> DEFINE rhs == <<"LPAREN", "expression", "RPAREN">>
             r == Rule("expression", rhs, OperandStart, Always, "pass")
  <1>1. /\ m \in 1 .. Len(stack) /\ stack[m].name = "RPAREN" /\ m \in Nat /\ m >= 3
        /\ stack[m - 2].name = "LPAREN" /\ stack[m - 1].name = "expression"
        /\ NameAt(stack, m - 3) \in {"if", "while"} \cup OperandStart
    <2>1. m \in 1 .. Len(stack) /\ stack[m].name = "RPAREN"
      BY TopAt
    <2> QED BY <2>1, InParentheses
  <1>2. NameAt(stack, m - 3) \notin OperandStart
    <2> SUFFICES ASSUME NameAt(stack, m - 3) \in OperandStart PROVE FALSE
      OBVIOUS
    <2>1. Ends(rhs)
      BY <1>1, EndsThree
    <2>2. Below(3) \in OperandStart
      <3>1. 3 \in 0 .. m
        BY <1>1
      <3> QED BY <3>1, BelowAt
    <2>3. Len(rhs) = 3
      OBVIOUS
    <2> HIDE DEF rhs
    <2>4. r \in Rules /\ r.rhs = rhs /\ r.below = OperandStart /\ r.on = Always
      <3>1. r \in ExpressionRules
        BY DEF ExpressionRules, rhs
      <3> QED BY <3>1 DEF Rules, Rule
    <2> HIDE DEF r
    <2> QED BY <2>1, <2>2, <2>3, <2>4, TokenAlways DEF CanReduce, Applies
  <1>3. NameAt(stack, m - 3) \in {"if", "while"}
    BY <1>1, <1>2
  <1>4. m - 3 # 0
    BY <1>3 DEF NameAt
  <1> QED BY <1>1, <1>3, <1>4 DEF NameAt

\* What begins with "else" at place m has the other branch before it.
LEMMA ElseHead ==
  ASSUME IInv, Shape(stack), NEW m \in 1 .. Len(stack), stack[m].name = "else"
  PROVE  /\ m \in Nat /\ m >= 6 /\ stack[m - 5].name = "if" /\ stack[m - 4].name = "LPAREN"
         /\ stack[m - 3].name = "expression" /\ stack[m - 2].name = "RPAREN"
         /\ stack[m - 1].name = "block"
         /\ NameAt(stack, m - 6) \in StatementStart
  <1>1. m \in Nat /\ m >= 1 /\ m <= Len(stack) /\ Len(stack) \in Nat
    BY Given
  <1>2. /\ NameAt(stack, m - 1) = "block" /\ m - 1 >= 5
        /\ stack[m - 1 - 1].name = "RPAREN" /\ stack[m - 1 - 4].name = "if"
    <2>1. NameAt(stack, m - 1) \in Ground("else") /\ HeadAt(stack, m - 1, "else")
      BY ShapeAt
    <2> QED BY <2>1 DEF Ground, HeadAt
  <1>3. /\ m >= 6 /\ m - 1 - 1 = m - 2 /\ m - 1 - 4 = m - 5 /\ m - 1 # 0
        /\ m - 2 \in 1 .. Len(stack) /\ m - 2 - 2 = m - 4 /\ m - 2 - 1 = m - 3
        /\ m - 5 \in 1 .. Len(stack) /\ m - 5 - 1 = m - 6
    BY <1>1, <1>2
  <1>4. stack[m - 4].name = "LPAREN" /\ stack[m - 3].name = "expression"
    <2>1. stack[m - 2].name = "RPAREN"
      BY <1>2, <1>3
    <2>2. stack[m - 2 - 2].name = "LPAREN" /\ stack[m - 2 - 1].name = "expression"
      BY <1>3, <2>1, InParentheses
    <2> QED BY <1>3, <2>2
  <1>5. NameAt(stack, m - 6) \in StatementStart
    <2>1. NameAt(stack, m - 5 - 1) \in Ground("if")
      BY <1>2, <1>3, ShapeAt
    <2> QED BY <1>3, <2>1 DEF Ground
  <1> QED BY <1>1, <1>2, <1>3, <1>4, <1>5 DEF NameAt

\* A block on which nothing can be reduced is the first branch of an if.
LEMMA BlockHead ==
  ASSUME IInv, Shape(stack), Top = "block", ~CanReduce, NEW m, m = Len(stack)
  PROVE  m \in Nat /\ m >= 5 /\ stack[m - 1].name = "RPAREN" /\ stack[m - 4].name = "if"
  <1> DEFINE one == <<"block">>
             five == <<"while", "LPAREN", "expression", "RPAREN", "block">>
             seven == <<"if", "LPAREN", "expression", "RPAREN", "block", "else", "block">>
  <1>1. m \in 1 .. Len(stack) /\ stack[m].name = "block" /\ m \in Nat
    BY TopAt, Given
  <1>2. NameAt(stack, m - 1) \in Ground("block") /\ HeadAt(stack, m - 1, "block")
    BY <1>1, ShapeAt
  <1>3. NameAt(stack, m - 1) \in StatementStart \cup {"RPAREN", "else"}
    BY <1>2 DEF Ground
  <1>4. NameAt(stack, m - 1) \notin StatementStart
    <2> SUFFICES ASSUME NameAt(stack, m - 1) \in StatementStart PROVE FALSE
      OBVIOUS
    <2>1. Ends(one)
      BY <1>1, EndsOne
    <2>2. Below(1) \in StatementStart
      BY <1>1, BelowAt
    <2> DEFINE r == Rule("statement", one, StatementStart, Always, "pass")
    <2>3. r \in Rules /\ r.rhs = one /\ r.below = StatementStart /\ r.on = Always
      <3>1. r \in StatementRules
        BY DEF StatementRules
      <3> QED BY <3>1 DEF Rules, Rule
    <2>4. Len(one) = 1
      OBVIOUS
    <2> HIDE DEF r, one
    <2> QED BY <2>1, <2>2, <2>3, <2>4, TokenAlways DEF CanReduce, Applies
  <1>5. NameAt(stack, m - 1) # "else"
    <2> SUFFICES ASSUME NameAt(stack, m - 1) = "else" PROVE FALSE
      OBVIOUS
    <2>1. m - 1 # 0 /\ stack[m - 1].name = "else"
      BY DEF NameAt
    <2>2. m - 1 \in 1 .. Len(stack)
      BY <1>1, <2>1
    <2>3. /\ m - 1 >= 6 /\ stack[m - 1 - 5].name = "if" /\ stack[m - 1 - 4].name = "LPAREN"
          /\ stack[m - 1 - 3].name = "expression" /\ stack[m - 1 - 2].name = "RPAREN"
          /\ stack[m - 1 - 1].name = "block" /\ NameAt(stack, m - 1 - 6) \in StatementStart
      BY <2>1, <2>2, ElseHead
    <2>4. /\ m >= 7 /\ m - 1 - 5 = m - 6 /\ m - 1 - 4 = m - 5 /\ m - 1 - 3 = m - 4
          /\ m - 1 - 2 = m - 3 /\ m - 1 - 1 = m - 2 /\ m - 1 - 6 = m - 7
      BY <1>1, <2>3
    <2>5. Ends(seven)
      <3>1. /\ stack[m - 6].name = "if" /\ stack[m - 5].name = "LPAREN"
            /\ stack[m - 4].name = "expression" /\ stack[m - 3].name = "RPAREN"
            /\ stack[m - 2].name = "block"
        BY <2>3, <2>4
      <3> QED BY <1>1, <2>1, <2>4, <3>1, EndsSeven
    <2>6. Below(7) \in StatementStart
      <3>1. 7 \in 0 .. Len(stack)
        BY <1>1, <2>4
      <3> QED BY <2>3, <2>4, <3>1, BelowAt
    <2> DEFINE r == Rule("statement", seven, StatementStart, Always, "node")
    <2>7. r \in Rules /\ r.rhs = seven /\ r.below = StatementStart /\ r.on = Always
      <3>1. r \in StatementRules
        BY DEF StatementRules
      <3> QED BY <3>1 DEF Rules, Rule
    <2>8. Len(seven) = 7
      OBVIOUS
    <2> HIDE DEF r, seven
    <2> QED BY <2>5, <2>6, <2>7, <2>8, TokenAlways DEF CanReduce, Applies
  <1>6. /\ m - 1 # 0 /\ stack[m - 1].name = "RPAREN" /\ NameAt(stack, m - 1) = "RPAREN"
    BY <1>3, <1>4, <1>5 DEF NameAt
  <1>7. m - 1 >= 4 /\ stack[m - 1 - 3].name \in {"if", "while"}
    BY <1>2, <1>6 DEF HeadAt
  <1>8. /\ m >= 5 /\ m - 1 - 3 = m - 4 /\ m - 1 - 2 = m - 3 /\ m - 1 - 1 = m - 2
        /\ m - 1 \in 1 .. Len(stack) /\ m - 4 \in 1 .. Len(stack) /\ m - 4 - 1 = m - 5
    BY <1>1, <1>7
  <1>9. stack[m - 3].name = "LPAREN" /\ stack[m - 2].name = "expression"
    <2>1. stack[m - 1 - 2].name = "LPAREN" /\ stack[m - 1 - 1].name = "expression"
      BY <1>6, <1>8, InParentheses
    <2> QED BY <1>8, <2>1
  <1>10. stack[m - 4].name # "while"
    <2> SUFFICES ASSUME stack[m - 4].name = "while" PROVE FALSE
      OBVIOUS
    <2>1. Ends(five)
      BY <1>1, <1>6, <1>8, <1>9, EndsFive
    <2>2. Below(5) \in StatementStart
      <3>1. 5 \in 0 .. Len(stack)
        BY <1>1, <1>8
      <3>2. NameAt(stack, m - 4 - 1) \in Ground("while")
        BY <1>8, ShapeAt
      <3>3. NameAt(stack, m - 5) \in StatementStart
        BY <1>8, <3>2 DEF Ground
      <3> QED BY <3>1, <3>3, BelowAt
    <2> DEFINE r == Rule("statement", five, StatementStart, Always, "node")
    <2>3. r \in Rules /\ r.rhs = five /\ r.below = StatementStart /\ r.on = Always
      <3>1. r \in StatementRules
        BY DEF StatementRules
      <3> QED BY <3>1 DEF Rules, Rule
    <2>4. Len(five) = 5
      OBVIOUS
    <2> HIDE DEF r, five
    <2> QED BY <2>1, <2>2, <2>3, <2>4, TokenAlways DEF CanReduce, Applies
  <1> QED BY <1>1, <1>6, <1>7, <1>8, <1>10

\* A condition, and what comes after "else", is no deeper than seven symbols
\* above what the blocks around it account for.
LEMMA HeadShallow ==
  ASSUME IInv, Shape(stack), NEW m, m = Len(stack), m \in Nat, NEW k \in 1 .. 7, k <= m,
         NameAt(stack, m - k) \in StatementStart
  PROVE  m <= 1 + k + 8 * Braces(stack, m)
  <1>1. m - k \in 0 .. Len(stack) /\ m - k \in Nat /\ m - k <= m
    OBVIOUS
  <1>2. m - k <= 1 + 8 * Braces(stack, m - k)
    BY <1>1, Given, StartShallow
  <1>3. Braces(stack, m - k) <= Braces(stack, m)
    BY <1>1, BracesBelow
  <1>4. Braces(stack, m - k) \in Nat /\ Braces(stack, m) \in Nat
    BY <1>1, BracesType
  <1> QED BY <1>1, <1>2, <1>3, <1>4

\* Below what is still on top when nothing can be reduced.
Standing == StatementStart \cup OperandStart \cup
            {"type", "print", "id", "if", "while", "expression", "RPAREN", "else", "block",
             "declaration", "assignment", "printing", "contents", "error", "program"}

\* When no rule applies, the top of the stack is one that waits for a token.
LEMMA TopStands ==
  ASSUME IInv, Shape(stack), ~CanReduce
  PROVE  Top \in Standing
  <1> SUFFICES ASSUME Top # "bottom" PROVE Top \in Standing
    BY DEF Standing, StatementStart
  <1>1. Len(stack) \in 1 .. Len(stack) /\ stack[Len(stack)].name = Top
    BY TopAt
  <1>2. Top \in Symbols /\ NameAt(stack, Len(stack) - 1) \in Ground(Top)
    BY <1>1, ShapeAt
  <1>3. Top \notin {"end", "undef"}
    <2>1. Ground("end") = {} /\ Ground("undef") = {}
      BY DEF Ground
    <2> QED BY <1>2, <2>1
  <1>4. Top \notin {"lit", "statement", "SEMICOLON", "RBRACE"}
    BY LiteralReduced, StatementReduced, SemicolonReduced, BraceReduced
  <1> QED BY <1>2, <1>3, <1>4 DEF Symbols, Tokens, Standing, StatementStart, OperandStart

\* The token that is shifted stands where it may.
LEMMA ShiftStands ==
  ASSUME IInv, Shape(stack), ~CanReduce, lookahead.name \in Expected \ {"end"}
  PROVE  Top \in Ground(lookahead.name)
  <1>1. Top \in Standing
    BY TopStands
  <1>2. CASE Top \in StatementStart
    <2>1. lookahead.name \in {"type", "id", "if", "while", "print", "LBRACE"}
      BY <1>2 DEF Expected, StatementStart, OperandStart
    <2> QED BY <1>2, <2>1 DEF Ground
  <1>3. CASE Top \in OperandStart
    <2>1. Top \notin StatementStart \cup {"type", "print", "id", "if", "while"}
      BY <1>3 DEF OperandStart, StatementStart
    <2>2. lookahead.name \in {"id", "lit", "not", "LPAREN"}
      BY <1>3, <2>1 DEF Expected, BeginsOperand, StatementStart, OperandStart
    <2> QED BY <1>3, <2>2 DEF Ground
  <1>4. CASE Top \in {"type", "print", "id", "if", "while"}
    <2>1. Top \notin StatementStart
      BY <1>4 DEF StatementStart
    <2>2. /\ Top \in {"type", "print"} => lookahead.name = "id"
          /\ Top = "id" => lookahead.name = "="
          /\ Top \in {"if", "while"} => lookahead.name = "LPAREN"
      BY <1>4, <2>1 DEF Expected, StatementStart, OperandStart
    <2> QED BY <1>4, <2>2 DEF Ground
  <1>5. CASE Top \in {"expression", "RPAREN", "else", "block"}
    <2>1. Top \notin StatementStart \cup OperandStart
      BY <1>5 DEF StatementStart, OperandStart
    <2>2. /\ Top = "expression" => lookahead.name \in {"op", "RPAREN"}
          /\ Top \in {"RPAREN", "else"} => lookahead.name = "LBRACE"
          /\ Top = "block" => lookahead.name = "else"
      BY <1>5, <2>1 DEF Expected
    <2> QED BY <1>5, <2>2 DEF Ground
  <1>6. CASE Top \in {"declaration", "assignment", "printing", "contents", "error", "program"}
    <2>1. Top \notin StatementStart \cup OperandStart
      BY <1>6 DEF StatementStart, OperandStart
    <2>2. /\ Top \in {"declaration", "assignment", "printing"} => lookahead.name = "SEMICOLON"
          /\ Top = "contents" => lookahead.name = "RBRACE"
          /\ Top = "error" => lookahead.name \in {"SEMICOLON", "RBRACE"}
          /\ Top # "program"
      BY <1>6, <2>1 DEF Expected
    <2> QED BY <1>6, <2>2 DEF Ground
  <1> QED BY <1>1, <1>2, <1>3, <1>4, <1>5, <1>6 DEF Standing

\* It has further below what it needs ...
LEMMA ShiftHead ==
  ASSUME IInv, Shape(stack), ~CanReduce, lookahead.name \in Expected \ {"end"},
         NEW m, m = Len(stack)
  PROVE  HeadAt(stack, m, lookahead.name)
  <1>1. Top \in Ground(lookahead.name) /\ NameAt(stack, m) = Top /\ m \in Nat
    BY ShiftStands, TopAt, Given
  <1>2. CASE lookahead.name = "RPAREN"
    <2>1. Top = "expression"
      BY <1>1, <1>2 DEF Ground
    <2>2. Below(1) = "LPAREN"
      BY <1>2, <2>1 DEF Expected, StatementStart, OperandStart
    <2>3. m # 0 /\ NameAt(stack, m - 1) = "LPAREN"
      <3>1. m # 0
        BY <1>1, <2>1 DEF NameAt
      <3>2. 1 \in 0 .. Len(stack)
        BY <1>1, <3>1
      <3> QED BY <2>2, <3>1, <3>2, BelowAt
    <2>4. m - 1 # 0 /\ stack[m - 1].name = "LPAREN"
      BY <2>3 DEF NameAt
    <2>5. m >= 2
      BY <1>1, <2>3, <2>4
    <2> QED BY <1>2, <2>4, <2>5 DEF HeadAt
  <1>3. CASE lookahead.name = "LBRACE"
    <2>1. Top = "RPAREN" => m >= 4 /\ stack[m - 3].name \in {"if", "while"}
      BY ConditionEnds
    <2> QED BY <1>1, <1>3, <2>1 DEF HeadAt
  <1>4. CASE lookahead.name = "else"
    <2>1. Top = "block"
      BY <1>1, <1>4 DEF Ground
    <2>2. m >= 5 /\ stack[m - 1].name = "RPAREN" /\ stack[m - 4].name = "if"
      BY <2>1, BlockHead
    <2> QED BY <1>4, <2>2 DEF HeadAt
  <1>5. CASE lookahead.name = "RBRACE"
    <2>1. Top = "error" => Below(1) = "LBRACE"
      BY <1>5 DEF Expected, StatementStart, OperandStart
    <2>2. ASSUME Top = "error" PROVE m >= 2 /\ stack[m - 1].name = "LBRACE"
      <3>1. m # 0
        BY <1>1, <2>2 DEF NameAt
      <3>2. 1 \in 0 .. Len(stack)
        BY <1>1, <3>1
      <3>3. NameAt(stack, m - 1) = "LBRACE"
        BY <2>1, <2>2, <3>2, BelowAt
      <3>4. m - 1 # 0 /\ stack[m - 1].name = "LBRACE"
        BY <3>3 DEF NameAt
      <3> QED BY <1>1, <3>1, <3>4
    <2> QED BY <1>1, <1>5, <2>2 DEF HeadAt
  <1>6. CASE lookahead.name = "block"
    <2>1. lookahead.name \in Tokens \cup {"end", "undef", "none"}
      BY Given DEF TokenValues
    <2> QED BY <1>6, <2>1 DEF Tokens
  <1> QED BY <1>2, <1>3, <1>4, <1>5, <1>6 DEF HeadAt

\* ... and what opens a block is not deep.
LEMMA ShiftShallow ==
  ASSUME IInv, Shape(stack), ~CanReduce, lookahead.name \in Expected \ {"end"},
         lookahead.name = "LBRACE", NEW m, m = Len(stack)
  PROVE  m <= 7 + 8 * Braces(stack, m)
  <1>1. /\ Top \in Ground("LBRACE") /\ NameAt(stack, m) = Top
        /\ m \in Nat /\ Braces(stack, m) \in Nat
    BY ShiftStands, TopAt, Given, BracesType
  <1>2. CASE Top \in StatementStart
    <2>1. m <= 1 + 8 * Braces(stack, m)
      BY <1>1, <1>2, Given, StartShallow
    <2> QED BY <1>1, <2>1
  <1>3. CASE Top = "RPAREN"
    <2>1. m >= 4 /\ stack[m - 3].name \in {"if", "while"}
      BY <1>3, ConditionEnds
    <2>2. m - 3 \in 1 .. Len(stack) /\ m - 3 - 1 = m - 4 /\ 4 \in 1 .. 7 /\ 4 <= m
      BY <1>1, <2>1
    <2>3. NameAt(stack, m - 4) \in StatementStart
      <3>1. NameAt(stack, m - 3 - 1) \in Ground(stack[m - 3].name)
        BY <2>2, ShapeAt
      <3> QED BY <2>1, <2>2, <3>1 DEF Ground
    <2>4. m <= 1 + 4 + 8 * Braces(stack, m)
      BY <1>1, <2>2, <2>3, HeadShallow
    <2> QED BY <1>1, <2>4
  <1>4. CASE Top = "else"
    <2>1. m \in 1 .. Len(stack) /\ stack[m].name = "else"
      BY <1>4, TopAt
    <2>2. m >= 6 /\ NameAt(stack, m - 6) \in StatementStart
      BY <2>1, ElseHead
    <2>3. m <= 1 + 6 + 8 * Braces(stack, m)
      <3>1. 6 \in 1 .. 7 /\ 6 <= m
        BY <1>1, <2>2
      <3> QED BY <1>1, <2>2, <3>1, HeadShallow
    <2> QED BY <1>1, <2>3
  <1>5. Top \in StatementStart \cup {"RPAREN", "else"}
    BY <1>1 DEF Ground
  <1> QED BY <1>2, <1>3, <1>4, <1>5

\* So a shift keeps the shape of the stack.
LEMMA ShiftKeepsShape ==
  ASSUME IInv, Shape(stack), Shift
  PROVE  Shape(stack')
  <1> DEFINE m == Len(stack)
  <1>1. /\ ~CanReduce /\ lookahead.name \in Expected \ {"end"}
        /\ stack' = Append(stack, lookahead)
    BY DEF Shift, Decided
  <1>2. stack \in Seq(Values) /\ m \in 0 .. Len(stack) /\ stack = SubSeq(stack, 1, m)
    BY Given
  <1>3. NameAt(stack, m) \in Ground(lookahead.name)
    BY <1>1, ShiftStands, TopAt
  <1>4. HeadAt(stack, m, lookahead.name)
    BY <1>1, ShiftHead
  <1>5. lookahead.name = "LBRACE" => m <= 7 + 8 * Braces(stack, m)
    BY <1>1, ShiftShallow
  <1>6. stack' = Append(SubSeq(stack, 1, m), lookahead)
    BY <1>1, <1>2
  <1> HIDE DEF m
  <1> QED BY <1>2, <1>3, <1>4, <1>5, <1>6, PushShape

\* The error token is put where a statement may begin.
LEMMA ErrorKeepsShape ==
  ASSUME IInv, Shape(stack), Detect \/ Discard
  PROVE  Shape(stack')
  <1> DEFINE e == Symbol("error", {})
  <1>1. stack' = Append(SubSeq(stack, 1, Kept), e)
    BY DEF Detect, Discard, ShiftError
  <1>2. /\ stack \in Seq(Values) /\ Kept \in 0 .. Len(stack)
        /\ Kept = 0 \/ stack[Kept].name \in StatementStart
    BY Given, KeptOnStack
  <1>3. NameAt(stack, Kept) \in Ground("error")
    BY <1>2 DEF NameAt, Ground, StatementStart
  <1>4. e.name = "error"
    BY DEF Symbol
  <1>5. HeadAt(stack, Kept, "error")
    BY DEF HeadAt
  <1> HIDE DEF e
  <1> QED BY <1>1, <1>2, <1>3, <1>4, <1>5, PushShape

StackShape == Shape(stack)

\* The stack always has its shape.
LEMMA ShapeInvariant ==
  Spec => []StackShape
  <1>1. Init => StackShape
    BY DEF Init, Shape, StackShape
  <1>2. IInv /\ StackShape /\ [Next]_vars => StackShape'
    <2> SUFFICES ASSUME IInv, Shape(stack), [Next]_vars PROVE Shape(stack')
      BY DEF StackShape
    <2>1. CASE stack' = stack
      BY <2>1
    <2>2. CASE stack' = << >>
      BY <2>2 DEF Shape
    <2>3. ASSUME Next
          PROVE  \/ stack' = stack \/ stack' = << >>
                 \/ Reduce \/ Shift \/ Detect \/ Discard
      BY <2>3 DEF Next, Step, Begin, ReadEnd, ReadIdentifier, ReadBad, ReadPlain, Read, Reading,
         Accept, GiveUp, Overflow, Exhaust, Cleanup, End, Destroy
    <2>4. CASE UNCHANGED vars
      BY <2>4, <2>1 DEF vars
    <2> QED BY <2>1, <2>2, <2>3, <2>4, ReduceKeepsShape, ShiftKeepsShape, ErrorKeepsShape
  <1> QED BY <1>1, <1>2, Invariant, PTL DEF Spec

\* The stack is bounded by how deep the blocks of the program are nested,
\* however long its lists of statements are.  (The lists of parser.y are
\* recursive on the left; YYMAXDEPTH.)
THEOREM StackBounded ==
  Spec => []StackByNesting
  <1>1. IInv /\ StackShape => StackByNesting
    <2> SUFFICES ASSUME IInv, Shape(stack), Top \in {"list", "LBRACE"}
                 PROVE  Len(stack) <=
                          1 + 8 * Cardinality({i \in DOMAIN stack : stack[i].name = "LBRACE"})
      BY DEF StackByNesting, StackShape
    <2>1. NameAt(stack, Len(stack)) \in StatementStart
      BY TopAt DEF StatementStart
    <2>2. /\ Len(stack) \in 0 .. Len(stack) /\ stack \in Seq(Values)
          /\ DOMAIN stack = 1 .. Len(stack)
      BY Given
    <2>3. Len(stack) <= 1 + 8 * Braces(stack, Len(stack))
      BY <2>1, <2>2, StartShallow
    <2> QED BY <2>2, <2>3 DEF Braces
  <1> QED BY <1>1, Invariant, ShapeInvariant, PTL

-----------------------------------------------------------------------------
(* What is reported. *)

\* The tokens at which a recovery ends, and the stack when it does.
Closers == {"SEMICOLON", "RBRACE"}
Mending == Top \in Closers /\ NameAt(stack, Len(stack) - 1) = "error"

\* The token read is the last one of what was read.
TokenRead ==
  status = "parsing" =>
    /\ ended <=> lookahead.name = "end"
    /\ lookahead.name \notin {"none", "end"} => input # << >>
    /\ lookahead.name \in Tokens => input[Len(input)] = lookahead.name
    /\ Mending => /\ lookahead = NoToken /\ input # << >>
                  /\ input[Len(input)] \in Closers

Here == Len(input) + (IF ended THEN 1 ELSE 0)

\* A report is about what has been read.
Dated == \A i \in DOMAIN errors : errors[i].at \in 1 .. Here

\* yyerror has not seen more lexical errors than there were.
Seen == counts.seen_lexical <= counts.lexical

\* Since each report there was a token at which to recover, not the last one read
\* unless that one is shifted.
Mended ==
  \A i \in DOMAIN errors : \E k \in errors[i].at .. Len(input) :
    input[k] \in Closers /\ (k < Here \/ lookahead = NoToken)

\* What the lexer says of the last token is still to be taken for an error.
Pending ==
  lookahead # NoToken /\ ~ended /\ input[Len(input)] = "bad" =>
    counts.seen_lexical < counts.lexical

\* While nothing is being recovered.
Settled == status = "parsing" /\ ~recovering => Mended /\ Pending

RInv == TokenRead /\ Dated /\ Seen /\ Settled /\ NothingReportedTwice

\* What the invariants say of the input and of the reports.
LEMMA ReportTypes ==
  ASSUME IInv
  PROVE  /\ input \in Seq(Tokens \cup {"bad"}) /\ Len(input) \in Nat
         /\ DOMAIN input = 1 .. Len(input)
         /\ errors \in Seq([at : Nat, reported : BOOLEAN])
         /\ Len(errors) \in Nat /\ DOMAIN errors = 1 .. Len(errors)
         /\ \A i \in DOMAIN errors : errors[i].at \in Nat
         /\ counts \in Counts /\ counts.lexical \in Nat /\ counts.seen_lexical \in Nat
         /\ Here \in Nat /\ (~ended => Here = Len(input)) /\ (ended => Here = Len(input) + 1)
  <1>1. /\ input \in Beginnings /\ counts \in Counts
        /\ errors \in Seq([at : Nat, reported : BOOLEAN])
    BY DEF IInv, Simple
  <1>2. input \in Seq(Tokens \cup {"bad"}) /\ Len(input) \in Nat /\ DOMAIN input = 1 .. Len(input)
    BY <1>1, BeginningType
  <1>3. Len(errors) \in Nat /\ DOMAIN errors = 1 .. Len(errors)
    BY <1>1
  <1>4. \A i \in DOMAIN errors : errors[i].at \in Nat
    <2>1. \A i \in DOMAIN errors : errors[i] \in [at : Nat, reported : BOOLEAN]
      <3> DEFINE R == [at : Nat, reported : BOOLEAN]
      <3>1. errors \in Seq(R)
        BY <1>1
      <3> HIDE DEF R
      <3>2. \A i \in DOMAIN errors : errors[i] \in R
        BY <3>1
      <3> QED BY <3>2 DEF R
    <2>2. \A e \in [at : Nat, reported : BOOLEAN] : e.at \in Nat
      OBVIOUS
    <2> QED BY <2>1, <2>2
  <1>5. counts.lexical \in Nat /\ counts.seen_lexical \in Nat
    BY <1>1 DEF Counts
  <1>6. Here \in Nat /\ (~ended => Here = Len(input)) /\ (ended => Here = Len(input) + 1)
    <2>1. ended => Here = Len(input) + 1
      BY DEF Here
    <2>2. ~ended => Here = Len(input) + 0
      BY DEF Here
    <2> QED BY <1>2, <2>1, <2>2
  <1> QED BY <1>1, <1>2, <1>3, <1>4, <1>5, <1>6

\* yyerror takes note of the lexical errors it has seen, and is silent while it
\* has not.
LEMMA YyerrorSeen ==
  ASSUME NEW c \in Counts, NEW memory \in BOOLEAN, c.seen_lexical <= c.lexical
  PROVE  /\ Yyerror(c, memory).seen_lexical <= Yyerror(c, memory).lexical
         /\ c.seen_lexical < c.lexical => Yyerror(c, memory).syntax = c.syntax
  <1>1. /\ c.lexical \in Nat /\ c.seen_lexical \in Nat
        /\ DOMAIN c = {"lexical", "internal", "syntax", "seen_lexical", "seen_internal",
                       "parser_internal"}
    BY DEF Counts
  <1>2. CASE c.lexical > c.seen_lexical
    <2>1. Yyerror(c, memory) = [c EXCEPT !.seen_lexical = c.lexical]
      BY <1>2 DEF Yyerror
    <2>2. /\ [c EXCEPT !.seen_lexical = c.lexical].seen_lexical = c.lexical
          /\ [c EXCEPT !.seen_lexical = c.lexical].lexical = c.lexical
          /\ [c EXCEPT !.seen_lexical = c.lexical].syntax = c.syntax
      BY <1>1
    <2> QED BY <1>1, <2>1, <2>2
  <1>3. CASE ~(c.lexical > c.seen_lexical)
    <2>1. \/ Yyerror(c, memory) = [c EXCEPT !.seen_internal = TRUE]
          \/ Yyerror(c, memory) = [c EXCEPT !.parser_internal = TRUE]
          \/ Yyerror(c, memory) = [c EXCEPT !.syntax = @ + 1]
      BY <1>3 DEF Yyerror
    <2>2. /\ Yyerror(c, memory).seen_lexical = c.seen_lexical
          /\ Yyerror(c, memory).lexical = c.lexical
      BY <1>1, <2>1
    <2>3. ~(c.seen_lexical < c.lexical)
      BY <1>1, <1>3
    <2> QED BY <2>2, <2>3
  <1> QED BY <1>2, <1>3

\* Where nothing is read and nothing reported, the reports stay as they are.
LEMMA ReportsStay ==
  ASSUME RInv, UNCHANGED <<input, ended, errors>>
  PROVE  NothingReportedTwice' /\ Dated'
  <1>1. NothingReportedTwice'
    BY DEF RInv, NothingReportedTwice, ReportsApart, LexicalReportedOnce
  <1>2. Dated'
    BY DEF RInv, Dated, Here
  <1> QED BY <1>1, <1>2

\* When the parser stops, only what was reported counts.
LEMMA StopReports ==
  ASSUME RInv, UNCHANGED <<input, ended, errors>>, status' # "parsing",
         counts'.seen_lexical <= counts'.lexical
  PROVE  RInv'
  BY ReportsStay DEF RInv, TokenRead, Seen, Settled

\* Exhausted memory reports nothing about the source.
LEMMA ExhaustReports ==
  ASSUME IInv, RInv, NEW n, NEW freed, Exhaust(n, freed)
  PROVE  RInv'
  <1>1. /\ UNCHANGED <<input, ended, errors>> /\ status' = "returned"
        /\ counts' = Yyerror(counts, TRUE)
    BY DEF Exhaust, Cleanup
  <1>2. counts'.seen_lexical <= counts'.lexical
    BY <1>1, ReportTypes, YyerrorSeen DEF RInv, Seen
  <1>3. status' # "parsing"
    BY <1>1
  <1> QED BY <1>1, <1>2, <1>3, StopReports

\* Neither does a return.
LEMMA ReturnsReport ==
  ASSUME IInv, RInv, Accept \/ GiveUp \/ Overflow \/ End \/ Destroy
  PROVE  RInv'
  <1>1. CASE Overflow
    BY <1>1, ExhaustReports DEF Overflow
  <1>2. CASE Accept \/ GiveUp \/ End \/ Destroy
    <2>1. UNCHANGED <<counts, input, ended, errors>>
      BY <1>2 DEF Accept, GiveUp, End, Destroy, Cleanup
    <2>2. status' # "parsing"
      BY <1>2 DEF Accept, GiveUp, End, Destroy, Cleanup, Verdict
    <2>3. counts'.seen_lexical <= counts'.lexical
      BY <2>1 DEF RInv, Seen
    <2> QED BY <2>1, <2>2, <2>3, StopReports
  <1> QED BY <1>1, <1>2

\* A new call has reported nothing.
LEMMA BeginReports ==
  ASSUME IInv, Begin
  PROVE  RInv'
  <1>1. /\ errors' = << >> /\ counts' = NoCounts /\ lookahead' = NoToken /\ ~ended'
        /\ stack' = << >>
    BY DEF Begin
  <1>2. DOMAIN errors' = {}
    BY <1>1
  <1>3. TokenRead'
    <2>1. NoToken.name = "none" /\ "none" \notin Tokens
      BY DEF NoToken, Symbol, Tokens
    <2>2. ~Mending'
      BY <1>1 DEF Mending, Closers, Top
    <2> QED BY <1>1, <2>1, <2>2 DEF TokenRead
  <1>4. NothingReportedTwice'
    BY <1>2 DEF NothingReportedTwice, ReportsApart, LexicalReportedOnce, Range
  <1>5. Dated' /\ Mended' /\ Pending'
    BY <1>1, <1>2 DEF Dated, Mended, Pending
  <1>6. Seen'
    BY <1>1 DEF Seen, NoCounts
  <1> QED BY <1>3, <1>4, <1>5, <1>6 DEF RInv, Settled

\* Nothing is being recovered from a semicolon or a brace before it is reduced.
LEMMA NotMending ==
  ASSUME IInv, Shape(stack), ~CanReduce
  PROVE  ~Mending
  BY SemicolonReduced, BraceReduced DEF Mending, Closers

\* Reading a token, or what is none.
LEMMA TokenReports ==
  ASSUME IInv, Shape(stack), RInv, NEW t \in Tokens \cup {"bad"}, Read(t),
         lookahead'.name \in {t, "undef"},
         counts'.seen_lexical = counts.seen_lexical,
         counts'.lexical \in Nat, counts'.lexical >= counts.lexical,
         t = "bad" => counts'.lexical > counts.lexical
  PROVE  RInv'
  <1> DEFINE n == Len(input)
  <1>1. /\ status = "parsing" /\ lookahead = NoToken /\ ~CanReduce
        /\ input' = Append(input, t)
        /\ UNCHANGED <<stack, recovering, status, errors>> /\ ended' = ended
    BY DEF Read, Reading, Parsing
  <1>2. ~ended
    <2>1. lookahead.name = "none"
      BY <1>1, TokenName
    <2> QED BY <1>1, <2>1 DEF RInv, TokenRead
  <1>3. ~ended'
    BY <1>1, <1>2
  <1>4. /\ n \in Nat /\ Len(input') = n + 1 /\ DOMAIN input' = 1 .. n + 1
        /\ input' # << >> /\ input'[n + 1] = t
        /\ \A k \in 1 .. n : input'[k] = input[k]
    BY <1>1, ReportTypes
  <1>5. Here = n /\ Here' = n + 1
    <2>1. Here = n
      BY <1>2, ReportTypes
    <2>2. Here' = Len(input') + 0
      BY <1>3 DEF Here
    <2> QED BY <1>4, <2>1, <2>2
  <1>6. /\ \A i \in DOMAIN errors : errors[i].at \in 1 .. n
        /\ DOMAIN input = 1 .. n
    BY <1>5, ReportTypes DEF RInv, Dated
  <1> HIDE DEF n
  <1>7. TokenRead'
    <2>1. ~Mending'
      BY <1>1, NotMending DEF Mending, Top
    <2>2. t # "end" /\ lookahead'.name # "end" /\ "undef" \notin Tokens
      BY DEF Tokens
    <2> QED BY <1>1, <1>3, <1>4, <2>1, <2>2 DEF TokenRead
  <1>8. Dated'
    BY <1>1, <1>4, <1>5, <1>6 DEF Dated
  <1>9. Seen'
    BY ReportTypes DEF RInv, Seen
  <1>10. ASSUME ~recovering' PROVE Mended' /\ Pending'
    <2>1. Mended /\ ~recovering
      BY <1>1, <1>10 DEF RInv, Settled
    <2>2. ASSUME NEW i \in DOMAIN errors
          PROVE  \E k \in errors[i].at .. n + 1 : input'[k] \in Closers /\ k < n + 1
      <3>1. PICK k \in errors[i].at .. Len(input) : input[k] \in Closers
        BY <2>1 DEF Mended
      <3>2. errors[i].at \in 1 .. n
        BY <1>6
      <3>3. k \in 1 .. n /\ k \in errors[i].at .. n + 1 /\ k < n + 1
        BY <1>4, <3>2 DEF n
      <3> QED BY <1>4, <3>1, <3>3
    <2>3. Mended'
      BY <1>1, <1>4, <1>5, <2>2 DEF Mended
    <2>4. t = "bad" => counts'.seen_lexical < counts'.lexical
      BY ReportTypes DEF RInv, Seen
    <2> QED BY <1>4, <2>3, <2>4 DEF Pending
  <1>11. ReportsApart'
    <2>1. ASSUME NEW i \in DOMAIN errors, NEW j \in DOMAIN errors, i < j
          PROVE  \E k \in errors[i].at .. errors[j].at - 1 : input'[k] \in Closers
      <3>1. PICK k \in errors[i].at .. errors[j].at - 1 : input[k] \in Closers
        BY <2>1 DEF RInv, NothingReportedTwice, ReportsApart, Closers
      <3>2. errors[i].at \in 1 .. n /\ errors[j].at \in 1 .. n
        BY <1>6
      <3>3. k \in 1 .. n
        BY <1>4, <3>2
      <3> QED BY <1>4, <3>1, <3>3
    <2> QED BY <1>1, <2>1 DEF ReportsApart, Closers
  <1>12. LexicalReportedOnce'
    <2>1. ASSUME NEW e \in Range(errors), e.reported PROVE input'[e.at] # "bad"
      <3>1. PICK i \in DOMAIN errors : e = errors[i]
        BY DEF Range
      <3>2. e.at \in 1 .. n
        BY <1>6, <3>1
      <3>3. input[e.at] # "bad"
        BY <1>6, <2>1, <3>2 DEF RInv, NothingReportedTwice, LexicalReportedOnce
      <3> QED BY <1>4, <3>2, <3>3
    <2> QED BY <1>1, <2>1 DEF LexicalReportedOnce
  <1> QED BY <1>7, <1>8, <1>9, <1>10, <1>11, <1>12 DEF RInv, Settled, NothingReportedTwice

\* Reading the end of the source.
LEMMA EndReports ==
  ASSUME IInv, Shape(stack), RInv, ReadEnd
  PROVE  RInv'
  <1>1. /\ status = "parsing" /\ lookahead = NoToken /\ ~CanReduce
        /\ lookahead' = Symbol("end", {}) /\ ended'
        /\ UNCHANGED <<counts, stack, recovering, status, errors, input>>
    BY DEF ReadEnd, Reading, Parsing
  <1>2. ~ended
    <2>1. lookahead.name = "none"
      BY <1>1, TokenName
    <2> QED BY <1>1, <2>1 DEF RInv, TokenRead
  <1>3. lookahead'.name = "end" /\ lookahead'.name \notin Tokens
    BY <1>1 DEF Symbol, Tokens
  <1>4. Here = Len(input) /\ Here' = Len(input) + 1 /\ Len(input) \in Nat
    <2>1. Here' = Len(input') + 1
      BY <1>1 DEF Here
    <2> QED BY <1>1, <1>2, <2>1, ReportTypes
  <1>5. TokenRead'
    <2>1. ~Mending'
      BY <1>1, NotMending DEF Mending, Top
    <2> QED BY <1>1, <1>3, <2>1 DEF TokenRead
  <1>6. Dated'
    BY <1>1, <1>4 DEF RInv, Dated
  <1>7. Seen' /\ NothingReportedTwice'
    BY <1>1 DEF RInv, Seen, NothingReportedTwice, ReportsApart, LexicalReportedOnce
  <1>8. ASSUME ~recovering' PROVE Mended' /\ Pending'
    <2>1. Mended
      BY <1>1, <1>8 DEF RInv, Settled
    <2>2. ASSUME NEW i \in DOMAIN errors
          PROVE  \E k \in errors[i].at .. Len(input) : input[k] \in Closers /\ k < Len(input) + 1
      <3>1. PICK k \in errors[i].at .. Len(input) : input[k] \in Closers
        BY <2>1 DEF Mended
      <3>2. errors[i].at \in Nat
        BY ReportTypes
      <3>3. k < Len(input) + 1
        BY <1>4, <3>2
      <3> QED BY <3>1, <3>3
    <2>3. Mended'
      BY <1>1, <1>4, <2>2 DEF Mended
    <2> QED BY <1>1, <2>3 DEF Pending
  <1> QED BY <1>5, <1>6, <1>7, <1>8 DEF RInv, Settled

\* A token that is read keeps it: a new closer in the source is not yet read over.
LEMMA ReadsReport ==
  ASSUME IInv, Shape(stack), RInv,
         ReadEnd \/ ReadIdentifier \/ ReadBad \/ \E t \in Tokens : ReadPlain(t)
  PROVE  RInv'
  <1>1. CASE ReadEnd
    BY <1>1, EndReports
  <1>2. counts.lexical \in Nat /\ counts \in Counts
    BY ReportTypes
  <1>3. ASSUME NEW t \in Tokens, ReadPlain(t) PROVE RInv'
    <2>1. Read(t) /\ lookahead'.name = t /\ counts' = counts /\ t # "bad"
      BY <1>3 DEF ReadPlain, Symbol, Tokens
    <2>2. t \in Tokens \cup {"bad"}
      OBVIOUS
    <2> QED BY <1>2, <2>1, <2>2, TokenReports
  <1>4. CASE ReadBad
    <2>1. Read("bad") /\ lookahead'.name = "undef"
      BY <1>4 DEF ReadBad, Symbol
    <2>2. counts' = [counts EXCEPT !.lexical = @ + 1]
      BY <1>4 DEF ReadBad
    <2>3. counts'.seen_lexical = counts.seen_lexical /\ counts'.lexical = counts.lexical + 1
      BY <1>2, <2>2 DEF Counts
    <2> QED BY <1>2, <2>1, <2>3, TokenReports
  <1>5. CASE ReadIdentifier
    <2>1. Read("id") /\ lookahead'.name \in {"id", "undef"}
      BY <1>5 DEF ReadIdentifier, Symbol
    <2>2. counts' = counts \/ counts' = [counts EXCEPT !.internal = TRUE]
      BY <1>5 DEF ReadIdentifier
    <2>3. counts'.seen_lexical = counts.seen_lexical /\ counts'.lexical = counts.lexical
      BY <1>2, <2>2 DEF Counts
    <2>4. "id" \in Tokens \cup {"bad"}
      BY DEF Tokens
    <2> QED BY <1>2, <2>1, <2>3, <2>4, TokenReports
  <1> QED BY <1>1, <1>3, <1>4, <1>5

\* A reduction gives up, or leaves the reports alone; it ends a recovery at a
\* token where one can end.
LEMMA RecoveryEnds ==
  ASSUME IInv, NEW r \in Rules, Applies(r), r.action \in {"recovered", "emptyBlock"}
  PROVE  Mending
  <1> DEFINE m == Len(stack)
  <1>1. m \in Nat
    BY Given
  <1>2. CASE r.action = "recovered"
    <2>1. r.rhs = <<"error", "SEMICOLON">>
      BY <1>2, RuleForms
    <2>2. Ends(<<"error", "SEMICOLON">>)
      BY <2>1 DEF Applies
    <2>3. m >= 2 /\ stack[m - 2 + 1].name = "error" /\ stack[m - 2 + 2].name = "SEMICOLON"
      BY <2>2 DEF Ends
    <2>4. m - 2 + 1 = m - 1 /\ m - 2 + 2 = m /\ m - 1 # 0 /\ m # 0
      BY <1>1, <2>3
    <2>5. stack[m].name = "SEMICOLON" /\ stack[m - 1].name = "error"
      BY <2>3, <2>4
    <2> QED BY <2>4, <2>5, TopAt DEF Mending, Closers, NameAt
  <1>3. CASE r.action = "emptyBlock"
    <2>1. r.rhs = <<"LBRACE", "error", "RBRACE">>
      BY <1>3, RuleForms
    <2>2. Ends(<<"LBRACE", "error", "RBRACE">>)
      BY <2>1 DEF Applies
    <2>3. m >= 3 /\ stack[m - 3 + 2].name = "error" /\ stack[m - 3 + 3].name = "RBRACE"
      BY <2>2 DEF Ends
    <2>4. m - 3 + 2 = m - 1 /\ m - 3 + 3 = m /\ m - 1 # 0 /\ m # 0
      BY <1>1, <2>3
    <2>5. stack[m].name = "RBRACE" /\ stack[m - 1].name = "error"
      BY <2>3, <2>4
    <2> QED BY <2>4, <2>5, TopAt DEF Mending, Closers, NameAt
  <1> QED BY <1>2, <1>3

\* A reduction that succeeds leaves all but the stack, and is about nothing else.
Reduced ==
  /\ UNCHANGED <<lookahead, counts, status, input, ended, errors>>
  /\ stack' # << >>

Steady == UNCHANGED recovering
Mends == ~recovering' /\ Mending

\* What a reduction tells: it gives up, or it goes on as before, or it has mended
\* what was amiss (yyerrok, parser.y:153, :258).
LEMMA ReduceTells ==
  ASSUME IInv, Reduce
  PROVE  /\ status = "parsing"
         /\ \/ \E n, freed : Exhaust(n, freed)
            \/ Reduced /\ (Steady \/ Mends)
  <1>1. ASSUME NEW r \in Rules, NEW v, Replace(r, v)
        PROVE  Reduced
    <2>1. UNCHANGED <<lookahead, counts, status, input, ended, errors>>
      BY <1>1 DEF Replace
    <2>2. stack' # << >>
      BY <1>1 DEF Replace
    <2> QED BY <2>1, <2>2 DEF Reduced
  <1>2. ASSUME NEW r \in Rules, NEW freed, NoMemory(r, freed)
        PROVE  \E n, f : Exhaust(n, f)
    BY <1>2 DEF NoMemory
  <1>3. ASSUME NEW r \in Rules, ReducePass(r)
        PROVE  status = "parsing" /\ Reduced /\ Steady
    <2>1. \E v : Replace(r, v)
      BY <1>3 DEF ReducePass
    <2> QED BY <1>1, <1>3, <2>1 DEF ReducePass, Reduces, Parsing, Steady
  <1>4. ASSUME NEW r \in Rules, ReduceRecovered(r)
        PROVE  status = "parsing" /\ Reduced /\ Mends
    <2>1. status = "parsing" /\ Applies(r) /\ r.action = "recovered" /\ ~recovering'
      BY <1>4 DEF ReduceRecovered, Reduces, Parsing
    <2>2. Reduced
      BY <1>1, <1>4 DEF ReduceRecovered
    <2> QED BY <2>1, <2>2, RecoveryEnds DEF Mends
  <1>5. ASSUME NEW r \in Rules, ReduceEmptyBlock(r)
        PROVE  /\ status = "parsing"
               /\ (\E n, freed : Exhaust(n, freed)) \/ (Reduced /\ Mends)
    <2>1. status = "parsing" /\ Applies(r) /\ r.action = "emptyBlock"
      BY <1>5 DEF ReduceEmptyBlock, Reduces, Parsing
    <2>2. Mending
      BY <2>1, RecoveryEnds
    <2>3. \/ NoMemory(r, {})
          \/ Replace(r, Symbol(r.lhs, {Fresh})) /\ ~recovering'
      BY <1>5 DEF ReduceEmptyBlock
    <2>4. NoMemory(r, {}) \/ (Reduced /\ ~recovering')
      BY <1>1, <2>3
    <2> QED BY <1>2, <2>1, <2>2, <2>4 DEF Mends
  <1>6. ASSUME NEW r \in Rules,
               \/ ReduceNode(r) \/ ReduceNewList(r) \/ ReduceFirstItem(r) \/ ReduceNextItem(r)
        PROVE  /\ status = "parsing"
               /\ (\E n, freed : Exhaust(n, freed)) \/ (Reduced /\ Steady)
    <2>1. status = "parsing"
      BY <1>6 DEF ReduceNode, ReduceNewList, ReduceFirstItem, ReduceNextItem, Reduces, Parsing
    <2>2. NoMemory(r, {}) \/ (Steady /\ \E v : Replace(r, v))
      BY <1>6 DEF Steady, ReduceNode, ReduceNewList, ReduceFirstItem, ReduceNextItem
    <2> QED BY <1>1, <1>2, <2>1, <2>2
  <1>7. ASSUME NEW r \in Rules, ReduceAttach(r)
        PROVE  /\ status = "parsing"
               /\ (\E n, freed : Exhaust(n, freed)) \/ (Reduced /\ Steady)
    <2>1. status = "parsing"
      BY <1>7 DEF ReduceAttach, Reduces, Parsing
    <2>2. \/ \E freed : NoMemory(r, freed)
          \/ /\ UNCHANGED <<lookahead, recovering, counts, result, status, failures,
                            input, ended, errors>>
             /\ \E v : stack' = Append(Without(Len(r.rhs)), v)
      BY <1>7 DEF ReduceAttach
    <2>3. (\E v : stack' = Append(Without(Len(r.rhs)), v)) => stack' # << >>
      OBVIOUS
    <2> QED BY <1>2, <2>1, <2>2, <2>3 DEF Reduced, Steady
  <1>8. PICK r \in Rules :
          \/ ReducePass(r) \/ ReduceRecovered(r) \/ ReduceNode(r) \/ ReduceEmptyBlock(r)
          \/ ReduceNewList(r) \/ ReduceFirstItem(r) \/ ReduceNextItem(r) \/ ReduceAttach(r)
    BY DEF Reduce
  <1>9. CASE ReducePass(r) \/ ReduceRecovered(r)
    BY <1>3, <1>4, <1>9
  <1>10. CASE ReduceEmptyBlock(r)
    BY <1>5, <1>10
  <1>11. CASE \/ ReduceNode(r) \/ ReduceNewList(r) \/ ReduceFirstItem(r) \/ ReduceNextItem(r)
    BY <1>6, <1>11
  <1>12. CASE ReduceAttach(r)
    BY <1>7, <1>12
  <1> QED BY <1>8, <1>9, <1>10, <1>11, <1>12

\* What is put on the stack is on top.
LEMMA PutOnTop ==
  ASSUME IInv, NEW r \in Rules, Applies(r), Put(Len(stack) - Len(r.rhs), r.lhs),
         stack' # << >>
  PROVE  Top' = r.lhs
  <1> DEFINE t == SubSeq(stack, 1, Len(stack) - Len(r.rhs))
  <1>1. PICK v : v.name = r.lhs /\ stack' = Append(t, v)
    BY DEF Put
  <1>2. Len(r.rhs) \in 0 .. Len(stack) /\ stack \in Seq(Values)
    BY TakenSymbols, Given
  <1>3. t \in Seq(Values)
    BY <1>2
  <1> HIDE DEF t
  <1>4. Last(stack') = v
    BY <1>1, <1>3 DEF Last
  <1> QED BY <1>1, <1>4 DEF Top

\* A reduction that mends does so at a closer after the last error.
LEMMA ReduceReports ==
  ASSUME IInv, RInv, Reduce
  PROVE  RInv'
  <1>1. CASE \E n, freed : Exhaust(n, freed)
    BY <1>1, ExhaustReports
  <1>2. ASSUME Reduced, Steady \/ Mends, status = "parsing"
        PROVE  RInv'
    <2>0. /\ UNCHANGED <<lookahead, counts, status, input, ended, errors>>
          /\ stack' # << >>
      BY <1>2 DEF Reduced
    <2>1. ~Mending'
      <3>1. PICK r \in Rules : Applies(r) /\ Put(Len(stack) - Len(r.rhs), r.lhs)
        BY <2>0, ReducePuts
      <3>2. Top' = r.lhs
        BY <2>0, <3>1, PutOnTop
      <3>3. r.lhs \notin Closers
        BY RuleForms DEF Owners, Closers
      <3> QED BY <3>2, <3>3 DEF Mending
    <2>2. TokenRead'
      BY <1>2, <2>0, <2>1 DEF RInv, TokenRead
    <2>3. NothingReportedTwice' /\ Dated'
      BY <2>0, ReportsStay
    <2>4. Seen'
      BY <2>0 DEF RInv, Seen
    <2>5. ~recovering' => Mended /\ Pending
      <3>1. CASE Steady
        BY <1>2, <3>1 DEF RInv, Settled, Steady
      <3>2. CASE Mends
        <4>1. lookahead = NoToken /\ input # << >> /\ input[Len(input)] \in Closers /\ ~ended
          <5>1. lookahead = NoToken /\ input # << >> /\ input[Len(input)] \in Closers
            BY <1>2, <3>2 DEF RInv, TokenRead, Mends
          <5>2. lookahead.name # "end"
            BY <5>1, TokenName
          <5> QED BY <1>2, <5>1, <5>2 DEF RInv, TokenRead
        <4>2. \A i \in DOMAIN errors : errors[i].at \in 1 .. Len(input)
          BY <4>1, ReportTypes DEF RInv, Dated
        <4>3. \A i \in DOMAIN errors : Len(input) \in errors[i].at .. Len(input)
          BY <4>2, ReportTypes
        <4> QED BY <4>1, <4>3 DEF Mended, Pending
      <3> QED BY <1>2, <3>1, <3>2
    <2>6. ~recovering' => Mended' /\ Pending'
      BY <2>0, <2>5 DEF Mended, Pending, Here
    <2> QED BY <2>2, <2>3, <2>4, <2>6 DEF RInv, Settled
  <1> QED BY <1>1, <1>2, ReduceTells

\* A shift keeps what was reported.
LEMMA ShiftReports ==
  ASSUME IInv, RInv, Shift
  PROVE  RInv'
  <1>1. /\ status = "parsing" /\ lookahead # NoToken /\ lookahead.name # "end"
        /\ stack' = Append(stack, lookahead) /\ lookahead' = NoToken
        /\ UNCHANGED <<counts, status, input, ended, errors>> /\ recovering' = recovering
    BY DEF Shift, Decided, Parsing
  <1>2. /\ ~ended /\ lookahead.name \notin {"none", "end"} /\ input # << >>
        /\ lookahead.name \in Tokens => input[Len(input)] = lookahead.name
    BY <1>1, TokenName DEF RInv, TokenRead
  <1>3. TokenRead'
    <2>1. NoToken.name = "none" /\ "none" \notin Tokens
      BY DEF NoToken, Symbol, Tokens
    <2>2. Top' = lookahead.name
      <3>1. stack' # << >> /\ stack'[Len(stack')] = lookahead
        BY <1>1, Given
      <3> QED BY <3>1 DEF Top, Last
    <2>3. Mending' => input[Len(input)] \in Closers
      <3>1. Closers \subseteq Tokens
        BY DEF Closers, Tokens
      <3>2. Mending' => lookahead.name \in Closers
        BY <2>2 DEF Mending
      <3> QED BY <1>2, <3>1, <3>2
    <2> QED BY <1>1, <1>2, <2>1, <2>3 DEF TokenRead
  <1>4. NothingReportedTwice' /\ Dated'
    BY <1>1, ReportsStay
  <1>5. Seen'
    BY <1>1 DEF RInv, Seen
  <1>6. ~recovering' => Mended' /\ Pending'
    <2>1. ~recovering' => Mended
      BY <1>1 DEF RInv, Settled
    <2>2. Mended => Mended'
      BY <1>1 DEF Mended
    <2> QED BY <1>1, <2>1, <2>2 DEF Pending
  <1> QED BY <1>3, <1>4, <1>5, <1>6 DEF RInv, Settled

\* With the error token on top nothing is being recovered yet.
LEMMA ErrorIsTop ==
  ASSUME IInv, NEW d, ShiftError(d)
  PROVE  Top' = "error"
  <1> DEFINE e == Symbol("error", {})
             t == SubSeq(stack, 1, Kept)
  <1>1. stack' = Append(t, e)
    BY DEF ShiftError
  <1>2. t \in Seq(Values) /\ e.name = "error"
    BY Given, KeptOnStack DEF Symbol
  <1> HIDE DEF t, e
  <1>3. stack' # << >> /\ Last(stack') = e
    BY <1>1, <1>2 DEF Last
  <1> QED BY <1>2, <1>3 DEF Top

\* After an error is shifted the parser recovers.
LEMMA ErrorOnTop ==
  ASSUME IInv, NEW d, ShiftError(d)
  PROVE  ~Mending' /\ recovering' /\ UNCHANGED <<status, input, ended>>
  BY ErrorIsTop DEF ShiftError, Mending, Closers

\* A discarded token is not reported.
LEMMA DiscardReports ==
  ASSUME IInv, RInv, Discard
  PROVE  RInv'
  <1>1. /\ status = "parsing" /\ lookahead.name # "end" /\ lookahead' = NoToken
        /\ UNCHANGED <<counts, errors>>
    BY DEF Discard, Unexpected, Decided, Parsing
  <1>2. ~Mending' /\ recovering' /\ UNCHANGED <<status, input, ended>>
    BY ErrorOnTop DEF Discard
  <1>3. TokenRead'
    <2>1. NoToken.name = "none" /\ "none" \notin Tokens
      BY DEF NoToken, Symbol, Tokens
    <2> QED BY <1>1, <1>2, <2>1 DEF RInv, TokenRead
  <1>4. NothingReportedTwice' /\ Dated'
    BY <1>1, <1>2, ReportsStay
  <1>5. Seen'
    BY <1>1 DEF RInv, Seen
  <1> QED BY <1>2, <1>3, <1>4, <1>5 DEF RInv, Settled

\* An error that is reported is not one that a recovery already passed.
LEMMA DetectReports ==
  ASSUME IInv, RInv, Detect
  PROVE  RInv'
  <1> DEFINE n == Len(errors)
             x == [at |-> Here, reported |-> counts'.syntax > counts.syntax]
  <1>1. /\ status = "parsing" /\ lookahead # NoToken /\ lookahead' = lookahead
        /\ ~recovering /\ counts' = Yyerror(counts, FALSE)
    BY DEF Detect, Unexpected, Decided, Parsing
  <1>2. ~Mending' /\ recovering' /\ UNCHANGED <<status, input, ended>>
    BY ErrorOnTop DEF Detect
  <1>3. /\ n \in Nat /\ DOMAIN errors' = 1 .. n + 1 /\ errors'[n + 1] = x
        /\ \A i \in 1 .. n : errors'[i] = errors[i]
    <2>1. errors' = Append(errors, x)
      BY DEF Detect, Here
    <2> HIDE DEF x
    <2> QED BY <2>1, ReportTypes
  <1>4. x.at = Here /\ (x.reported => counts'.syntax > counts.syntax)
    OBVIOUS
  <1>5. Here' = Here
    BY <1>2 DEF Here
  <1>6. DOMAIN errors = 1 .. n
    BY ReportTypes
  <1>7. Mended /\ Pending
    BY <1>1 DEF RInv, Settled
  <1>8. \A i \in 1 .. n + 1 : i \in 1 .. n \/ i = n + 1
    BY <1>3
  <1> HIDE DEF n, x
  <1>9. TokenRead'
    BY <1>1, <1>2 DEF RInv, TokenRead
  <1>10. Dated'
    <2>1. Here >= 1
      <3>1. CASE ended
        BY <3>1, ReportTypes
      <3>2. CASE ~ended
        <4>1. lookahead.name \notin {"none", "end"}
          BY <1>1, <3>2, TokenName DEF RInv, TokenRead
        <4>2. Len(input) # 0
          BY <1>1, <4>1, ReportTypes DEF RInv, TokenRead
        <4> QED BY <3>2, <4>2, ReportTypes
      <3> QED BY <3>1, <3>2
    <2>2. Here \in 1 .. Here
      BY <2>1, ReportTypes
    <2>3. \A i \in 1 .. n : errors[i].at \in 1 .. Here
      BY <1>6 DEF RInv, Dated
    <2> QED BY <1>3, <1>4, <1>5, <1>8, <2>2, <2>3 DEF Dated
  <1>11. Seen'
    BY <1>1, ReportTypes, YyerrorSeen DEF RInv, Seen
  <1>12. ReportsApart'
    <2>1. ASSUME NEW i \in 1 .. n + 1, NEW j \in 1 .. n + 1, i < j
          PROVE  \E k \in errors'[i].at .. errors'[j].at - 1 : input[k] \in Closers
      <3>1. i \in 1 .. n
        BY <1>3, <2>1
      <3>2. CASE j \in 1 .. n
        <4>1. \E k \in errors[i].at .. errors[j].at - 1 : input[k] \in Closers
          BY <1>6, <2>1, <3>1, <3>2 DEF RInv, NothingReportedTwice, ReportsApart, Closers
        <4> QED BY <1>3, <3>1, <3>2, <4>1
      <3>3. CASE j = n + 1
        <4>1. PICK k \in errors[i].at .. Len(input) : input[k] \in Closers /\ k < Here
          BY <1>1, <1>6, <1>7, <3>1 DEF Mended
        <4>2. errors[i].at \in Nat
          BY <1>6, <3>1, ReportTypes
        <4>3. k \in errors[i].at .. Here - 1
          BY <4>1, <4>2, ReportTypes
        <4> QED BY <1>3, <1>4, <3>1, <3>3, <4>1, <4>3
      <3> QED BY <1>8, <3>2, <3>3
    <2> QED BY <1>2, <1>3, <2>1 DEF ReportsApart, Closers
  <1>13. LexicalReportedOnce'
    <2>1. ASSUME NEW i \in 1 .. n + 1, errors'[i].reported, errors'[i].at \in DOMAIN input
          PROVE  input[errors'[i].at] # "bad"
      <3>1. CASE i \in 1 .. n
        <4>1. errors[i] \in Range(errors) /\ errors'[i] = errors[i]
          BY <1>3, <1>6, <3>1 DEF Range
        <4> QED BY <2>1, <4>1 DEF RInv, NothingReportedTwice, LexicalReportedOnce
      <3>2. CASE i = n + 1
        <4>1. Here \in DOMAIN input /\ counts'.syntax > counts.syntax
          BY <1>3, <1>4, <2>1, <3>2
        <4>2. Here = Len(input) /\ ~ended
          BY <4>1, ReportTypes
        <4>3. ~(counts.seen_lexical < counts.lexical)
          <5> SUFFICES ASSUME counts.seen_lexical < counts.lexical PROVE FALSE
            OBVIOUS
          <5>1. counts'.syntax = counts.syntax
            BY <1>1, ReportTypes, YyerrorSeen DEF RInv, Seen
          <5>2. counts.syntax \in Nat
            BY ReportTypes DEF Counts
          <5> QED BY <4>1, <5>1, <5>2
        <4>4. input[Len(input)] # "bad"
          BY <1>1, <1>7, <4>2, <4>3 DEF Pending
        <4> QED BY <1>3, <1>4, <3>2, <4>2, <4>4
      <3> QED BY <1>8, <3>1, <3>2
    <2>2. \A e \in Range(errors') : \E i \in 1 .. n + 1 : e = errors'[i]
      BY <1>3 DEF Range
    <2> QED BY <1>2, <2>1, <2>2 DEF LexicalReportedOnce
  <1> QED BY <1>2, <1>9, <1>10, <1>11, <1>12, <1>13 DEF RInv, Settled, NothingReportedTwice

\* What has been reported is always as RInv says.
LEMMA ReportsInvariant ==
  Spec => []RInv
  <1>1. Init => RInv
    <2> SUFFICES ASSUME Init PROVE RInv
      OBVIOUS
    <2>1. DOMAIN errors = {} /\ Range(errors) = {}
      BY DEF Init, Range
    <2>2. NothingReportedTwice /\ Dated
      BY <2>1 DEF NothingReportedTwice, ReportsApart, LexicalReportedOnce, Dated
    <2>3. TokenRead /\ Seen /\ Settled
      BY DEF Init, TokenRead, Seen, Settled, NoCounts
    <2> QED BY <2>2, <2>3 DEF RInv
  <1>2. IInv /\ StackShape /\ RInv /\ [Next]_vars => RInv'
    <2> SUFFICES ASSUME IInv, Shape(stack), RInv, [Next]_vars PROVE RInv'
      BY DEF StackShape
    <2>1. CASE UNCHANGED vars
      BY <2>1 DEF vars, RInv, TokenRead, Dated, Seen, Settled, NothingReportedTwice, ReportsApart,
         LexicalReportedOnce, Mending, Top, Mended, Pending, Here
    <2>2. CASE Next
      BY <2>2, BeginReports, ReadsReport, ReduceReports, ShiftReports, ReturnsReport,
         DetectReports, DiscardReports DEF Next, Step
    <2> QED BY <2>1, <2>2
  <1> QED BY <1>1, <1>2, Invariant, ShapeInvariant, PTL DEF Spec

\* No cascade, whatever the source: between two reports there was a token at
\* which the first error could be recovered; and the parser is silent about what
\* the lexer has reported.  (yyerrlab1, yyerrok and yyerror; D-307 and D-405 of
\* DECISIONS.md.)
THEOREM ReportedOnce ==
  Spec => []NothingReportedTwice
  <1>1. RInv => NothingReportedTwice
    BY DEF RInv
  <1> QED BY <1>1, ReportsInvariant, PTL

-----------------------------------------------------------------------------
(* The verdict. *)

\* The counters tell what happened ...
LexicalCounted == counts.lexical = 0 <=> ~Lexical
SyntaxCounted ==
  counts.lexical = 0 /\ ~Exhausted => (counts.syntax = 0 <=> errors = << >>)
MemoryTold == counts.parser_internal => result = 2

\* ... nothing is recovered, or given up, without an error ...
Recovered == status = "parsing" /\ recovering => errors # << >>
GivenUp == result = 1 => errors # << >>

\* ... and what is accepted hands out a program.
Handed == /\ Top = "program" => parsed # {}
          /\ status = "returned" /\ result = 0 => parsed # {}

Counted == LexicalCounted /\ SyntaxCounted /\ MemoryTold /\ GivenUp
VInv == Counted /\ Recovered /\ Handed /\ VerdictTold

\* The types of the counts.
LEMMA CountFields ==
  ASSUME IInv
  PROVE  /\ counts.lexical \in Nat /\ counts.syntax \in Nat /\ counts.seen_lexical \in Nat
         /\ counts.internal \in BOOLEAN /\ counts.parser_internal \in BOOLEAN
         /\ DOMAIN counts = {"lexical", "internal", "syntax", "seen_lexical", "seen_internal",
                             "parser_internal"}
  BY ReportTypes DEF Counts

\* What is counted stays counted while nothing it depends on changes.
LEMMA CountedStays ==
  ASSUME Counted, UNCHANGED <<counts, result, input, errors>>
  PROVE  Counted'
  BY DEF Counted, LexicalCounted, SyntaxCounted, MemoryTold, GivenUp, Exhausted, Lexical

\* While it is parsed there is no verdict, and none until End.
LEMMA NotTold ==
  ASSUME status' \in {"none", "parsing", "returned"}
  PROVE  VerdictTold'
  BY DEF VerdictTold, Done

\* What is read next is bad, or not.
LEMMA LexicalNext ==
  ASSUME IInv, NEW t, input' = Append(input, t)
  PROVE  Lexical' <=> Lexical \/ t = "bad"
  <1>1. /\ DOMAIN input' = 1 .. Len(input) + 1 /\ DOMAIN input = 1 .. Len(input)
        /\ input'[Len(input) + 1] = t /\ Len(input) \in Nat
        /\ \A k \in 1 .. Len(input) : input'[k] = input[k]
    BY ReportTypes
  <1>2. ASSUME Lexical PROVE Lexical'
    <2>1. PICK k \in 1 .. Len(input) : input[k] = "bad"
      BY <1>1, <1>2 DEF Lexical, Range
    <2>2. k \in DOMAIN input' /\ input'[k] = "bad"
      BY <1>1, <2>1
    <2> QED BY <2>2 DEF Lexical, Range
  <1>3. ASSUME t = "bad" PROVE Lexical'
    <2>1. Len(input) + 1 \in DOMAIN input'
      BY <1>1
    <2> QED BY <1>1, <1>3, <2>1 DEF Lexical, Range
  <1>4. ASSUME Lexical', t # "bad" PROVE Lexical
    <2>1. PICK k \in 1 .. Len(input) + 1 : input'[k] = "bad"
      BY <1>1, <1>4 DEF Lexical, Range
    <2>2. k \in 1 .. Len(input)
      BY <1>1, <1>4, <2>1
    <2>3. k \in DOMAIN input /\ input[k] = "bad"
      BY <1>1, <2>1, <2>2
    <2> QED BY <2>3 DEF Lexical, Range
  <1> QED BY <1>2, <1>3, <1>4

\* A lexical error is counted when it is read.
LEMMA ReadsTell ==
  ASSUME IInv, VInv, ReadEnd \/ ReadIdentifier \/ ReadBad \/ \E t \in Tokens : ReadPlain(t)
  PROVE  VInv'
  <1>1. /\ UNCHANGED <<stack, parsed, result, status, errors>> /\ recovering' = recovering
        /\ status = "parsing"
    BY DEF ReadEnd, ReadIdentifier, ReadBad, ReadPlain, Read, Reading, Parsing
  <1>2. Recovered' /\ Handed' /\ VerdictTold'
    BY <1>1, NotTold DEF VInv, Recovered, Handed, Top
  <1>3. CASE ReadEnd
    BY <1>1, <1>2, <1>3, CountedStays DEF ReadEnd, VInv
  <1>4. ASSUME NEW t \in Tokens, ReadPlain(t) PROVE Counted'
    <2>1. input' = Append(input, t) /\ UNCHANGED counts /\ t # "bad"
      BY <1>4 DEF ReadPlain, Read, Tokens
    <2>2. Lexical' <=> Lexical
      BY <2>1, LexicalNext
    <2> QED BY <1>1, <2>1, <2>2
        DEF VInv, Counted, LexicalCounted, SyntaxCounted, MemoryTold, GivenUp, Exhausted
  <1>5. CASE ReadBad
    <2>1. input' = Append(input, "bad") /\ counts' = [counts EXCEPT !.lexical = @ + 1]
      BY <1>5 DEF ReadBad, Read
    <2>2. Lexical'
      BY <2>1, LexicalNext
    <2>3. /\ counts'.lexical = counts.lexical + 1
          /\ counts'.parser_internal = counts.parser_internal
      BY <2>1, CountFields
    <2>4. counts'.lexical # 0
      BY <2>3, CountFields
    <2>5. Counted'
      BY <1>1, <2>2, <2>3, <2>4
         DEF VInv, Counted, LexicalCounted, SyntaxCounted, MemoryTold, GivenUp
    <2> QED BY <1>2, <2>5 DEF VInv
  <1>6. CASE ReadIdentifier
    <2>1. input' = Append(input, "id")
      BY <1>6 DEF ReadIdentifier, Read
    <2>2. Lexical' <=> Lexical
      BY <2>1, LexicalNext
    <2>3. counts' = counts \/ counts' = [counts EXCEPT !.internal = TRUE]
      BY <1>6 DEF ReadIdentifier
    <2>4. CASE counts' = counts
      <3>1. Counted'
        BY <1>1, <2>2, <2>4
           DEF VInv, Counted, LexicalCounted, SyntaxCounted, MemoryTold, GivenUp, Exhausted
      <3> QED BY <1>2, <3>1 DEF VInv
    <2>5. CASE counts' = [counts EXCEPT !.internal = TRUE]
      <3>1. /\ counts'.lexical = counts.lexical /\ counts'.internal
            /\ counts'.parser_internal = counts.parser_internal
        BY <2>5, CountFields
      <3>2. Counted'
        BY <1>1, <2>2, <3>1
           DEF VInv, Counted, LexicalCounted, SyntaxCounted, MemoryTold, GivenUp, Exhausted
      <3> QED BY <1>2, <3>2 DEF VInv
    <2> QED BY <2>3, <2>4, <2>5
  <1> QED BY <1>2, <1>3, <1>4, <1>5, <1>6 DEF VInv

\* yyerror counts a message of the parser as an error, unless the lexer has told
\* of one, or memory was exhausted.
LEMMA YyerrorCounts ==
  ASSUME IInv, NEW memory \in BOOLEAN
  PROVE  /\ Yyerror(counts, memory).lexical = counts.lexical
         /\ Yyerror(counts, memory).internal = counts.internal
         /\ ~memory => Yyerror(counts, memory).parser_internal = counts.parser_internal
         /\ ~memory /\ ~counts.internal /\ counts.seen_lexical = counts.lexical =>
              Yyerror(counts, memory).syntax = counts.syntax + 1
  <1> DEFINE c == counts
             seen == [c EXCEPT !.seen_lexical = c.lexical]
             internal == [c EXCEPT !.seen_internal = TRUE]
             mine == [c EXCEPT !.parser_internal = TRUE]
             another == [c EXCEPT !.syntax = @ + 1]
  <1>1. /\ seen.lexical = c.lexical /\ seen.internal = c.internal
        /\ seen.parser_internal = c.parser_internal
        /\ internal.lexical = c.lexical /\ internal.internal = c.internal
        /\ internal.parser_internal = c.parser_internal
    BY CountFields
  <1>2. /\ mine.lexical = c.lexical /\ mine.internal = c.internal
        /\ another.lexical = c.lexical /\ another.internal = c.internal
        /\ another.parser_internal = c.parser_internal /\ another.syntax = c.syntax + 1
    BY CountFields
  <1>3. \/ Yyerror(c, memory) = seen /\ c.lexical > c.seen_lexical
        \/ Yyerror(c, memory) = internal /\ c.internal
        \/ Yyerror(c, memory) = mine /\ memory
        \/ Yyerror(c, memory) = another
    BY DEF Yyerror
  <1>4. ~(c.lexical > c.seen_lexical) \/ c.seen_lexical # c.lexical
    BY CountFields
  <1> HIDE DEF seen, internal, mine, another
  <1> QED BY <1>1, <1>2, <1>3, <1>4

\* Memory that runs out makes the parser return 2, reported or not.
LEMMA ExhaustTells ==
  ASSUME IInv, VInv, NEW n, NEW freed, Exhaust(n, freed)
  PROVE  VInv'
  <1>1. /\ status' = "returned" /\ result' = 2 /\ stack' = << >>
        /\ counts' = Yyerror(counts, TRUE) /\ UNCHANGED <<input, errors>>
    BY DEF Exhaust, Cleanup
  <1>2. counts'.lexical = counts.lexical
    BY <1>1, YyerrorCounts
  <1>3. Counted'
    <2>1. LexicalCounted'
      <3>1. Lexical' <=> Lexical
        BY <1>1 DEF Lexical
      <3> QED BY <1>2, <3>1 DEF VInv, Counted, LexicalCounted
    <2>2. Exhausted'
      BY <1>1 DEF Exhausted
    <2>3. SyntaxCounted'
      BY <2>2 DEF SyntaxCounted
    <2>4. MemoryTold'
      BY <1>1, <2>2 DEF MemoryTold
    <2>5. GivenUp'
      BY <1>1 DEF GivenUp
    <2> QED BY <2>1, <2>3, <2>4, <2>5 DEF Counted
  <1>4. Handed'
    BY <1>1 DEF Handed, Top
  <1>5. Recovered' /\ VerdictTold'
    BY <1>1, NotTold DEF Recovered
  <1> QED BY <1>3, <1>4, <1>5 DEF VInv

\* A reduction changes no count, unless memory runs out; the program is handed out
\* by the rule that makes it.
LEMMA ReduceVerdict ==
  ASSUME IInv, IInv', VInv, Reduce
  PROVE  VInv'
  <1>1. CASE \E n, freed : Exhaust(n, freed)
    BY <1>1, ExhaustTells
  <1>2. ASSUME Reduced, Steady \/ Mends, status = "parsing"
        PROVE  VInv'
    <2>1. /\ UNCHANGED <<counts, status, input, errors>> /\ stack' # << >>
      BY <1>2 DEF Reduced
    <2>2. result' = result
      BY <1>2, <2>1 DEF IInv, Phases
    <2>3. Counted'
      BY <2>1, <2>2, CountedStays DEF VInv
    <2>4. Recovered'
      BY <1>2, <2>1 DEF VInv, Recovered, Steady, Mends
    <2>5. Handed'
      <3>1. PICK r \in Rules : /\ Applies(r) /\ Put(Len(stack) - Len(r.rhs), r.lhs)
                               /\ HandsOut(r.lhs)
        BY <2>1, ReducePuts
      <3>2. Top' = r.lhs
        BY <2>1, <3>1, PutOnTop
      <3> QED BY <1>2, <2>1, <3>1, <3>2 DEF Handed, HandsOut
    <2> QED BY <1>2, <2>1, <2>3, <2>4, <2>5, NotTold DEF VInv
  <1> QED BY <1>1, <1>2, ReduceTells

\* A shift or a discarded token changes no count.
LEMMA ShiftsTell ==
  ASSUME IInv, VInv, Shift \/ Discard
  PROVE  VInv'
  <1>1. /\ UNCHANGED <<counts, result, status, input, errors>> /\ status = "parsing"
    BY DEF Shift, Discard, ShiftError, Unexpected, Decided, Parsing
  <1>2. Top' # "program"
    <2>1. CASE Shift
      <3>1. stack' # << >> /\ stack'[Len(stack')] = lookahead
        BY <2>1, Given DEF Shift
      <3> QED BY <3>1, TokenName DEF Top, Last
    <2>2. CASE Discard
      BY <2>2, ErrorIsTop DEF Discard
    <2> QED BY <2>1, <2>2
  <1>3. recovering' => recovering
    BY DEF Shift, Discard
  <1>4. Recovered' /\ Handed' /\ VerdictTold'
    BY <1>1, <1>2, <1>3, NotTold DEF VInv, Recovered, Handed
  <1> QED BY <1>1, <1>4, CountedStays DEF VInv

\* An error is counted, or the lexer has counted one before.
LEMMA DetectTells ==
  ASSUME IInv, RInv, VInv, Detect
  PROVE  VInv'
  <1>1. /\ UNCHANGED <<result, status, input>> /\ status = "parsing"
        /\ counts' = Yyerror(counts, FALSE)
    BY DEF Detect, ShiftError, Unexpected, Decided, Parsing
  <1>2. errors' # << >>
    <2>1. \E x : errors' = Append(errors, x)
      BY DEF Detect
    <2> QED BY <2>1, ReportTypes
  <1>3. /\ counts'.lexical = counts.lexical /\ counts'.internal = counts.internal
        /\ counts'.parser_internal = counts.parser_internal
        /\ ~counts.internal /\ counts.seen_lexical = counts.lexical =>
             counts'.syntax = counts.syntax + 1
    BY <1>1, YyerrorCounts
  <1>4. SyntaxCounted'
    <2> SUFFICES ASSUME counts'.lexical = 0, ~counts'.internal PROVE counts'.syntax # 0
      BY <1>2 DEF SyntaxCounted, Exhausted
    <2>1. counts.lexical = 0 /\ ~counts.internal
      BY <1>3
    <2>2. counts.seen_lexical = counts.lexical
      BY <2>1, CountFields DEF RInv, Seen
    <2> QED BY <1>3, <2>1, <2>2, CountFields
  <1>5. Counted'
    BY <1>1, <1>2, <1>3, <1>4
       DEF VInv, Counted, LexicalCounted, MemoryTold, GivenUp, Lexical
  <1>6. Top' # "program"
    BY ErrorIsTop DEF Detect
  <1>7. Recovered' /\ Handed' /\ VerdictTold'
    BY <1>1, <1>2, <1>6, NotTold DEF Recovered, Handed
  <1> QED BY <1>5, <1>7 DEF VInv

\* Acceptance hands out a program; giving up follows an error.
LEMMA AcceptTells ==
  ASSUME IInv, VInv, Accept \/ GiveUp
  PROVE  VInv'
  <1>1. /\ status' = "returned" /\ stack' = << >>
        /\ UNCHANGED <<counts, parsed, input, errors>>
        /\ status = "parsing"
    BY DEF Accept, GiveUp, Unexpected, Decided, Parsing, Cleanup
  <1>2. result = 0
    BY <1>1 DEF IInv, Phases
  <1>3. \/ result' = 0 /\ parsed # {}
        \/ result' = 1 /\ errors # << >>
    BY <1>1 DEF Accept, GiveUp, VInv, Handed, Recovered
  <1>4. Counted'
    BY <1>1, <1>2, <1>3
       DEF VInv, Counted, LexicalCounted, SyntaxCounted, MemoryTold, GivenUp, Exhausted, Lexical
  <1>5. Recovered' /\ Handed' /\ VerdictTold'
    BY <1>1, <1>3, NotTold DEF Recovered, Handed, Top
  <1> QED BY <1>4, <1>5 DEF VInv

\* The verdict reads the counts off (parser.y:608).
LEMMA EndTells ==
  ASSUME IInv, VInv, End
  PROVE  VInv'
  <1>1. /\ UNCHANGED <<stack, counts, result, input, errors>> /\ status = "returned"
        /\ status' = Verdict /\ status' \notin {"parsing", "returned"}
    BY DEF End, Verdict
  <1>2. Counted'
    BY <1>1, CountedStays DEF VInv
  <1>3. Recovered' /\ Handed'
    <2>1. stack = << >>
      BY <1>1 DEF IInv, Phases
    <2> QED BY <1>1, <2>1 DEF Recovered, Handed, Top
  <1>4. VerdictTold'
    <2>1. Exhausted' <=> Exhausted
      BY <1>1 DEF Exhausted
    <2>2. Lexical' <=> Lexical
      BY <1>1 DEF Lexical
    <2>3. Exhausted => Verdict = "INTERNAL_ERROR"
      BY DEF Exhausted, Verdict
    <2>4. ASSUME ~Exhausted
          PROVE  ~counts.internal /\ ~counts.parser_internal /\ result # 2
      BY <2>4 DEF VInv, Counted, MemoryTold, Exhausted
    <2>5. ASSUME ~Exhausted, Lexical PROVE Verdict = "LEXICAL_ERROR"
      <3>1. counts.lexical # 0
        BY <2>5 DEF VInv, Counted, LexicalCounted
      <3> QED BY <2>4, <2>5, <3>1 DEF Verdict
    <2>6. ASSUME ~Exhausted, ~Lexical
          PROVE  Verdict = IF errors = << >> THEN "SUCCESS" ELSE "SYNTAX_ERROR"
      <3>1. counts.lexical = 0
        BY <2>6 DEF VInv, Counted, LexicalCounted
      <3>2. counts.syntax = 0 <=> errors = << >>
        BY <2>6, <3>1 DEF VInv, Counted, SyntaxCounted
      <3>3. CASE errors = << >>
        <4>1. result # 1
          BY <3>3 DEF VInv, Counted, GivenUp
        <4>2. result = 0
          BY <2>4, <2>6, <4>1 DEF IInv, Simple
        <4>3. parsed # {}
          BY <1>1, <4>2 DEF VInv, Handed
        <4> QED BY <2>4, <2>6, <3>1, <3>2, <3>3, <4>2, <4>3 DEF Verdict
      <3>4. CASE errors # << >>
        BY <2>4, <2>6, <3>1, <3>2, <3>4 DEF Verdict
      <3> QED BY <3>3, <3>4
    <2> QED BY <1>1, <2>1, <2>2, <2>3, <2>5, <2>6 DEF VerdictTold
  <1> QED BY <1>2, <1>3, <1>4 DEF VInv

\* A new call starts with counts of zero.
LEMMA CallsTell ==
  ASSUME IInv, VInv, Begin \/ Destroy
  PROVE  VInv'
  <1>1. CASE Begin
    <2>1. /\ stack' = << >> /\ counts' = NoCounts /\ result' = 0 /\ input' = << >>
          /\ errors' = << >> /\ status' = "parsing" /\ ~recovering'
      BY <1>1 DEF Begin
    <2>2. ~Lexical'
      BY <2>1 DEF Lexical, Range
    <2>3. /\ NoCounts.lexical = 0 /\ NoCounts.syntax = 0 /\ ~NoCounts.parser_internal
      BY DEF NoCounts
    <2>4. Counted'
      BY <2>1, <2>2, <2>3 DEF Counted, LexicalCounted, SyntaxCounted, MemoryTold, GivenUp
    <2>5. Recovered' /\ Handed' /\ VerdictTold'
      BY <2>1, NotTold DEF Recovered, Handed, Top
    <2> QED BY <2>4, <2>5 DEF VInv
  <1>2. CASE Destroy
    <2>1. /\ UNCHANGED <<stack, counts, result, input, errors>> /\ status' = "none"
          /\ status # "parsing"
      BY <1>2 DEF Destroy, Done
    <2>2. stack = << >>
      BY <2>1 DEF IInv, Phases
    <2>3. Recovered' /\ Handed' /\ VerdictTold'
      BY <2>1, <2>2, NotTold DEF Recovered, Handed, Top
    <2> QED BY <2>1, <2>3, CountedStays DEF VInv
  <1> QED BY <1>1, <1>2

\* What is counted always agrees with what has happened.
LEMMA VerdictInvariant ==
  Spec => []VInv
  <1>1. Init => VInv
    <2> SUFFICES ASSUME Init PROVE VInv
      OBVIOUS
    <2>1. ~Lexical
      BY DEF Init, Lexical, Range
    <2>2. /\ NoCounts.lexical = 0 /\ NoCounts.syntax = 0 /\ ~NoCounts.parser_internal
      BY DEF NoCounts
    <2>3. Counted
      BY <2>1, <2>2 DEF Init, Counted, LexicalCounted, SyntaxCounted, MemoryTold, GivenUp
    <2>4. Recovered /\ Handed /\ VerdictTold
      BY DEF Init, Recovered, Handed, Top, VerdictTold, Done
    <2> QED BY <2>3, <2>4 DEF VInv
  <1>2. IInv /\ IInv' /\ RInv /\ VInv /\ [Next]_vars => VInv'
    <2> SUFFICES ASSUME IInv, IInv', RInv, VInv, [Next]_vars PROVE VInv'
      OBVIOUS
    <2>1. CASE UNCHANGED vars
      BY <2>1, CountedStays DEF vars, VInv, Recovered, Handed, Top, VerdictTold, Done, Exhausted,
         Lexical
    <2>2. CASE Overflow
      BY <2>2, ExhaustTells DEF Overflow
    <2>3. CASE Next
      BY <2>2, <2>3, CallsTell, ReadsTell, ReduceVerdict, ShiftsTell, DetectTells, AcceptTells,
         EndTells DEF Next, Step
    <2> QED BY <2>1, <2>3
  <1> QED BY <1>1, <1>2, Invariant, ReportsInvariant, PTL DEF Spec

\* The verdict of parser_parse tells what has happened, the earliest phase
\* first: exhausted memory, then a lexical error, then an error of syntax,
\* though it was recovered; a program is handed out if there was none.
\* (parser.y:608-629.)
THEOREM VerdictIsTold ==
  Spec => []VerdictTold
  <1>1. VInv => VerdictTold
    BY DEF VInv
  <1> QED BY <1>1, VerdictInvariant, PTL
=============================================================================
