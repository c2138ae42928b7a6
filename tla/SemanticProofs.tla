--------------------------- MODULE SemanticProofs ---------------------------
(***************************************************************************)
(* What semantic_program does with the table, for every source: scopes are *)
(* balanced, names resolve to the innermost block around them, the reports *)
(* are of what breaks the rules, and only pass 1 declares globals.  The    *)
(* invariant joins the one of the table to where the analysis stands.      *)
(***************************************************************************)
EXTENDS Semantic, SymbolTableProofs, SequenceTheorems

-----------------------------------------------------------------------------
\* The sum of a sequence of naturals, and how two sums compare.
LEMMA SumRecursion ==
    ASSUME NEW s \in Seq(Nat)
    PROVE  \E total \in [0..Len(s) -> Nat] :
              /\ Sum(s) = total[Len(s)] /\ total[0] = 0
              /\ \A k \in 1..Len(s) : total[k] = total[k - 1] + s[k]
<1> DEFINE n == Len(s)
           G == [k \in 0..n |-> [f \in [0..n -> Nat] |-> IF k = 0 THEN 0 ELSE f[k - 1] + s[k]]]
           height == [k \in 0..n |-> k]
           Total(f) == f = [k \in 0..n |-> IF k = 0 THEN 0 ELSE f[k - 1] + s[k]]
<1>1. n \in Nat /\ \A k \in 1..n : s[k] \in Nat
  OBVIOUS
<1> HIDE DEF n
<1>2. G \in [0..n -> [[0..n -> Nat] -> Nat]] /\ height \in [0..n -> Nat]
  <2>1. ASSUME NEW k \in 0..n, NEW f \in [0..n -> Nat]
        PROVE  (IF k = 0 THEN 0 ELSE f[k - 1] + s[k]) \in Nat
    <3>1. k # 0 => k - 1 \in 0..n /\ k \in 1..n
      BY <1>1
    <3> QED BY <1>1, <3>1
  <2> QED BY <1>1, <2>1
<1>3. LooksBelow(0..n, Nat, height, G)
  <2> SUFFICES ASSUME NEW x \in 0..n, NEW f \in [0..n -> Nat], NEW h \in [0..n -> Nat],
                      \A y \in 0..n : height[y] < height[x] => f[y] = h[y]
               PROVE  G[x][f] = G[x][h]
    BY <1>2 DEF LooksBelow
  <2>1. x # 0 => x - 1 \in 0..n /\ x - 1 < x
    BY <1>1
  <2> QED BY <2>1
<1>4. PICK f0 \in [0..n -> Nat] : \A k \in 0..n : f0[k] = G[k][f0]
  <2>1. \E f : Recursive(0..n, Nat, G, f)
    <3> HIDE DEF G, height
    <3> QED BY <1>3, TreeRecursion, Zenon
  <2> QED BY <2>1 DEF Recursive
<1>5. Total(f0)
  BY <1>4
<1> DEFINE total == CHOOSE f : Total(f)
<1>6. Total(total)
  <2> HIDE DEF Total
  <2> QED BY <1>5
<1>7. Sum(s) = total[n]
  BY DEF Sum, n
<1> HIDE DEF total
<1>8. {k \in 0..n : total[k] = f0[k]} = 0..n
  <2> DEFINE T == {k \in 0..n : total[k] = f0[k]}
  <2>1. Hereditary(0..n, height, T)
    <3> SUFFICES ASSUME NEW x \in 0..n, \A y \in 0..n : height[y] < height[x] => y \in T
                 PROVE  x \in T
      BY <1>1 DEF Hereditary
    <3>1. x # 0 => x - 1 \in 0..n /\ x - 1 < x
      BY <1>1
    <3>2. x # 0 => total[x - 1] = f0[x - 1]
      BY <3>1
    <3>3. total[x] = f0[x]
      BY <1>4, <1>6, <3>1, <3>2
    <3> QED BY <3>3
  <2> HIDE DEF T, height
  <2>3. T = 0..n
    BY <2>1, TreeInduction, Zenon
  <2> QED BY <2>3 DEF T
<1>9. Sum(s) = f0[n] /\ f0[0] = 0
  <2>1. 0 \in 0..n /\ n \in 0..n
    BY <1>1
  <2>2. total[n] = f0[n]
    BY <1>8, <2>1
  <2>3. f0[0] = 0
    BY <1>5, <2>1
  <2> QED BY <1>7, <2>2, <2>3
<1>10. ASSUME NEW k \in 1..n PROVE f0[k] = f0[k - 1] + s[k]
  BY <1>1, <1>4, <1>10
<1> QED BY <1>9, <1>10 DEF n

LEMMA SumType ==
    ASSUME NEW s \in Seq(Nat)
    PROVE  Sum(s) \in Nat
<1>1. Len(s) \in Nat
  OBVIOUS
<1> QED BY <1>1, SumRecursion

LEMMA SumMonotone ==
    ASSUME NEW s \in Seq(Nat), NEW t \in Seq(Nat), Len(s) <= Len(t),
           \A k \in 1..Len(s) : s[k] <= t[k]
    PROVE  Sum(s) <= Sum(t)
<1>1. PICK f \in [0..Len(s) -> Nat] :
         /\ Sum(s) = f[Len(s)] /\ f[0] = 0
         /\ \A k \in 1..Len(s) : f[k] = f[k - 1] + s[k]
  BY SumRecursion
<1>2. PICK h \in [0..Len(t) -> Nat] :
         /\ Sum(t) = h[Len(t)] /\ h[0] = 0
         /\ \A k \in 1..Len(t) : h[k] = h[k - 1] + t[k]
  BY SumRecursion
<1> DEFINE n == Len(t)
           height == [k \in 0..n |-> k]
           T == {k \in 0..n : /\ k <= Len(s) => f[k] <= h[k]
                              /\ k >= Len(s) => f[Len(s)] <= h[k]}
<1>3. n \in Nat /\ Len(s) \in Nat /\ Len(s) <= n /\ \A k \in 1..n : t[k] \in Nat
  OBVIOUS
<1>4. \A k \in 1..Len(s) : s[k] \in Nat /\ s[k] <= t[k]
  OBVIOUS
<1>5. /\ h \in [0..n -> Nat] /\ Sum(t) = h[n] /\ h[0] = 0
      /\ \A k \in 1..n : h[k] = h[k - 1] + t[k]
  BY <1>2
<1> HIDE DEF n
<1>6. Hereditary(0..n, height, T)
  <2> SUFFICES ASSUME NEW x \in 0..n, \A y \in 0..n : height[y] < height[x] => y \in T
               PROVE  x \in T
    BY <1>3 DEF Hereditary
  <2>1. CASE x = 0
    BY <1>1, <1>3, <1>5, <2>1
  <2>2. CASE x # 0
    <3>1. x - 1 \in 0..n /\ x - 1 < x /\ x \in 1..n
      BY <1>3, <2>2
    <3>2. x - 1 \in T
      BY <3>1
    <3>3. h[x] = h[x - 1] + t[x] /\ t[x] \in Nat /\ h[x] \in Nat /\ h[x - 1] \in Nat
      BY <1>3, <1>5, <3>1
    <3>4. CASE x <= Len(s)
      <4>1. x \in 1..Len(s) /\ x - 1 \in 0..Len(s) /\ x - 1 <= Len(s)
        BY <1>3, <3>1, <3>4
      <4>2. f[x - 1] <= h[x - 1]
        BY <3>2, <4>1
      <4>3. /\ f[x] = f[x - 1] + s[x] /\ f[x - 1] \in Nat
            /\ s[x] \in Nat /\ s[x] <= t[x]
        BY <1>1, <1>4, <4>1
      <4>4. f[x] <= h[x]
        <5>1. \A a, b, c, d \in Nat : a <= b /\ c <= d => a + c <= b + d
          OBVIOUS
        <5>2. f[x - 1] + s[x] <= h[x - 1] + t[x]
          BY <3>3, <4>2, <4>3, <5>1
        <5> QED BY <3>3, <4>3, <5>2
      <4>5. x >= Len(s) => x = Len(s)
        BY <1>3, <3>4
      <4> QED BY <4>4, <4>5
    <3>5. CASE x > Len(s)
      <4>1. x - 1 >= Len(s) /\ ~(x <= Len(s))
        BY <1>3, <3>5
      <4>2. f[Len(s)] <= h[x - 1] /\ f[Len(s)] \in Nat
        BY <1>1, <1>3, <3>2, <4>1
      <4>3. f[Len(s)] <= h[x]
        BY <3>3, <4>2
      <4> QED BY <4>1, <4>3
    <3> QED BY <1>3, <3>4, <3>5
  <2> QED BY <2>1, <2>2
<1>7. T = 0..n
  <2> HIDE DEF T, height
  <2> QED BY <1>6, TreeInduction, Zenon
<1>8. f[Len(s)] <= h[n]
  <2>1. n \in 0..n /\ n >= Len(s)
    BY <1>3
  <2>2. n \in T
    BY <1>7, <2>1
  <2> QED BY <2>1, <2>2
<1> QED BY <1>1, <1>5, <1>8

LEMMA SumOfZeros ==
    ASSUME NEW s \in Seq(Nat), \A k \in 1..Len(s) : s[k] = 0
    PROVE  Sum(s) = 0
<1>1. PICK f \in [0..Len(s) -> Nat] :
         /\ Sum(s) = f[Len(s)] /\ f[0] = 0
         /\ \A k \in 1..Len(s) : f[k] = f[k - 1] + s[k]
  BY SumRecursion
<1> DEFINE n == Len(s)
           height == [k \in 0..n |-> k]
           T == {k \in 0..n : f[k] = 0}
<1>2. n \in Nat /\ f \in [0..n -> Nat] /\ \A k \in 1..n : f[k] = f[k - 1] + s[k] /\ s[k] = 0
  BY <1>1
<1> HIDE DEF n
<1>3. Hereditary(0..n, height, T)
  <2> SUFFICES ASSUME NEW x \in 0..n, \A y \in 0..n : height[y] < height[x] => y \in T
               PROVE  f[x] = 0
    BY <1>2 DEF Hereditary
  <2>1. CASE x = 0
    BY <1>1, <2>1
  <2>2. CASE x # 0
    <3>1. x - 1 \in 0..n /\ x - 1 < x /\ x \in 1..n
      BY <1>2, <2>2
    <3>2. f[x - 1] = 0
      BY <3>1
    <3>3. f[x] = f[x - 1] + s[x] /\ s[x] = 0
      BY <1>2, <3>1
    <3> HIDE DEF T, height
    <3> QED BY <3>2, <3>3
  <2> QED BY <2>1, <2>2
<1>4. T = 0..n
  <2> HIDE DEF T, height
  <2> QED BY <1>3, TreeInduction, Zenon
<1>5. n \in T
  BY <1>2, <1>4
<1> QED BY <1>1, <1>5 DEF n

LEMMA SumPositive ==
    ASSUME NEW s \in Seq(Nat), NEW j \in 1..Len(s), s[j] > 0
    PROVE  Sum(s) > 0
<1> DEFINE u == [k \in 1..j |-> s[k]]
<1>1. Len(s) \in Nat /\ j \in Nat /\ j >= 1 /\ \A k \in 1..j : s[k] \in Nat
  OBVIOUS
<1>2. u \in Seq(Nat) /\ Len(u) = j /\ u[j] = s[j] /\ \A k \in 1..j : u[k] <= s[k]
  BY <1>1
<1> HIDE DEF u
<1>3. PICK f \in [0..Len(u) -> Nat] :
         /\ Sum(u) = f[Len(u)] /\ f[0] = 0
         /\ \A k \in 1..Len(u) : f[k] = f[k - 1] + u[k]
  BY <1>2, SumRecursion
<1>4. j \in 1..Len(u) /\ j - 1 \in 0..Len(u)
  BY <1>1, <1>2
<1>5. Sum(u) = f[j - 1] + s[j] /\ f[j - 1] \in Nat /\ s[j] \in Nat
  BY <1>1, <1>2, <1>3, <1>4
<1>6. Sum(u) <= Sum(s)
  BY <1>1, <1>2, SumMonotone
<1>7. Sum(u) \in Nat /\ Sum(s) \in Nat
  BY <1>2, SumType
<1> QED BY <1>5, <1>6, <1>7
-----------------------------------------------------------------------------
Lookup == [Name -> SymbolRecord \cup {NoSym}]
Verdicts == [type : Type, errs : Nat]

\* The errors reported on the first j arguments of a call.
ErrsOf(args, j) == Sum([k \in 1..j |-> args[k].errs])

LEMMA ErrsType ==
    ASSUME NEW args \in Seq(Verdicts), NEW j \in 0..Len(args)
    PROVE  [k \in 1..j |-> args[k].errs] \in Seq(Nat) /\ ErrsOf(args, j) \in Nat
<1>1. j \in Nat /\ Len(args) \in Nat /\ \A k \in 1..j : args[k] \in Verdicts
  OBVIOUS
<1>2. [k \in 1..j |-> args[k].errs] \in [1..j -> Nat]
  BY <1>1 DEF Verdicts
<1>3. [k \in 1..j |-> args[k].errs] \in Seq(Nat)
  BY <1>1, <1>2
<1> QED BY <1>3, SumType DEF ErrsOf

\* The four ways check_expr takes a call.
CallTo(s, args, v) ==
    LET n == IF Len(s.params) < Len(args) THEN Len(s.params) ELSE Len(args)
        Wrong(j) == ~CheckTypeCompatibility(s.params[j], args[j].type)
    IN  \/ s = NoSym /\ v = Verdict("error", 0)
        \/ s # NoSym /\ s.kind # "func" /\ v = Verdict("error", 1)
        \/ /\ s # NoSym /\ s.kind = "func"
           /\ \E j \in 1..n : /\ Wrong(j) /\ \A m \in 1..(j - 1) : ~Wrong(m)
                              /\ v = Verdict("error", 1 + ErrsOf(args, j))
        \/ /\ s # NoSym /\ s.kind = "func" /\ \A j \in 1..n : ~Wrong(j)
           /\ v = Verdict(s.type, ErrsOf(args, n) + CountErrors(s.params, args))

LEMMA CallVerdict ==
    ASSUME NEW found \in Lookup, NEW id \in Name, NEW args \in Seq(Verdicts)
    PROVE  CallTo(found[id], args, CheckCall(found, id, args))
<1> DEFINE s == found[id]
           n == IF Len(s.params) < Len(args) THEN Len(s.params) ELSE Len(args)
           Wrong(j) == ~CheckTypeCompatibility(s.params[j], args[j].type)
           v == CheckCall(found, id, args)
<1>1. CASE s = NoSym
  BY <1>1 DEF CheckCall, CallTo
<1>2. CASE s # NoSym /\ s.kind # "func"
  BY <1>2 DEF CheckCall, CallTo
<1>3. CASE s # NoSym /\ s.kind = "func"
  <2>1. n \in Nat
    <3>1. s \in SymbolRecord
      BY <1>3 DEF Lookup
    <3>2. s.params \in Seq({"int", "car"})
      BY <3>1 DEF SymbolRecord
    <3> QED BY <3>2
  <2>2. CASE \E j \in 1..n : Wrong(j)
    <3> DEFINE J == {j \in 1..n : Wrong(j)}
               First(j) == j \in 1..n /\ Wrong(j) /\ \A m \in 1..(j - 1) : ~Wrong(m)
               first == CHOOSE j \in 1..n : Wrong(j) /\ \A m \in 1..(j - 1) : ~Wrong(m)
    <3>1. J # {} /\ J \in SUBSET Nat
      BY <2>1, <2>2
    <3>2. PICK j \in J : \A m \in J : j <= m
      <4> HIDE DEF J
      <4> QED BY <3>1, LeastNatural
    <3>3. First(j)
      <4> HIDE DEF Wrong
      <4>1. ASSUME NEW m \in 1..(j - 1) PROVE ~Wrong(m)
        <5>1. m \in 1..n /\ ~(j <= m)
          BY <2>1, <3>2
        <5> QED BY <3>2, <5>1
      <4> QED BY <3>2, <4>1
    <3>4. First(first)
      <4> HIDE DEF Wrong, n
      <4> QED BY <3>3
    <3>5. v = Verdict("error", 1 + ErrsOf(args, first))
      BY <1>3, <2>2 DEF CheckCall, ErrsOf
    <3> HIDE DEF first, v
    <3>6. \E i \in 1..n : /\ Wrong(i) /\ \A m \in 1..(i - 1) : ~Wrong(m)
                          /\ v = Verdict("error", 1 + ErrsOf(args, i))
      BY <3>4, <3>5
    <3> QED BY <1>3, <3>6 DEF CallTo, v
  <2>3. CASE \A j \in 1..n : ~Wrong(j)
    <3>1. v = Verdict(s.type, ErrsOf(args, n) + CountErrors(s.params, args))
      BY <1>3, <2>3 DEF CheckCall, ErrsOf
    <3> QED BY <1>3, <2>3, <3>1 DEF CallTo
  <2> QED BY <2>2, <2>3
<1> QED BY <1>1, <1>2, <1>3

\* A node's verdict is a verdict, and depends on those of its operands only.
LEMMA NodeType ==
    ASSUME NEW found \in Lookup, NEW x \in Expr, NEW of, \A p \in Parts(x) : of[p] \in Verdicts
    PROVE  CheckNode(found, x, of) \in Verdicts
<1>1. Verdict("error", 0) \in Verdicts /\ Verdict("void", 0) \in Verdicts /\ Verdict("int", 0) \in Verdicts
  BY DEF Verdict, Verdicts, Type
<1>2. CASE x.kind = "name"
  <2>1. found[x.id] \in SymbolRecord \cup {NoSym}
    <3>1. x.id \in Name
      BY <1>2, ExprAssumption
    <3> QED BY <3>1 DEF Lookup
  <2> QED BY <1>2, <2>1 DEF CheckNode, CheckName, Verdict, Verdicts, Type, SymbolRecord
<1>3. CASE x.kind = "call"
  <2> DEFINE args == [j \in DOMAIN x.args |-> of[x.args[j]]]
             s == found[x.id]
             v == CheckCall(found, x.id, args)
  <2>1. Operands(x) = x.args /\ x.args \in Seq(Expr) /\ x.id \in Name
    <3>1. Operands(x) = x.args
      BY <1>3 DEF Operands
    <3>2. Operands(x) \in Seq(Expr) /\ x.id \in Name
      BY <1>3, ExprAssumption
    <3> QED BY <3>1, <3>2
  <2>2. args \in Seq(Verdicts) /\ Len(args) = Len(x.args)
    <3>1. \A j \in DOMAIN x.args : x.args[j] \in Parts(x)
      BY <2>1 DEF Parts, Range
    <3> QED BY <2>1, <3>1
  <2>3. CallTo(s, args, v)
    <3> HIDE DEF args
    <3> QED BY <2>1, <2>2, CallVerdict
  <2>4. s \in SymbolRecord \cup {NoSym}
    BY <2>1 DEF Lookup
  <2>5. v \in Verdicts
    <3> HIDE DEF args, v, s
    <3>1. CASE s = NoSym
      BY <1>1, <2>3, <3>1 DEF CallTo, Verdict, Verdicts, Type
    <3>2. CASE s # NoSym
      <4>1. s.params \in Seq({"int", "car"}) /\ s.type \in Type
        BY <2>4, <3>2 DEF SymbolRecord, Type
      <4> DEFINE n == IF Len(s.params) < Len(args) THEN Len(s.params) ELSE Len(args)
      <4>2. n \in 0..Len(args)
        BY <2>2, <4>1
      <4>3. \A j \in 1..n : ErrsOf(args, j) \in Nat
        BY <2>2, <4>2, ErrsType
      <4>4. ErrsOf(args, n) + CountErrors(s.params, args) \in Nat
        BY <2>2, <4>2, ErrsType DEF CountErrors
      <4> QED BY <2>3, <3>2, <4>1, <4>3, <4>4 DEF CallTo, Verdict, Verdicts, Type
    <3> QED BY <3>1, <3>2
  <2> QED BY <1>3, <2>5 DEF CheckNode
<1>4. CASE x.kind \in {"arith", "comparison"}
  <2>1. x.left \in Parts(x) /\ x.right \in Parts(x)
    BY <1>4 DEF Parts, Operands, Range
  <2>2. of[x.left] \in Verdicts /\ of[x.right] \in Verdicts
    BY <2>1
  <2>3. of[x.left].errs + of[x.right].errs \in Nat
    BY <2>2 DEF Verdicts
  <2> QED BY <1>4, <2>2, <2>3 DEF CheckNode, CheckArith, CheckComparison, Verdict, Verdicts, Type
<1>5. CASE x.kind \notin {"name", "call", "arith", "comparison"}
  BY <1>1, <1>5 DEF CheckNode
<1> QED BY <1>2, <1>3, <1>4, <1>5

LEMMA NodeLooksBelow ==
    ASSUME NEW found, NEW x \in Expr, NEW of, NEW other, \A p \in Parts(x) : of[p] = other[p]
    PROVE  CheckNode(found, x, of) = CheckNode(found, x, other)
<1>1. CASE x.kind = "call"
  <2>1. Operands(x) = x.args /\ x.args \in Seq(Expr)
    BY <1>1, ExprAssumption DEF Operands
  <2>2. \A j \in DOMAIN x.args : of[x.args[j]] = other[x.args[j]]
    BY <2>1 DEF Parts, Range
  <2>3. [j \in DOMAIN x.args |-> of[x.args[j]]] = [j \in DOMAIN x.args |-> other[x.args[j]]]
    BY <2>2
  <2> QED BY <1>1, <2>3 DEF CheckNode
<1>2. CASE x.kind \in {"arith", "comparison"}
  <2>1. x.left \in Parts(x) /\ x.right \in Parts(x)
    BY <1>2 DEF Parts, Operands, Range
  <2> QED BY <1>2, <2>1 DEF CheckNode
<1>3. CASE x.kind \notin {"call", "arith", "comparison"}
  BY <1>3 DEF CheckNode
<1> QED BY <1>1, <1>2, <1>3

LEMMA PartsAreLower ==
    ASSUME NEW x \in Expr, NEW p \in Parts(x)
    PROVE  p \in Expr /\ Height[p] < Height[x]
<1>1. Operands(x) \in Seq(Expr) /\ Height[p] < Height[x]
  BY ExprAssumption
<1>2. p \in Range(Operands(x))
  BY DEF Parts
<1>3. p \in Expr
  <2> DEFINE s == Operands(x)
  <2>1. s \in Seq(Expr) /\ p \in Range(s)
    BY <1>1, <1>2
  <2> HIDE DEF s
  <2> QED BY <2>1 DEF Range
<1> QED BY <1>1, <1>3

\* check_expr gives every node the verdict its operands' verdicts make.
LEMMA CheckEveryNode ==
    ASSUME NEW found \in Lookup
    PROVE  \A x \in Expr :
              /\ Check(found, x) \in Verdicts
              /\ Check(found, x) = CheckNode(found, x, [y \in Expr |-> Check(found, y)])
<1> DEFINE G == [x \in Expr |-> [f \in [Expr -> Verdicts] |-> CheckNode(found, x, f)]]
           Total(f) == f = [x \in Expr |-> CheckNode(found, x, f)]
           verdict == CHOOSE f : Total(f)
<1>1. LooksBelow(Expr, Verdicts, Height, G)
  <2>1. Verdict("error", 0) \in Verdicts
    BY DEF Verdict, Verdicts, Type
  <2>2. ASSUME NEW x \in Expr, NEW f \in [Expr -> Verdicts] PROVE CheckNode(found, x, f) \in Verdicts
    <3>1. \A p \in Parts(x) : f[p] \in Verdicts
      BY PartsAreLower
    <3> QED BY <3>1, NodeType
  <2>3. ASSUME NEW x \in Expr, NEW f \in [Expr -> Verdicts], NEW h \in [Expr -> Verdicts],
               \A y \in Expr : Height[y] < Height[x] => f[y] = h[y]
        PROVE  G[x][f] = G[x][h]
    <3>1. \A p \in Parts(x) : f[p] = h[p]
      BY <2>3, PartsAreLower
    <3>2. CheckNode(found, x, f) = CheckNode(found, x, h)
      BY <3>1, NodeLooksBelow
    <3> QED BY <3>2
  <2>4. G \in [Expr -> [[Expr -> Verdicts] -> Verdicts]]
    BY <2>2
  <2> HIDE DEF G
  <2> QED BY <2>1, <2>3, <2>4, ExprAssumption DEF LooksBelow
<1>2. \E f : Total(f)
  <2>1. \E f : Recursive(Expr, Verdicts, G, f)
    <3> HIDE DEF G
    <3> QED BY <1>1, TreeRecursion, Zenon
  <2>2. PICK f : Recursive(Expr, Verdicts, G, f)
    BY <2>1
  <2>3. Total(f)
    BY <2>2 DEF Recursive
  <2> QED BY <2>3
<1>3. Total(verdict)
  <2> HIDE DEF Total
  <2> QED BY <1>2
<1>4. \A x \in Expr : Check(found, x) = verdict[x]
  BY DEF Check
<1> HIDE DEF verdict
<1>5. \A x \in Expr : verdict[x] = CheckNode(found, x, verdict)
  BY <1>3
<1> DEFINE T == {x \in Expr : verdict[x] \in Verdicts}
<1>6. Hereditary(Expr, Height, T)
  <2> SUFFICES ASSUME NEW x \in Expr, \A y \in Expr : Height[y] < Height[x] => y \in T
               PROVE  x \in T
    BY ExprAssumption DEF Hereditary
  <2>1. \A p \in Parts(x) : verdict[p] \in Verdicts
    BY PartsAreLower
  <2>2. verdict[x] \in Verdicts
    BY <1>5, <2>1, NodeType
  <2> QED BY <2>2
<1>7. T = Expr
  <2> HIDE DEF T
  <2> QED BY <1>6, TreeInduction, Zenon
<1>8. ASSUME NEW x \in Expr
      PROVE  CheckNode(found, x, verdict) = CheckNode(found, x, [y \in Expr |-> Check(found, y)])
  <2>1. \A p \in Parts(x) : verdict[p] = [y \in Expr |-> Check(found, y)][p]
    BY <1>4, PartsAreLower
  <2> QED BY <2>1, NodeLooksBelow
<1> QED BY <1>4, <1>5, <1>7, <1>8
-----------------------------------------------------------------------------
\* What symbol_search finds is a symbol or nothing.
LEMMA FoundType ==
    ASSUME IInv
    PROVE  Found(env) \in Lookup
<1>1. env \in Seq(Scope)
  BY DEF IInv, TableTypeOK
<1>2. ASSUME NEW x \in Name PROVE SymbolSearch(env, x) \in SymbolRecord \cup {NoSym}
  <2>1. SymbolSearch(env, x) = NoSym \/ \E m \in 1..Len(env) : SymbolSearch(env, x) = env[m][x]
    BY <1>1, FirstScope
  <2>2. \A m \in 1..Len(env) : env[m] \in Scope
    BY <1>1
  <2>3. \A m \in 1..Len(env) : env[m][x] \in Symbol \cup {NoSym}
    BY <2>2 DEF Scope
  <2> QED BY <2>1, <2>3, SymbolAssumption
<1> QED BY <1>2 DEF Found, Lookup

LEMMA CheckedCall ==
    ASSUME NEW found \in Lookup, NEW x \in Expr, x.kind = "call",
           NEW args, args = [j \in DOMAIN x.args |-> Check(found, x.args[j])]
    PROVE  /\ x.id \in Name /\ x.args \in Seq(Expr) /\ Operands(x) = x.args
           /\ args \in Seq(Verdicts) /\ Len(args) = Len(x.args)
           /\ CallTo(found[x.id], args, Check(found, x))
<1>1. Operands(x) = x.args
  BY DEF Operands
<1>2. x.args \in Seq(Expr) /\ x.id \in Name
  BY <1>1, ExprAssumption
<1>3. \A y \in Expr : Check(found, y) \in Verdicts
  BY CheckEveryNode
<1>4. args \in Seq(Verdicts) /\ Len(args) = Len(x.args)
  BY <1>2, <1>3
<1> DEFINE of == [y \in Expr |-> Check(found, y)]
<1>5. args = [j \in DOMAIN x.args |-> of[x.args[j]]]
  BY <1>2
<1>6. Check(found, x) = CheckNode(found, x, of)
  BY CheckEveryNode
<1>7. CheckNode(found, x, of) = CheckCall(found, x.id, [j \in DOMAIN x.args |-> of[x.args[j]]])
  BY DEF CheckNode
<1>8. Check(found, x) = CheckCall(found, x.id, args)
  BY <1>5, <1>6, <1>7
<1> QED BY <1>1, <1>2, <1>4, <1>8, CallVerdict

LEMMA CheckedOperator ==
    ASSUME NEW found \in Lookup, NEW x \in Expr, x.kind \in {"arith", "comparison"}
    PROVE  /\ Operands(x) = <<x.left, x.right>>
           /\ x.left \in Parts(x) /\ x.right \in Parts(x) /\ x.left \in Expr /\ x.right \in Expr
           /\ Check(found, x) = IF x.kind = "arith"
                                THEN CheckArith(Check(found, x.left), Check(found, x.right))
                                ELSE CheckComparison(Check(found, x.left), Check(found, x.right))
<1>1. Operands(x) = <<x.left, x.right>>
  BY DEF Operands
<1>2. x.left \in Parts(x) /\ x.right \in Parts(x)
  BY <1>1 DEF Parts, Range
<1>3. x.left \in Expr /\ x.right \in Expr
  BY <1>2, PartsAreLower
<1> DEFINE of == [y \in Expr |-> Check(found, y)]
<1>4. of[x.left] = Check(found, x.left) /\ of[x.right] = Check(found, x.right)
  BY <1>3
<1>5. Check(found, x) = CheckNode(found, x, of)
  BY CheckEveryNode
<1> HIDE DEF of
<1>6. CheckNode(found, x, of) = IF x.kind = "arith" THEN CheckArith(of[x.left], of[x.right])
                                ELSE CheckComparison(of[x.left], of[x.right])
  BY DEF CheckNode
<1> QED BY <1>1, <1>2, <1>3, <1>4, <1>5, <1>6

LEMMA CheckedLeaf ==
    ASSUME NEW found \in Lookup, NEW x \in Expr, x.kind \notin {"call", "arith", "comparison"}
    PROVE  /\ Check(found, x).errs = 0
           /\ Check(found, x) = IF x.kind = "null" THEN Verdict("void", 0)
                                ELSE IF x.kind = "name" THEN CheckName(found, x.id)
                                ELSE Verdict("int", 0)
<1> DEFINE of == [y \in Expr |-> Check(found, y)]
<1>1. Check(found, x) = CheckNode(found, x, of)
  BY CheckEveryNode
<1> HIDE DEF of
<1>2. Check(found, x) = IF x.kind = "null" THEN Verdict("void", 0)
                        ELSE IF x.kind = "name" THEN CheckName(found, x.id)
                        ELSE Verdict("int", 0)
  BY <1>1 DEF CheckNode
<1> QED BY <1>2 DEF CheckName, Verdict
-----------------------------------------------------------------------------
\* A call without a report has the arguments its function wants, or is of a name
\* that is not declared.
LEMMA QuietCall ==
    ASSUME IInv
    PROVE  QuietCallsFitOrAreUndeclared
<1> DEFINE found == Found(env)
<1>1. found \in Lookup
  BY FoundType
<1> SUFFICES ASSUME NEW x \in Expr, x.kind = "call", Check(found, x).errs = 0,
                    NEW s, s = SymbolSearch(env, x.id)
             PROVE  IF s = NoSym THEN Check(found, x).type = "error"
                    ELSE /\ s.kind = "func" /\ Len(s.params) = Len(x.args)
                         /\ \A j \in DOMAIN x.args :
                               CheckTypeCompatibility(s.params[j], Check(found, x.args[j]).type)
  BY DEF QuietCallsFitOrAreUndeclared
<1> DEFINE args == [j \in DOMAIN x.args |-> Check(found, x.args[j])]
           n == IF Len(s.params) < Len(args) THEN Len(s.params) ELSE Len(args)
<1>2. /\ x.id \in Name /\ x.args \in Seq(Expr)
      /\ args \in Seq(Verdicts) /\ Len(args) = Len(x.args)
      /\ CallTo(found[x.id], args, Check(found, x))
  <2> HIDE DEF found
  <2> QED BY <1>1, CheckedCall
<1>3. found[x.id] = s
  BY <1>2 DEF Found
<1>4. s # NoSym => s.params \in Seq({"int", "car"})
  BY <1>1, <1>2, <1>3 DEF Lookup, SymbolRecord
<1> HIDE DEF found, args
<1>5. CASE s = NoSym
  BY <1>2, <1>3, <1>5 DEF CallTo, Verdict
<1>6. CASE s # NoSym
  <2>1. s.kind = "func"
    BY <1>2, <1>3, <1>6 DEF CallTo, Verdict
  <2>2. n \in 0..Len(args)
    BY <1>2, <1>4, <1>6
  <2>3. \A j \in 0..n : ErrsOf(args, j) \in Nat
    <3> SUFFICES ASSUME NEW j \in 0..n PROVE ErrsOf(args, j) \in Nat
      OBVIOUS
    <3>1. j \in 0..Len(args)
      BY <1>2, <2>2
    <3> QED BY <1>2, <3>1, ErrsType
  <2>4. \A j \in 1..n : Check(found, x) # Verdict("error", 1 + ErrsOf(args, j))
    BY <2>3 DEF Verdict
  <2>5. /\ \A j \in 1..n : CheckTypeCompatibility(s.params[j], args[j].type)
        /\ Check(found, x) = Verdict(s.type, ErrsOf(args, n) + CountErrors(s.params, args))
    BY <1>2, <1>3, <1>6, <2>1, <2>4 DEF CallTo
  <2>6. ErrsOf(args, n) \in Nat
    BY <2>2, <2>3
  <2>7. CountErrors(s.params, args) = 0
    BY <2>5, <2>6 DEF CountErrors, Verdict
  <2>8. Len(s.params) = Len(args)
    BY <2>7 DEF CountErrors
  <2>9. ASSUME NEW j \in DOMAIN x.args
        PROVE  CheckTypeCompatibility(s.params[j], Check(found, x.args[j]).type)
    <3>1. j \in 1..n /\ args[j] = Check(found, x.args[j])
      BY <1>2, <2>8 DEF args
    <3> QED BY <2>5, <3>1
  <2> QED BY <1>2, <1>6, <2>1, <2>8, <2>9
<1> QED BY <1>5, <1>6

\* Whether an expression calls an undeclared name, by its operands.
LEMMA CallsEveryNode ==
    ASSUME NEW found
    PROVE  \A x \in Expr : CallsUndeclared(found, x) <=>
              \/ x.kind = "call" /\ found[x.id] = NoSym
              \/ \E p \in Parts(x) : CallsUndeclared(found, p)
<1> DEFINE Undeclared(x) == x.kind = "call" /\ found[x.id] = NoSym
           Total(f) == f = [x \in Expr |-> Undeclared(x) \/ \E p \in Parts(x) : f[p]]
           calls == CHOOSE f : Total(f)
           G == [x \in Expr |-> [f \in [Expr -> BOOLEAN] |->
                    Undeclared(x) \/ \E p \in Parts(x) : f[p]]]
<1>1. LooksBelow(Expr, BOOLEAN, Height, G)
  <2>1. G \in [Expr -> [[Expr -> BOOLEAN] -> BOOLEAN]]
    OBVIOUS
  <2>2. ASSUME NEW x \in Expr, NEW f \in [Expr -> BOOLEAN], NEW h \in [Expr -> BOOLEAN],
               \A y \in Expr : Height[y] < Height[x] => f[y] = h[y]
        PROVE  G[x][f] = G[x][h]
    <3>1. \A p \in Parts(x) : f[p] = h[p]
      BY <2>2, PartsAreLower
    <3> QED BY <3>1
  <2> HIDE DEF G
  <2> QED BY <2>1, <2>2, ExprAssumption DEF LooksBelow
<1>2. \E f : Total(f)
  <2>1. \E f : Recursive(Expr, BOOLEAN, G, f)
    <3> HIDE DEF G
    <3> QED BY <1>1, TreeRecursion, Zenon
  <2>2. PICK f : Recursive(Expr, BOOLEAN, G, f)
    BY <2>1
  <2>3. Total(f)
    BY <2>2 DEF Recursive
  <2> QED BY <2>3
<1>3. Total(calls)
  <2> HIDE DEF Total
  <2> QED BY <1>2
<1>4. \A x \in Expr : CallsUndeclared(found, x) = calls[x]
  BY DEF CallsUndeclared
<1> HIDE DEF calls, G
<1>5. \A x \in Expr : calls[x] = (Undeclared(x) \/ \E p \in Parts(x) : calls[p])
  BY <1>3
<1> SUFFICES ASSUME NEW x \in Expr
             PROVE  CallsUndeclared(found, x) <=>
                       Undeclared(x) \/ \E p \in Parts(x) : CallsUndeclared(found, p)
  OBVIOUS
<1>6. \A p \in Parts(x) : CallsUndeclared(found, p) = calls[p]
  BY <1>4, PartsAreLower
<1> QED BY <1>4, <1>5, <1>6

\* Whether every part of an expression fits, by its operands.
LEMMA TypedEveryNode ==
    ASSUME NEW found
    PROVE  \A x \in Expr : WellTyped(found, x) <=>
              Fits(found, x) /\ \A p \in Parts(x) : WellTyped(found, p)
<1> DEFINE Total(f) == f = [x \in Expr |-> Fits(found, x) /\ \A p \in Parts(x) : f[p]]
           right == CHOOSE f : Total(f)
           G == [x \in Expr |-> [f \in [Expr -> BOOLEAN] |->
                    Fits(found, x) /\ \A p \in Parts(x) : f[p]]]
<1>1. LooksBelow(Expr, BOOLEAN, Height, G)
  <2>1. G \in [Expr -> [[Expr -> BOOLEAN] -> BOOLEAN]]
    OBVIOUS
  <2>2. ASSUME NEW x \in Expr, NEW f \in [Expr -> BOOLEAN], NEW h \in [Expr -> BOOLEAN],
               \A y \in Expr : Height[y] < Height[x] => f[y] = h[y]
        PROVE  G[x][f] = G[x][h]
    <3>1. \A p \in Parts(x) : f[p] = h[p]
      BY <2>2, PartsAreLower
    <3> QED BY <3>1
  <2> HIDE DEF G
  <2> QED BY <2>1, <2>2, ExprAssumption DEF LooksBelow
<1>2. \E f : Total(f)
  <2>1. \E f : Recursive(Expr, BOOLEAN, G, f)
    <3> HIDE DEF G
    <3> QED BY <1>1, TreeRecursion, Zenon
  <2>2. PICK f : Recursive(Expr, BOOLEAN, G, f)
    BY <2>1
  <2>3. Total(f)
    BY <2>2 DEF Recursive
  <2> QED BY <2>3
<1>3. Total(right)
  <2> HIDE DEF Total
  <2> QED BY <1>2
<1>4. \A x \in Expr : WellTyped(found, x) = right[x]
  BY DEF WellTyped
<1> HIDE DEF right, G
<1>5. \A x \in Expr : right[x] = (Fits(found, x) /\ \A p \in Parts(x) : right[p])
  BY <1>3
<1> SUFFICES ASSUME NEW x \in Expr
             PROVE  WellTyped(found, x) <=>
                       Fits(found, x) /\ \A p \in Parts(x) : WellTyped(found, p)
  OBVIOUS
<1>6. \A p \in Parts(x) : WellTyped(found, p) = right[p]
  BY <1>4, PartsAreLower
<1> QED BY <1>4, <1>5, <1>6

\* T_ERROR without a report comes from a call of a name that is not declared.
LEMMA SilentError ==
    ASSUME IInv
    PROVE  SilentErrorsAreCalls
<1> DEFINE found == Found(env)
<1>1. found \in Lookup
  BY FoundType
<1>6. \A x \in Expr : CallsUndeclared(found, x) <=>
         \/ x.kind = "call" /\ found[x.id] = NoSym
         \/ \E p \in Parts(x) : CallsUndeclared(found, p)
  <2> HIDE DEF found
  <2> QED BY CallsEveryNode
<1> DEFINE T == {x \in Expr : Check(found, x) = Verdict("error", 0) => CallsUndeclared(found, x)}
<1>7. \A y \in Expr : Check(found, y) \in Verdicts
  <2> HIDE DEF found
  <2> QED BY <1>1, CheckEveryNode
<1>8. Hereditary(Expr, Height, T)
  <2> SUFFICES ASSUME NEW x \in Expr, \A y \in Expr : Height[y] < Height[x] => y \in T,
                      Check(found, x) = Verdict("error", 0)
               PROVE  CallsUndeclared(found, x)
    BY ExprAssumption DEF Hereditary
  <2>1. ASSUME NEW p \in Parts(x), Check(found, p) = Verdict("error", 0)
        PROVE  CallsUndeclared(found, x)
    <3>1. CallsUndeclared(found, p)
      BY <2>1, PartsAreLower
    <3> QED BY <1>6, <3>1
  <2>2. CASE x.kind = "call"
    <3> DEFINE args == [j \in DOMAIN x.args |-> Check(found, x.args[j])]
               s == found[x.id]
               n == IF Len(s.params) < Len(args) THEN Len(s.params) ELSE Len(args)
    <3>1. /\ x.id \in Name /\ args \in Seq(Verdicts)
          /\ CallTo(s, args, Check(found, x))
      <4> HIDE DEF found
      <4> QED BY <1>1, <2>2, CheckedCall
    <3>3. CASE s = NoSym
      BY <1>6, <2>2, <3>3
    <3>4. CASE s # NoSym
      <4>1. s.type # "error" /\ s.params \in Seq({"int", "car"})
        BY <1>1, <3>1, <3>4 DEF Lookup, SymbolRecord
      <4> HIDE DEF found, args, s
      <4>2. n \in 0..Len(args)
        BY <3>1, <4>1
      <4>3. \A j \in 1..n : 1 + ErrsOf(args, j) # 0
        <5> SUFFICES ASSUME NEW j \in 1..n PROVE ErrsOf(args, j) \in Nat
          OBVIOUS
        <5>1. j \in 0..Len(args)
          BY <3>1, <4>2
        <5> QED BY <3>1, <5>1, ErrsType
      <4>4. CallTo(s, args, Verdict("error", 0))
        BY <3>1
      <4>5. s.kind = "func" /\ Verdict("error", 0) # Verdict("error", 1)
        BY <3>4, <4>4 DEF CallTo, Verdict
      <4>6. \A j \in 1..n : Verdict("error", 0) # Verdict("error", 1 + ErrsOf(args, j))
        BY <4>3 DEF Verdict
      <4>7. Verdict("error", 0) # Verdict(s.type, ErrsOf(args, n) + CountErrors(s.params, args))
        BY <4>1 DEF Verdict
      <4> QED BY <3>4, <4>4, <4>5, <4>6, <4>7 DEF CallTo
    <3> QED BY <3>3, <3>4
  <2>3. CASE x.kind \in {"arith", "comparison"}
    <3> DEFINE l == Check(found, x.left)
               r == Check(found, x.right)
    <3>1. /\ x.left \in Parts(x) /\ x.right \in Parts(x) /\ l \in Verdicts /\ r \in Verdicts
          /\ Check(found, x) = IF x.kind = "arith" THEN CheckArith(l, r) ELSE CheckComparison(l, r)
      <4> HIDE DEF found
      <4> QED BY <1>1, <1>7, <2>3, CheckedOperator
    <3> HIDE DEF l, r
    <3>2. l.errs \in Nat /\ r.errs \in Nat
      BY <3>1 DEF Verdicts
    <3>3. CASE x.kind = "comparison"
      BY <3>1, <3>2, <3>3 DEF CheckComparison, Verdict
    <3>4. CASE x.kind = "arith"
      <4>1. (l.type = "error" \/ r.type = "error") /\ l.errs + r.errs = 0
        BY <3>1, <3>2, <3>4 DEF CheckArith, Verdict
      <4>2. l.errs = 0 /\ r.errs = 0
        BY <3>2, <4>1
      <4>3. l = Verdict("error", 0) \/ r = Verdict("error", 0)
        BY <3>1, <4>1, <4>2 DEF Verdict, Verdicts
      <4> QED BY <2>1, <3>1, <4>3 DEF l, r
    <3> QED BY <2>3, <3>3, <3>4
  <2>4. CASE x.kind \notin {"call", "arith", "comparison"}
    <3>1. Check(found, x) = IF x.kind = "null" THEN Verdict("void", 0)
                            ELSE IF x.kind = "name" THEN CheckName(found, x.id)
                            ELSE Verdict("int", 0)
      <4> HIDE DEF found
      <4> QED BY <1>1, <2>4, CheckedLeaf
    <3>2. x.kind = "name" => found[x.id] \in SymbolRecord \cup {NoSym}
      BY <1>1, ExprAssumption DEF Lookup
    <3> HIDE DEF found
    <3> QED BY <3>1, <3>2 DEF CheckName, Verdict, SymbolRecord
  <2> QED BY <2>2, <2>3, <2>4
<1>9. T = Expr
  <2> HIDE DEF T
  <2> QED BY <1>8, TreeInduction, Zenon
<1> QED BY <1>9 DEF SilentErrorsAreCalls

\* Every node adds one report at most to those of its operands.
LEMMA ReportsAreBounded ==
    ASSUME IInv
    PROVE  AtMostOneReportPerNode
<1> DEFINE found == Found(env)
           own(x) == IF Parts(x) = {} /\ x.kind # "call" THEN 0 ELSE 1
           below(f, x) == [j \in DOMAIN Operands(x) |-> f[Operands(x)[j]]]
           Total(f) == f = [x \in Expr |->
                               LET own1 == IF Parts(x) = {} /\ x.kind # "call" THEN 0 ELSE 1
                               IN  own1 + Sum([j \in DOMAIN Operands(x) |-> f[Operands(x)[j]]])]
           reporters == CHOOSE f : Total(f)
           G == [x \in Expr |-> [f \in [Expr -> Nat] |-> own(x) + Sum(below(f, x))]]
<1>1. found \in Lookup
  BY FoundType
<1>2. ASSUME NEW x \in Expr, NEW f, \A p \in Parts(x) : f[p] \in Nat
      PROVE  below(f, x) \in Seq(Nat) /\ own(x) + Sum(below(f, x)) \in Nat
  <2>1. Operands(x) \in Seq(Expr) /\ \A j \in DOMAIN Operands(x) : Operands(x)[j] \in Parts(x)
    BY ExprAssumption DEF Parts, Range
  <2>2. below(f, x) \in Seq(Nat)
    BY <1>2, <2>1
  <2>3. Sum(below(f, x)) \in Nat
    <3> HIDE DEF below
    <3> QED BY <2>2, SumType
  <2>4. own(x) \in Nat
    OBVIOUS
  <2> HIDE DEF own, below
  <2> QED BY <2>2, <2>3, <2>4
<1>3. LooksBelow(Expr, Nat, Height, G)
  <2>1. G \in [Expr -> [[Expr -> Nat] -> Nat]]
    <3> SUFFICES ASSUME NEW x \in Expr, NEW f \in [Expr -> Nat]
                 PROVE  own(x) + Sum(below(f, x)) \in Nat
      OBVIOUS
    <3>1. \A p \in Parts(x) : f[p] \in Nat
      BY PartsAreLower
    <3> HIDE DEF own, below
    <3> QED BY <1>2, <3>1
  <2>2. ASSUME NEW x \in Expr, NEW f \in [Expr -> Nat], NEW h \in [Expr -> Nat],
               \A y \in Expr : Height[y] < Height[x] => f[y] = h[y]
        PROVE  G[x][f] = G[x][h]
    <3>1. \A p \in Parts(x) : f[p] = h[p]
      BY <2>2, PartsAreLower
    <3>2. \A j \in DOMAIN Operands(x) : Operands(x)[j] \in Parts(x)
      BY DEF Parts, Range
    <3>3. below(f, x) = below(h, x)
      BY <3>1, <3>2
    <3> HIDE DEF own, below
    <3> QED BY <3>3
  <2>3. Nat # {}
    OBVIOUS
  <2> HIDE DEF G
  <2> QED BY <2>1, <2>2, <2>3, ExprAssumption DEF LooksBelow
<1>4. \E f : Total(f)
  <2>1. \E f : Recursive(Expr, Nat, G, f)
    <3> HIDE DEF G
    <3> QED BY <1>3, TreeRecursion, Zenon
  <2>2. PICK f : Recursive(Expr, Nat, G, f)
    BY <2>1
  <2>3. Total(f)
    BY <2>2 DEF Recursive
  <2> QED BY <2>3
<1>5. Total(reporters)
  <2> HIDE DEF Total
  <2> QED BY <1>4
<1>6. AtMostOneReportPerNode <=> \A x \in Expr : Check(found, x).errs <= reporters[x]
  BY DEF AtMostOneReportPerNode
<1> HIDE DEF reporters, G
<1>7. \A x \in Expr : reporters[x] = own(x) + Sum(below(reporters, x))
  BY <1>5
<1>8. \A y \in Expr : Check(found, y) \in Verdicts
  <2> HIDE DEF found
  <2> QED BY <1>1, CheckEveryNode
<1> DEFINE T == {x \in Expr : reporters[x] \in Nat /\ Check(found, x).errs <= reporters[x]}
<1>9. Hereditary(Expr, Height, T)
  <2> SUFFICES ASSUME NEW x \in Expr, \A y \in Expr : Height[y] < Height[x] => y \in T
               PROVE  reporters[x] \in Nat /\ Check(found, x).errs <= reporters[x]
    BY ExprAssumption DEF Hereditary
  <2> DEFINE rs == below(reporters, x)
  <2>1. \A p \in Parts(x) : reporters[p] \in Nat /\ Check(found, p).errs <= reporters[p]
    BY PartsAreLower
  <2>2. rs \in Seq(Nat) /\ reporters[x] \in Nat /\ Sum(rs) \in Nat /\ reporters[x] = own(x) + Sum(rs)
    <3>1. rs \in Seq(Nat) /\ own(x) + Sum(rs) \in Nat
      BY <1>2, <2>1
    <3>2. Sum(rs) \in Nat
      <4> HIDE DEF rs
      <4> QED BY <3>1, SumType
    <3> HIDE DEF own, below
    <3> QED BY <1>7, <3>1, <3>2
  <2>3. \A j \in DOMAIN Operands(x) : Operands(x)[j] \in Parts(x)
    BY DEF Parts, Range
  <2>4. Len(rs) = Len(Operands(x)) /\ \A j \in 1..Len(rs) : rs[j] = reporters[Operands(x)[j]]
    <3>1. Operands(x) \in Seq(Expr)
      BY ExprAssumption
    <3> QED BY <3>1
  <2>5. CASE x.kind = "call"
    <3> DEFINE args == [j \in DOMAIN x.args |-> Check(found, x.args[j])]
               s == found[x.id]
               n == IF Len(s.params) < Len(args) THEN Len(s.params) ELSE Len(args)
    <3>1. /\ x.id \in Name /\ args \in Seq(Verdicts) /\ Operands(x) = x.args
          /\ Len(args) = Len(x.args) /\ x.args \in Seq(Expr)
          /\ CallTo(s, args, Check(found, x))
      <4> HIDE DEF found
      <4> QED BY <1>1, <2>5, CheckedCall
    <3>2. \A j \in 1..Len(args) : args[j].errs <= rs[j]
      <4> SUFFICES ASSUME NEW j \in 1..Len(args) PROVE args[j].errs <= rs[j]
        OBVIOUS
      <4>1. j \in DOMAIN x.args /\ args[j] = Check(found, x.args[j])
        BY <3>1
      <4>2. x.args[j] \in Parts(x) /\ rs[j] = reporters[x.args[j]]
        BY <2>3, <2>4, <3>1, <4>1
      <4> HIDE DEF args, rs
      <4> QED BY <2>1, <4>1, <4>2
    <3>3. s # NoSym => s.params \in Seq({"int", "car"})
      BY <1>1, <3>1 DEF Lookup, SymbolRecord
    <3>4. own(x) = 1
      BY <2>5
    <3> HIDE DEF args, rs, found, own, s
    <3>5. ASSUME NEW j \in 0..Len(args) PROVE ErrsOf(args, j) \in Nat /\ ErrsOf(args, j) <= Sum(rs)
      <4> DEFINE es == [k \in 1..j |-> args[k].errs]
      <4>1. es \in Seq(Nat) /\ ErrsOf(args, j) \in Nat
        BY <3>1, ErrsType
      <4>2. Len(es) = j /\ j <= Len(rs) /\ Len(args) \in Nat
        BY <2>4, <3>1
      <4>3. \A k \in 1..Len(es) : es[k] <= rs[k]
        BY <3>2, <4>2
      <4>4. Sum(es) = ErrsOf(args, j)
        BY DEF ErrsOf
      <4> HIDE DEF es
      <4> QED BY <2>2, <4>1, <4>2, <4>3, <4>4, SumMonotone
    <3>6. CASE s = NoSym \/ s.kind # "func"
      <4>1. Check(found, x).errs \in {0, 1}
        BY <3>1, <3>6 DEF CallTo, Verdict
      <4> QED BY <2>2, <3>4, <4>1
    <3>7. CASE s # NoSym /\ s.kind = "func"
      <4>1. n \in 0..Len(args)
        BY <3>1, <3>3, <3>7
      <4>2. CASE \E j \in 1..n : Check(found, x) = Verdict("error", 1 + ErrsOf(args, j))
        <5>1. PICK j \in 1..n : Check(found, x) = Verdict("error", 1 + ErrsOf(args, j))
          BY <4>2
        <5>2. j \in 0..Len(args)
          BY <3>1, <4>1
        <5>3. Check(found, x).errs = 1 + ErrsOf(args, j)
          BY <5>1 DEF Verdict
        <5> QED BY <2>2, <3>4, <3>5, <5>2, <5>3
      <4>3. CASE Check(found, x) = Verdict(s.type, ErrsOf(args, n) + CountErrors(s.params, args))
        <5>1. Check(found, x).errs \in {ErrsOf(args, n), ErrsOf(args, n) + 1}
          BY <3>5, <4>1, <4>3 DEF Verdict, CountErrors
        <5> QED BY <2>2, <3>4, <3>5, <4>1, <5>1
      <4> QED BY <3>1, <3>7, <4>2, <4>3 DEF CallTo
    <3> QED BY <2>2, <3>6, <3>7
  <2>6. CASE x.kind \in {"arith", "comparison"}
    <3> DEFINE l == Check(found, x.left)
               r == Check(found, x.right)
               es == <<l.errs, r.errs>>
    <3>1. /\ Operands(x) = <<x.left, x.right>>
          /\ x.left \in Parts(x) /\ x.right \in Parts(x) /\ l \in Verdicts /\ r \in Verdicts
          /\ Check(found, x) = IF x.kind = "arith" THEN CheckArith(l, r) ELSE CheckComparison(l, r)
      <4> HIDE DEF found
      <4> QED BY <1>1, <1>8, <2>6, CheckedOperator
    <3>2. Len(rs) = 2 /\ rs[1] = reporters[x.left] /\ rs[2] = reporters[x.right]
      BY <2>4, <3>1
    <3>3. l.errs <= rs[1] /\ r.errs <= rs[2]
      BY <2>1, <3>1, <3>2
    <3>4. own(x) = 1
      BY <3>1
    <3> HIDE DEF l, r, rs, own
    <3>5. l.errs \in Nat /\ r.errs \in Nat
      BY <3>1 DEF Verdicts
    <3>6. Sum(rs) = rs[1] + rs[2] /\ rs[1] \in Nat /\ rs[2] \in Nat
      <4>1. PICK total \in [0..Len(rs) -> Nat] :
               /\ Sum(rs) = total[Len(rs)] /\ total[0] = 0
               /\ \A k \in 1..Len(rs) : total[k] = total[k - 1] + rs[k]
        BY <2>2, SumRecursion
      <4>2. total[1] = total[0] + rs[1] /\ total[2] = total[1] + rs[2]
        BY <3>2, <4>1
      <4>3. rs[1] \in Nat /\ rs[2] \in Nat
        <5>1. 1 \in 1..Len(rs) /\ 2 \in 1..Len(rs)
          BY <3>2
        <5> QED BY <2>2, <5>1, ElementOfSeq
      <4> QED BY <3>2, <4>1, <4>2, <4>3
    <3>7. Check(found, x).errs \in {l.errs + r.errs, l.errs + r.errs + 1}
      BY <3>1 DEF CheckArith, CheckComparison, Verdict
    <3>8. reporters[x] = 1 + (rs[1] + rs[2])
      BY <2>2, <3>4, <3>6
    <3>9. l.errs + r.errs + 1 <= 1 + (rs[1] + rs[2]) /\ l.errs + r.errs <= 1 + (rs[1] + rs[2])
      BY <3>3, <3>5, <3>6
    <3>10. Check(found, x).errs <= reporters[x]
      BY <3>7, <3>8, <3>9
    <3> QED BY <2>2, <3>10
  <2>7. CASE x.kind \notin {"call", "arith", "comparison"}
    <3>1. Check(found, x).errs = 0
      <4> HIDE DEF found
      <4> QED BY <1>1, <2>7, CheckedLeaf
    <3> QED BY <2>2, <3>1
  <2> QED BY <2>5, <2>6, <2>7
<1>10. T = Expr
  <2> HIDE DEF T
  <2> QED BY <1>9, TreeInduction, Zenon
<1> QED BY <1>6, <1>10

-----------------------------------------------------------------------------
\* check_expr judges an expression as the typing rules do.
Judges(found, x) ==
    IF WellTyped(found, x) THEN Check(found, x) = Verdict(TypeOf(found, x), 0)
    ELSE Check(found, x).errs > 0

\* The compatible types, and the types there are without an undeclared call.
LEMMA NumericTypes ==
    /\ \A t : CheckTypeCompatibility("int", t) <=> t \in Numeric
    /\ \A t \in Numeric : \A u : CheckTypeCompatibility(t, u) <=> u \in Numeric
    /\ \A t, u : CheckTypeCompatibility(t, u) \/ CheckTypeCompatibility(u, t) <=>
                    t = u \/ {t, u} \subseteq Numeric
BY DEF CheckTypeCompatibility, Numeric

LEMMA DeclaredType ==
    ASSUME NEW found \in Lookup, NEW x \in Expr, ~CallsUndeclared(found, x)
    PROVE  TypeOf(found, x) # "error"
<1>1. x.kind = "call" => found[x.id] # NoSym
  BY CallsEveryNode
<1>2. x.kind \in {"name", "call"} => found[x.id] \in SymbolRecord \cup {NoSym}
  BY ExprAssumption DEF Lookup
<1> QED BY <1>1, <1>2 DEF TypeOf, SymbolRecord

\* An expression without operands is well typed.
LEMMA LeafIsJudged ==
    ASSUME NEW found \in Lookup, NEW x \in Expr, x.kind \notin {"call", "arith", "comparison"}
    PROVE  Judges(found, x)
<1>1. Parts(x) = {}
  BY DEF Parts, Operands, Range
<1>2. Fits(found, x)
  BY DEF Fits
<1>3. WellTyped(found, x)
  BY <1>1, <1>2, TypedEveryNode
<1>4. Check(found, x) = Verdict(TypeOf(found, x), 0)
  BY CheckedLeaf DEF TypeOf, CheckName
<1> QED BY <1>3, <1>4 DEF Judges

LEMMA OperatorIsJudged ==
    ASSUME NEW found \in Lookup, NEW x \in Expr, x.kind \in {"arith", "comparison"},
           \A p \in Parts(x) : Judges(found, p) /\ TypeOf(found, p) # "error"
    PROVE  Judges(found, x)
<1> DEFINE l == Check(found, x.left)
           r == Check(found, x.right)
           tl == TypeOf(found, x.left)
           tr == TypeOf(found, x.right)
<1>1. /\ Operands(x) = <<x.left, x.right>>
      /\ x.left \in Parts(x) /\ x.right \in Parts(x) /\ x.left \in Expr /\ x.right \in Expr
      /\ Check(found, x) = IF x.kind = "arith" THEN CheckArith(l, r) ELSE CheckComparison(l, r)
  BY CheckedOperator
<1>2. l.errs \in Nat /\ r.errs \in Nat
  BY <1>1, CheckEveryNode DEF Verdicts
<1>3. Parts(x) = {x.left, x.right}
  BY <1>1 DEF Parts, Range
<1>4. WellTyped(found, x) <=>
         Fits(found, x) /\ WellTyped(found, x.left) /\ WellTyped(found, x.right)
  BY <1>3, TypedEveryNode
<1>5. /\ Fits(found, x) <=> IF x.kind = "arith" THEN {tl, tr} \subseteq Numeric
                            ELSE tl = tr \/ {tl, tr} \subseteq Numeric
      /\ TypeOf(found, x) = "int"
  BY DEF Fits, TypeOf
<1>6. /\ IF WellTyped(found, x.left) THEN l = Verdict(tl, 0) ELSE l.errs > 0
      /\ IF WellTyped(found, x.right) THEN r = Verdict(tr, 0) ELSE r.errs > 0
      /\ tl # "error" /\ tr # "error"
  BY <1>1 DEF Judges
<1> HIDE DEF l, r, tl, tr
<1>7. CASE ~(WellTyped(found, x.left) /\ WellTyped(found, x.right))
  <2>1. l.errs + r.errs > 0
    BY <1>2, <1>6, <1>7
  <2>2. Check(found, x).errs \in {l.errs + r.errs, l.errs + r.errs + 1}
    BY <1>1 DEF CheckArith, CheckComparison, Verdict
  <2>3. Check(found, x).errs > 0
    BY <1>2, <2>1, <2>2
  <2> QED BY <1>4, <1>7, <2>3 DEF Judges
<1>8. CASE WellTyped(found, x.left) /\ WellTyped(found, x.right)
  <2>1. l.type = tl /\ r.type = tr /\ l.errs + r.errs = 0
    BY <1>6, <1>8 DEF Verdict
  <2>2. Check(found, x) = IF Fits(found, x) THEN Verdict("int", 0) ELSE Verdict("error", 1)
    <3>1. CASE x.kind = "arith"
      <4>1. {tl, tr} \subseteq Numeric <=>
               CheckTypeCompatibility("int", tl) /\ CheckTypeCompatibility("int", tr)
        BY NumericTypes
      <4>2. CheckArith(l, r) = IF Fits(found, x) THEN Verdict("int", 0) ELSE Verdict("error", 1)
        BY <1>5, <1>6, <2>1, <3>1, <4>1 DEF CheckArith
      <4> QED BY <1>1, <3>1, <4>2
    <3>2. CASE x.kind = "comparison"
      <4>1. (tl = tr \/ {tl, tr} \subseteq Numeric) <=>
               CheckTypeCompatibility(tl, tr) \/ CheckTypeCompatibility(tr, tl)
        BY NumericTypes
      <4>2. CheckComparison(l, r) = IF Fits(found, x) THEN Verdict("int", 0) ELSE Verdict("error", 1)
        BY <1>5, <2>1, <3>2, <4>1 DEF CheckComparison
      <4> QED BY <1>1, <3>2, <4>2
    <3> QED BY <3>1, <3>2
  <2> QED BY <1>4, <1>5, <1>8, <2>2 DEF Judges, Verdict
<1> QED BY <1>7, <1>8

\* The arguments are judged before the call: the first that does not fit and the
\* count both make a report, and nothing else does.
LEMMA CallIsJudged ==
    ASSUME NEW found \in Lookup, NEW x \in Expr, x.kind = "call", found[x.id] # NoSym,
           \A p \in Parts(x) : Judges(found, p)
    PROVE  Judges(found, x)
<1> DEFINE args == [j \in DOMAIN x.args |-> Check(found, x.args[j])]
           s == found[x.id]
           n == IF Len(s.params) < Len(args) THEN Len(s.params) ELSE Len(args)
           Wrong(j) == ~CheckTypeCompatibility(s.params[j], args[j].type)
<1>1. /\ x.id \in Name /\ x.args \in Seq(Expr) /\ Operands(x) = x.args
      /\ args \in Seq(Verdicts) /\ Len(args) = Len(x.args)
      /\ CallTo(s, args, Check(found, x))
  BY CheckedCall
<1>2. s \in SymbolRecord /\ s.params \in Seq(Numeric) /\ Len(s.params) \in Nat /\ Len(args) \in Nat
  BY <1>1 DEF Lookup, SymbolRecord, Numeric
<1>3. ASSUME NEW j \in 1..Len(args)
      PROVE  /\ x.args[j] \in Parts(x) /\ args[j] = Check(found, x.args[j])
             /\ args[j].errs \in Nat
             /\ IF WellTyped(found, x.args[j])
                THEN args[j].errs = 0 /\ args[j].type = TypeOf(found, x.args[j])
                ELSE args[j].errs > 0
  <2>1. j \in DOMAIN x.args
    BY <1>1
  <2>2. x.args[j] \in Parts(x) /\ args[j] = Check(found, x.args[j])
    BY <1>1, <2>1 DEF Parts, Range
  <2>3. args[j] \in Verdicts
    BY <1>1
  <2>4. Judges(found, x.args[j])
    BY <2>2
  <2> HIDE DEF args
  <2> QED BY <2>2, <2>3, <2>4 DEF Judges, Verdict, Verdicts
<1>4. TypeOf(found, x) = s.type
  BY DEF TypeOf
<1>5. Fits(found, x) <=> /\ s.kind = "func" /\ Len(s.params) = Len(x.args)
                         /\ \A j \in DOMAIN x.args : TypeOf(found, x.args[j]) \in Numeric
  BY DEF Fits
<1>6. WellTyped(found, x) <=>
         Fits(found, x) /\ \A j \in 1..Len(args) : WellTyped(found, x.args[j])
  <2>1. Parts(x) = {x.args[j] : j \in 1..Len(args)}
    BY <1>1 DEF Parts, Range
  <2>2. WellTyped(found, x) <=> Fits(found, x) /\ \A p \in Parts(x) : WellTyped(found, p)
    BY TypedEveryNode
  <2> HIDE DEF args
  <2> QED BY <2>1, <2>2
<1>7. DOMAIN x.args = 1..Len(args)
  BY <1>1
<1> HIDE DEF args, s
<1>8. CASE s.kind # "func"
  <2>1. Check(found, x).errs = 1
    BY <1>1, <1>8 DEF CallTo, Verdict, s
  <2> QED BY <1>5, <1>6, <1>8, <2>1 DEF Judges
<1>9. CASE s.kind = "func"
  <2>1. n \in 0..Len(args) /\ n <= Len(s.params)
    BY <1>2
  <2>2. ASSUME NEW j \in 0..n
        PROVE  /\ [k \in 1..j |-> args[k].errs] \in Seq(Nat)
               /\ Len([k \in 1..j |-> args[k].errs]) = j /\ ErrsOf(args, j) \in Nat
    <3>1. j \in 0..Len(args) /\ j \in Nat
      BY <2>1
    <3> QED BY <1>1, <3>1, ErrsType
  <2>3. ASSUME NEW j \in 1..n PROVE Wrong(j) <=> args[j].type \notin Numeric
    <3>1. s.params[j] \in Numeric
      <4>1. j \in 1..Len(s.params)
        BY <1>2, <2>1
      <4> QED BY <1>2, <4>1
    <3> QED BY <3>1, NumericTypes
  <2>4. CASE \E j \in 1..n : Wrong(j)
    <3>1. PICK j \in 1..n : Check(found, x) = Verdict("error", 1 + ErrsOf(args, j))
      BY <1>1, <1>9, <2>4 DEF CallTo, s
    <3>2. j \in 0..n /\ ErrsOf(args, j) \in Nat
      BY <2>1, <2>2
    <3>3. Check(found, x).errs > 0
      BY <3>1, <3>2 DEF Verdict
    <3>4. ~WellTyped(found, x)
      <4>1. PICK m \in 1..n : Wrong(m)
        BY <2>4
      <4>2. m \in 1..Len(args) /\ args[m].type \notin Numeric
        BY <2>1, <2>3, <4>1
      <4>3. ~(WellTyped(found, x.args[m]) /\ TypeOf(found, x.args[m]) \in Numeric)
        BY <1>3, <4>2
      <4> QED BY <1>5, <1>6, <1>7, <4>2, <4>3
    <3> QED BY <3>3, <3>4 DEF Judges
  <2>5. CASE \A j \in 1..n : ~Wrong(j)
    <3>1. Check(found, x) = Verdict(s.type, ErrsOf(args, n) + CountErrors(s.params, args))
      BY <1>1, <1>9, <2>5 DEF CallTo, s
    <3>2. n \in 0..n /\ ErrsOf(args, n) \in Nat
      BY <2>1, <2>2
    <3>3. CASE Len(s.params) # Len(x.args)
      <4>1. CountErrors(s.params, args) = 1
        BY <1>1, <3>3 DEF CountErrors
      <4>2. Check(found, x).errs > 0
        BY <3>1, <3>2, <4>1 DEF Verdict
      <4> QED BY <1>5, <1>6, <3>3, <4>2 DEF Judges
    <3>4. CASE Len(s.params) = Len(x.args)
      <4>1. n = Len(args) /\ CountErrors(s.params, args) = 0
        BY <1>1, <3>4 DEF CountErrors
      <4>2. Check(found, x) = Verdict(s.type, ErrsOf(args, n))
        BY <3>1, <3>2, <4>1
      <4> DEFINE es == [k \in 1..n |-> args[k].errs]
      <4>3. es \in Seq(Nat) /\ Len(es) = n /\ ErrsOf(args, n) = Sum(es)
        BY <2>2, <3>2 DEF ErrsOf
      <4>4. \A k \in 1..n : es[k] = args[k].errs
        OBVIOUS
      <4> HIDE DEF es
      <4>5. CASE \A j \in 1..Len(args) : WellTyped(found, x.args[j])
        <5>1. \A k \in 1..Len(es) : es[k] = 0
          BY <1>3, <4>1, <4>3, <4>4, <4>5
        <5>2. Sum(es) = 0
          BY <4>3, <5>1, SumOfZeros
        <5>3. \A j \in 1..Len(args) : TypeOf(found, x.args[j]) \in Numeric
          BY <1>3, <2>3, <2>5, <4>1, <4>5
        <5>4. WellTyped(found, x)
          BY <1>5, <1>6, <1>7, <1>9, <3>4, <4>5, <5>3
        <5> QED BY <1>4, <4>2, <4>3, <5>2, <5>4 DEF Judges
      <4>6. CASE ~ \A j \in 1..Len(args) : WellTyped(found, x.args[j])
        <5>1. PICK j \in 1..Len(args) : ~WellTyped(found, x.args[j])
          BY <4>6
        <5>2. j \in 1..Len(es) /\ es[j] > 0
          BY <1>3, <4>1, <4>3, <4>4, <5>1
        <5>3. Sum(es) > 0
          BY <4>3, <5>2, SumPositive
        <5>4. Check(found, x).errs > 0
          BY <4>2, <4>3, <5>3 DEF Verdict
        <5> QED BY <1>6, <5>1, <5>4 DEF Judges
      <4> QED BY <4>5, <4>6
    <3> QED BY <3>3, <3>4
  <2> QED BY <2>4, <2>5
<1> QED BY <1>8, <1>9

\* So an expression without a call of an undeclared name is judged by the rules.
LEMMA ExprIsJudged ==
    ASSUME NEW found \in Lookup
    PROVE  \A x \in Expr : ~CallsUndeclared(found, x) => Judges(found, x)
<1> DEFINE T == {x \in Expr : ~CallsUndeclared(found, x) => Judges(found, x)}
<1>1. Hereditary(Expr, Height, T)
  <2> SUFFICES ASSUME NEW x \in Expr, \A y \in Expr : Height[y] < Height[x] => y \in T,
                      ~CallsUndeclared(found, x)
               PROVE  Judges(found, x)
    BY ExprAssumption DEF Hereditary
  <2>1. /\ x.kind = "call" => found[x.id] # NoSym
        /\ \A p \in Parts(x) : ~CallsUndeclared(found, p)
    BY CallsEveryNode
  <2>2. \A p \in Parts(x) : Judges(found, p) /\ TypeOf(found, p) # "error"
    BY <2>1, PartsAreLower, DeclaredType
  <2>3. CASE x.kind = "call"
    BY <2>1, <2>2, <2>3, CallIsJudged
  <2>4. CASE x.kind \in {"arith", "comparison"}
    BY <2>2, <2>4, OperatorIsJudged
  <2>5. CASE x.kind \notin {"call", "arith", "comparison"}
    BY <2>5, LeafIsJudged
  <2> QED BY <2>3, <2>4, <2>5
<1>2. T = Expr
  <2> HIDE DEF T
  <2> QED BY <1>1, TreeInduction, Zenon
<1> QED BY <1>2

LEMMA ReportsAreExact ==
    ASSUME IInv
    PROVE  ReportsExactlyIllTyped
<1>1. \A x \in Expr : ~CallsUndeclared(Found(env), x) => Judges(Found(env), x)
  BY FoundType, ExprIsJudged
<1> QED BY <1>1 DEF ReportsExactlyIllTyped, Judges

\* A call that check_expr takes without a report fits the function it names, or
\* names nothing that is declared, for any expressions and any declarations.
THEOREM QuietCallsAreExplained == TableSpec => []QuietCallsFitOrAreUndeclared
BY QuietCall, AlwaysIInv, PTL

\* T_ERROR without a report comes from a call of an undeclared name only.
THEOREM SilentErrorsAreOnlyCalls == TableSpec => []SilentErrorsAreCalls
BY SilentError, AlwaysIInv, PTL

\* However an expression is nested, check_expr reports at most once for each
\* call and each operator in it.
THEOREM ReportsDoNotMultiply == TableSpec => []AtMostOneReportPerNode
BY ReportsAreBounded, AlwaysIInv, PTL

\* check_expr reports an expression exactly if something in it breaks a typing
\* rule, unless it calls a name that is not declared.
THEOREM IllTypedIsReported == TableSpec => []ReportsExactlyIllTyped
BY ReportsAreExact, AlwaysIInv, PTL
-----------------------------------------------------------------------------
\* Which stages each phase has, and when blocks are open.
Control ==
    /\ nest \in Nat
    /\ nest > 0 <=> stage \in {"vars", "cmds"}
    /\ stage \in {"outside", "params", "vars", "cmds", "end"}
    /\ phase \in {"start", "globals", "crashed"} => stage = "outside"
    /\ phase = "main" => stage \in {"vars", "cmds", "end"}
    /\ phase \in {"accepted", "rejected"} => stage = "end"
    /\ phase \in {"start", "globals", "bodies", "main"} \cup Final

\* As many scopes as the source's text encloses this place with.
Balanced ==
    depth = One(phase \in {"globals", "bodies", "main", "crashed"})
            + One(phase = "bodies" /\ stage # "outside") + nest

\* TypeOK less the table, the control and the counts of reports.
Signatures ==
    /\ funcs \in Seq([ret : VarType, params : Params]) /\ g \in 0..Len(funcs)
    /\ stage = "params" => g >= 1
    /\ todo \in Seq(Parameter) /\ expected \in VarType /\ size \in 0..MaxSize

SInv == IInv /\ Control /\ Balanced

Judgement == {"right", "wrong", "spared", "blind"}
Counted == errors \in Nat /\ judged \in Judgement /\ blind \in BOOLEAN

\* What symbol_search finds is what the scope rule calls for.
LEMMA FoundIsScoped ==
    ASSUME IInv
    PROVE  Found(env) = Scoped
BY SearchFindsInnermost DEF Found, Scoped

LEMMA InitSInv == Init => SInv
BY InitIInv DEF Init, SInv, Control, Balanced, One, TableInit

\* A declaration where some block is open.
LEMMA RegisterVarSInv ==
    ASSUME IInv, depth > 0, NEW x \in Name, NEW t \in VarType, RegisterVar(x, t)
    PROVE  IInv' /\ depth' = depth
<1>1. Variable(t) \in Symbol /\ Declare(x, Variable(t))
  BY SemanticAssumption DEF RegisterVar
<1>2. IInv'
  BY <1>1, DeclareIInv
<1> QED BY <1>1, <1>2 DEF Declare

\* A command leaves the table alone.
LEMMA CommandSInv ==
    ASSUME SInv, NEW code, NEW rule, Command(code, rule)
    PROVE  SInv'
<1>1. /\ UNCHANGED <<env, depth, decls, phase, nest>>
      /\ stage \in {"vars", "cmds"} /\ stage' = "cmds"
  BY DEF Command, tableVars
<1>2. IInv'
  BY <1>1 DEF SInv, IInv, TableTypeOK, Stored, Declared, At
<1>3. Control'
  BY <1>1 DEF SInv, Control
<1>4. Balanced'
  BY <1>1 DEF SInv, Balanced, One
<1> QED BY <1>2, <1>3, <1>4 DEF SInv

\* A scope more.
LEMMA EntersSInv ==
    ASSUME SInv, Begin \/ EnterFunction \/ EnterBody \/ EnterMain \/ CmdBlock
    PROVE  SInv'
<1>1. EnvPushScope /\ depth' = depth + 1 /\ depth \in Nat /\ nest \in Nat
  BY DEF Begin, EnterFunction, EnterBody, EnterMain, CmdBlock, OpenBlock, EnvPushScope, SInv,
         IInv, TableTypeOK, Control
<1>2. IInv'
  BY <1>1, PushIInv DEF SInv
<1>3. CASE Begin
  <2>1. phase = "start" /\ phase' = "globals" /\ UNCHANGED <<stage, nest>>
    BY <1>3 DEF Begin
  <2> QED BY <1>1, <1>2, <2>1 DEF SInv, Control, Balanced, One
<1>4. CASE EnterFunction
  <2>1. phase = "bodies" /\ stage = "outside" /\ stage' = "params" /\ UNCHANGED <<phase, nest>>
    BY <1>4 DEF EnterFunction
  <2> QED BY <1>1, <1>2, <2>1 DEF SInv, Control, Balanced, One
<1>5. CASE EnterBody
  <2>1. stage = "params" /\ nest' = nest + 1 /\ stage' = "vars" /\ phase' = phase
    BY <1>5 DEF EnterBody, OpenBlock
  <2> QED BY <1>1, <1>2, <2>1 DEF SInv, Control, Balanced, One
<1>6. CASE EnterMain
  <2>1. /\ phase = "bodies" /\ stage = "outside"
        /\ nest' = nest + 1 /\ stage' = "vars" /\ phase' = "main"
    BY <1>6 DEF EnterMain, OpenBlock
  <2> QED BY <1>1, <1>2, <2>1 DEF SInv, Control, Balanced, One
<1>7. CASE CmdBlock
  <2>1. stage \in {"vars", "cmds"} /\ nest' = nest + 1 /\ stage' = "vars" /\ phase' = phase
    BY <1>7 DEF CmdBlock, OpenBlock
  <2> QED BY <1>1, <1>2, <2>1 DEF SInv, Control, Balanced, One
<1> QED BY <1>3, <1>4, <1>5, <1>6, <1>7

\* Where a scope closes, or something is declared, some scope is open.
LEMMA SomeScopeIsOpen ==
    ASSUME SInv, phase # "start", phase \notin {"accepted", "rejected"}
    PROVE  depth >= 1 /\ (stage # "outside" /\ stage # "end" => depth >= 2)
BY DEF SInv, Control, Balanced, One, Final

\* A scope less.
LEMMA LeavesSInv ==
    ASSUME SInv, CloseBlock \/ LeaveFunction \/ Finish
    PROVE  SInv'
<1>1. /\ EnvPopScope /\ depth' = depth - 1 /\ depth \in Nat /\ nest \in Nat
      /\ phase \in {"bodies", "main"}
  BY DEF CloseBlock, LeaveFunction, Finish, EnvPopScope, SInv, IInv, TableTypeOK, Control, Final
<1>2. IInv'
  <2>1. depth > 0
    BY <1>1, SomeScopeIsOpen
  <2> QED BY <1>1, <2>1, PopIInv DEF SInv
<1>3. CASE CloseBlock
  <2>1. /\ nest > 0 /\ stage \in {"vars", "cmds"} /\ nest' = nest - 1 /\ phase' = phase
        /\ stage' = IF nest' = 0 THEN "end" ELSE "cmds"
    BY <1>3 DEF CloseBlock
  <2> QED BY <1>1, <1>2, <2>1 DEF SInv, Control, Balanced, One
<1>4. CASE LeaveFunction
  <2>1. phase = "bodies" /\ stage = "end" /\ stage' = "outside" /\ UNCHANGED <<phase, nest>>
    BY <1>4 DEF LeaveFunction
  <2> QED BY <1>1, <1>2, <2>1 DEF SInv, Control, Balanced, One
<1>5. CASE Finish
  <2>1. /\ phase = "main" /\ stage = "end" /\ UNCHANGED <<stage, nest>>
        /\ phase' \in {"accepted", "rejected"}
    BY <1>5 DEF Finish
  <2> QED BY <1>1, <1>2, <2>1 DEF SInv, Control, Balanced, One, Final
<1> QED BY <1>3, <1>4, <1>5

\* The list of parameters is walked to its end.
LEMMA ParamsWalked ==
    ASSUME NEW ps \in Seq(Parameter), ps # <<>>
    PROVE  Head(ps).id \in Name /\ Head(ps).type \in VarType /\ Tail(ps) \in Seq(Parameter)
<1>1. Head(ps) \in Parameter /\ Tail(ps) \in Seq(Parameter)
  OBVIOUS
<1> QED BY <1>1 DEF Parameter

\* A declaration.
LEMMA DeclaresSInv ==
    ASSUME SInv, Signatures,
           \/ \E x \in Name, t \in VarType : GlobalVar(x, t) \/ DeclareVar(x, t)
           \/ RegisterParam
    PROVE  SInv'
<1>1. /\ UNCHANGED <<phase, stage, nest>>
      /\ phase = "globals" \/ stage \in {"vars", "params"}
      /\ \E x \in Name, t \in VarType : RegisterVar(x, t)
  <2>1. CASE RegisterParam
    BY <2>1, ParamsWalked DEF RegisterParam, Signatures, pc
  <2>2. CASE \E x \in Name, t \in VarType : GlobalVar(x, t) \/ DeclareVar(x, t)
    BY <2>2 DEF GlobalVar, DeclareVar, pc
  <2> QED BY <2>1, <2>2
<1>2. depth > 0 /\ depth \in Nat
  <2>1. phase # "start" /\ phase \notin {"accepted", "rejected"}
    BY <1>1 DEF SInv, Control
  <2> QED BY <2>1, SomeScopeIsOpen DEF SInv, IInv, TableTypeOK
<1>3. IInv' /\ depth' = depth
  BY <1>1, <1>2, RegisterVarSInv DEF SInv
<1> QED BY <1>1, <1>3 DEF SInv, Control, Balanced

\* A function of pass 1, whose name is taken or which crashes the checker.
LEMMA GlobalFuncSInv ==
    ASSUME SInv, NEW x \in Name, NEW t, NEW ps, GlobalFunc(x, t, ps)
    PROVE  SInv'
<1>1. UNCHANGED <<env, depth, decls, stage, nest>> /\ phase = "globals" /\ phase' \in {"globals", "crashed"}
  BY DEF GlobalFunc, tableVars
<1>2. IInv'
  BY <1>1 DEF SInv, IInv, TableTypeOK, Stored, Declared, At
<1> QED BY <1>1, <1>2 DEF SInv, Control, Balanced, One, Final

\* The invariant is inductive.
LEMMA NextSInv == SInv /\ Signatures /\ [Next]_vars => SInv'
<1> SUFFICES ASSUME SInv, Signatures, [Next]_vars PROVE SInv'
  OBVIOUS
<1>1. CASE Begin \/ EnterFunction \/ EnterBody \/ EnterMain \/ CmdBlock
  BY <1>1, EntersSInv
<1>2. CASE CloseBlock \/ LeaveFunction \/ Finish
  BY <1>2, LeavesSInv
<1>3. CASE \/ \E x \in Name, t \in VarType : GlobalVar(x, t) \/ DeclareVar(x, t)
           \/ RegisterParam
  BY <1>3, DeclaresSInv
<1>4. CASE \E x \in Name, t \in VarType, ps \in Params : GlobalFunc(x, t, ps)
  BY <1>4, GlobalFuncSInv
<1>5. CASE \/ \E e \in Expr : CmdExpr(e) \/ CmdReturn(e) \/ CmdControl(e)
           \/ \E x \in Name : CmdLeia(x)
  BY <1>5, CommandSInv DEF CmdExpr, CmdReturn, CmdControl, CmdLeia
<1>6. CASE EndGlobals \/ UNCHANGED vars
  <2>1. /\ UNCHANGED <<env, depth, decls, stage, nest>>
        /\ phase' = phase \/ (phase = "globals" /\ phase' = "bodies")
    BY <1>6 DEF EndGlobals, vars, tableVars, pc
  <2>2. IInv'
    BY <2>1 DEF SInv, IInv, TableTypeOK, Stored, Declared, At
  <2> QED BY <2>1, <2>2 DEF SInv, Control, Balanced, One, Final
<1> QED BY <1>1, <1>2, <1>3, <1>4, <1>5, <1>6 DEF Next, Step, Ended

\* The functions and their parameters keep their types.
LEMMA NextSignatures == Control /\ Signatures /\ [Next]_vars => Signatures'
<1> SUFFICES ASSUME Control, Signatures, [Next]_vars PROVE Signatures'
  OBVIOUS
<1>1. CASE EnterFunction
  <2>1. /\ g' = g + 1 /\ g < Len(funcs) /\ todo' = funcs[g + 1].params
        /\ UNCHANGED <<funcs, expected, size>>
    BY <1>1 DEF EnterFunction
  <2>2. funcs \in Seq([ret : VarType, params : Params]) /\ g + 1 \in 1..Len(funcs)
    BY <2>1 DEF Signatures
  <2>3. funcs[g + 1] \in [ret : VarType, params : Params]
    BY <2>2, ElementOfSeq
  <2>4. funcs[g + 1].params \in Seq(Parameter)
    BY <2>3, SemanticAssumption
  <2>5. todo' \in Seq(Parameter) /\ g' \in 0..Len(funcs') /\ g' >= 1
    BY <2>1, <2>2, <2>4
  <2> QED BY <2>1, <2>5 DEF Signatures
<1>2. CASE RegisterParam
  <2>1. todo' \in Seq(Parameter) /\ UNCHANGED <<stage, funcs, g, expected, size>>
    BY <1>2, ParamsWalked DEF RegisterParam, Signatures, pc
  <2> QED BY <2>1 DEF Signatures
<1>3. CASE EnterBody
  <2>1. /\ stage = "params" /\ stage' = "vars" /\ expected' = funcs[g].ret
        /\ UNCHANGED <<funcs, g, todo, size>>
    BY <1>3 DEF EnterBody, OpenBlock
  <2>2. funcs \in Seq([ret : VarType, params : Params]) /\ g \in 1..Len(funcs)
    BY <2>1 DEF Signatures
  <2>3. funcs[g] \in [ret : VarType, params : Params]
    BY <2>2, ElementOfSeq
  <2> QED BY <2>1, <2>3 DEF Signatures
<1>4. CASE EnterMain
  BY <1>4 DEF EnterMain, OpenBlock, Signatures, VarType
<1>5. CASE \E x \in Name, t \in VarType, ps \in Params : GlobalFunc(x, t, ps)
  <2>1. PICK x \in Name, t \in VarType, ps \in Params : GlobalFunc(x, t, ps)
    BY <1>5
  <2>2. /\ funcs' = Append(funcs, [ret |-> t, params |-> ps]) /\ size < MaxSize /\ size' = size + 1
        /\ UNCHANGED <<stage, g, todo, expected>>
    BY <2>1 DEF GlobalFunc, Consume
  <2>3. [ret |-> t, params |-> ps] \in [ret : VarType, params : Params]
    OBVIOUS
  <2>4. funcs' \in Seq([ret : VarType, params : Params]) /\ Len(funcs') = Len(funcs) + 1
    BY <2>2, <2>3 DEF Signatures
  <2>5. size' \in 0..MaxSize
    BY <2>2, SemanticAssumption DEF Signatures
  <2> QED BY <2>2, <2>4, <2>5 DEF Signatures
<1>6. CASE \/ \E x \in Name, t \in VarType : GlobalVar(x, t) \/ DeclareVar(x, t)
           \/ CmdBlock
  <2>1. size < MaxSize /\ size' = size + 1 /\ UNCHANGED pass /\ (stage' = stage \/ stage' = "vars")
    BY <1>6 DEF GlobalVar, DeclareVar, CmdBlock, Consume, OpenBlock, pc
  <2>2. size' \in 0..MaxSize
    BY <2>1, SemanticAssumption DEF Signatures
  <2> QED BY <2>1, <2>2 DEF Signatures, pass
<1>7. CASE \/ \E e \in Expr : CmdExpr(e) \/ CmdReturn(e) \/ CmdControl(e)
           \/ \E x \in Name : CmdLeia(x)
  <2>1. PICK code, rule : Command(code, rule)
    BY <1>7 DEF CmdExpr, CmdReturn, CmdControl, CmdLeia
  <2>2. size < MaxSize /\ size' = size + 1 /\ UNCHANGED pass /\ stage' = "cmds"
    BY <2>1 DEF Command, Consume
  <2>3. size' \in 0..MaxSize
    BY <2>2, SemanticAssumption DEF Signatures
  <2> QED BY <2>2, <2>3 DEF Signatures, pass
<1>8. CASE Begin \/ EndGlobals \/ CloseBlock \/ LeaveFunction \/ Finish \/ UNCHANGED vars
  <2>1. UNCHANGED <<pass, size>> /\ (stage' = stage \/ stage' # "params")
    BY <1>8 DEF Begin, EndGlobals, CloseBlock, LeaveFunction, Finish, vars, pc
  <2> QED BY <2>1 DEF Signatures, pass
<1> QED BY <1>1, <1>2, <1>3, <1>4, <1>5, <1>6, <1>7, <1>8 DEF Next, Step, Ended

LEMMA AlwaysSInv == Spec => [](SInv /\ Signatures)
<1>1. Init => Signatures
  <2>1. 0 \in 0..MaxSize /\ <<>> \in Seq(Parameter) /\ "int" \in VarType
    BY SemanticAssumption DEF VarType
  <2>2. <<>> \in Seq([ret : VarType, params : Params]) /\ 0 \in 0..Len(<<>>)
    OBVIOUS
  <2> QED BY <2>1, <2>2 DEF Init, Signatures
<1>2. SInv => Control
  BY DEF SInv
<1> QED BY <1>1, <1>2, InitSInv, NextSInv, NextSignatures, PTL DEF Spec

\* Scopes are balanced in every state of both passes, for every source.
THEOREM ScopesAreBalanced == Spec => []ScopesBalanced
<1>1. SInv => ScopesBalanced
  BY DEF SInv, IInv, Balanced, ScopesBalanced
<1> QED BY <1>1, AlwaysSInv, PTL

\* In the environments semantic_program makes, names resolve to the innermost
\* open block that declares them.
THEOREM NamesResolveInTheSource == Spec => []ResolvesToInnermost
<1>1. SInv => ResolvesToInnermost
  BY SearchFindsInnermost, CurrentScope DEF SInv, ResolvesToInnermost
<1> QED BY <1>1, AlwaysSInv, PTL

\* A scope above the global one comes, goes or gets a symbol.
LEMMA GlobalsBelow ==
    ASSUME env \in Seq(Scope), Len(env) >= 1
    PROVE  /\ Globals(PushScope(env)) = Globals(env)
           /\ Len(env) >= 2 => Globals(PopScope(env)) = Globals(env)
           /\ Len(env) >= 2 => \A x \in Name, s \in Symbol :
                                  Globals(SymbolAdd(env, x, s)) = Globals(env)
<1> DEFINE n == Len(env)
<1>1. n \in Nat /\ n >= 1 /\ env # <<>> /\ Globals(env) = env[n] /\ DOMAIN env = 1..n
  BY DEF Globals, Last
<1>2. Globals(PushScope(env)) = Globals(env)
  <2>1. /\ NoScope \in Scope /\ Len(<<NoScope>> \o env) = n + 1 /\ <<NoScope>> \o env # <<>>
        /\ (<<NoScope>> \o env)[n + 1] = env[n]
    BY <1>1 DEF NoScope, Scope
  <2> QED BY <1>1, <2>1 DEF Globals, Last, PushScope
<1>3. ASSUME n >= 2 PROVE Globals(PopScope(env)) = Globals(env)
  <2>1. Tail(env) \in Seq(Scope) /\ Len(Tail(env)) = n - 1 /\ Tail(env)[n - 1] = env[n]
    BY <1>1, <1>3
  <2>2. Tail(env) # <<>>
    <3>1. n - 1 # 0
      BY <1>1, <1>3
    <3> QED BY <2>1, <3>1, EmptySeq
  <2> QED BY <1>1, <2>1, <2>2 DEF Globals, Last, PopScope
<1>4. ASSUME n >= 2, NEW x \in Name, NEW s \in Symbol
      PROVE  Globals(SymbolAdd(env, x, s)) = Globals(env)
  <2> DEFINE more == [env EXCEPT ![1] = [@ EXCEPT ![x] = s]]
  <2>1. Len(more) = n /\ more # <<>> /\ more[n] = env[n]
    BY <1>1, <1>4
  <2>2. SymbolAdd(env, x, s) \in {env, more}
    BY DEF SymbolAdd
  <2>3. Globals(more) = more[n]
    <3> HIDE DEF more
    <3> QED BY <2>1 DEF Globals, Last
  <2> QED BY <1>1, <2>1, <2>2, <2>3
<1> QED BY <1>2, <1>3, <1>4

\* After pass 1 no declaration or block of any body changes a global.
THEOREM GlobalsAreFrozen == Spec => GlobalsFrozen
<1>1. SInv /\ Signatures /\ [Next]_vars =>
        [(phase \in {"bodies", "main"} /\ phase' \notin Final) => Globals(env') = Globals(env)]_vars
  <2> SUFFICES ASSUME SInv, Signatures, Next, phase \in {"bodies", "main"}, phase' \notin Final
               PROVE  Globals(env') = Globals(env)
    OBVIOUS
  <2>1. /\ env \in Seq(Scope) /\ Len(env) = depth /\ depth >= 1
        /\ stage # "outside" /\ stage # "end" => depth >= 2
    BY SomeScopeIsOpen DEF SInv, IInv, TableTypeOK
  <2>2. ASSUME EnvPushScope PROVE Globals(env') = Globals(env)
    BY <2>1, <2>2, GlobalsBelow DEF EnvPushScope
  <2>3. ASSUME EnvPopScope, depth >= 2 PROVE Globals(env') = Globals(env)
    BY <2>1, <2>3, GlobalsBelow DEF EnvPopScope
  <2>4. ASSUME stage \in {"vars", "params"}, NEW x \in Name, NEW t \in VarType, RegisterVar(x, t)
        PROVE  Globals(env') = Globals(env)
    <3>1. Variable(t) \in Symbol /\ env' = SymbolAdd(env, x, Variable(t))
      BY <2>4, SemanticAssumption DEF RegisterVar, Declare
    <3> QED BY <2>1, <2>4, <3>1, GlobalsBelow
  <2>5. CASE Begin \/ EnterFunction \/ EnterBody \/ EnterMain \/ CmdBlock
    BY <2>2, <2>5 DEF Begin, EnterFunction, EnterBody, EnterMain, CmdBlock, OpenBlock
  <2>6. CASE CloseBlock
    BY <2>1, <2>3, <2>6 DEF CloseBlock
  <2>7. CASE LeaveFunction
    <3>1. depth >= 2
      BY <2>7 DEF LeaveFunction, SInv, Control, Balanced, One
    <3> QED BY <2>3, <2>7, <3>1 DEF LeaveFunction
  <2>8. CASE RegisterParam
    BY <2>4, <2>8, ParamsWalked DEF RegisterParam, Signatures
  <2>9. CASE \E x \in Name, t \in VarType : GlobalVar(x, t) \/ DeclareVar(x, t)
    BY <2>4, <2>9 DEF GlobalVar, DeclareVar
  <2>10. CASE \/ \E e \in Expr : CmdExpr(e) \/ CmdReturn(e) \/ CmdControl(e)
              \/ \E x \in Name : CmdLeia(x)
    BY <2>10 DEF CmdExpr, CmdReturn, CmdControl, CmdLeia, Command, tableVars
  <2>11. CASE \E x \in Name, t \in VarType, ps \in Params : GlobalFunc(x, t, ps)
    BY <2>11 DEF GlobalFunc
  <2>12. CASE EndGlobals \/ Finish \/ Ended
    BY <2>12 DEF EndGlobals, Finish, Ended, Final
  <2> QED BY <2>5, <2>6, <2>7, <2>8, <2>9, <2>10, <2>11, <2>12 DEF Next, Step
<1> QED BY <1>1, AlwaysSInv, PTL DEF Spec, GlobalsFrozen


\* Every step pushes or pops a scope, declares a name in the open block or
\* leaves the table alone: semantic_program keeps to what SymbolTable allows
\* its callers, but for the bound on the depth.
LEMMA StepOnTable ==
    ASSUME SInv, Signatures, [Next]_vars
    PROVE  \/ EnvPushScope
           \/ depth > 0 /\ EnvPopScope
           \/ depth > 0 /\ \E x \in Name, s \in Symbol : Declare(x, s)
           \/ UNCHANGED tableVars
<1>1. CASE Begin \/ EnterFunction \/ EnterBody \/ EnterMain \/ CmdBlock
  BY <1>1 DEF Begin, EnterFunction, EnterBody, EnterMain, CmdBlock, OpenBlock
<1>2. CASE CloseBlock \/ LeaveFunction \/ Finish
  <2>1. phase # "start" /\ phase \notin {"accepted", "rejected"}
    BY <1>2 DEF CloseBlock, LeaveFunction, Finish, SInv, Control
  <2>2. depth \in Nat /\ depth >= 1
    BY <2>1, SomeScopeIsOpen DEF SInv, IInv, TableTypeOK
  <2> QED BY <1>2, <2>2 DEF CloseBlock, LeaveFunction, Finish
<1>3. CASE \/ \E x \in Name, t \in VarType : GlobalVar(x, t) \/ DeclareVar(x, t)
           \/ RegisterParam
  <2>1. \E x \in Name, t \in VarType : RegisterVar(x, t)
    BY <1>3, ParamsWalked DEF GlobalVar, DeclareVar, RegisterParam, Signatures
  <2>2. \E x \in Name, s \in Symbol : Declare(x, s)
    BY <2>1, SemanticAssumption DEF RegisterVar
  <2>3. phase # "start" /\ phase \notin {"accepted", "rejected"}
    BY <1>3 DEF GlobalVar, DeclareVar, RegisterParam, SInv, Control
  <2>4. depth \in Nat /\ depth >= 1
    BY <2>3, SomeScopeIsOpen DEF SInv, IInv, TableTypeOK
  <2> QED BY <2>2, <2>4
<1>4. CASE \E x \in Name, t \in VarType, ps \in Params : GlobalFunc(x, t, ps)
  BY <1>4 DEF GlobalFunc
<1>5. CASE \/ \E e \in Expr : CmdExpr(e) \/ CmdReturn(e) \/ CmdControl(e)
           \/ \E x \in Name : CmdLeia(x)
  BY <1>5 DEF CmdExpr, CmdReturn, CmdControl, CmdLeia, Command
<1>6. CASE EndGlobals \/ UNCHANGED vars
  BY <1>6 DEF EndGlobals, vars, tableVars
<1> QED BY <1>1, <1>2, <1>3, <1>4, <1>5, <1>6 DEF Next, Step, Ended

\* Whatever the source opens, closes and declares meanwhile, a declaration is
\* neither changed nor lost before its block closes.
THEOREM SourceDeclarationsAreFinal == Spec => DeclarationsStay
<1>1. SInv /\ SInv' /\ Signatures /\ [Next]_vars =>
        [\A d \in decls : d.depth <= depth' => env'[depth' + 1 - d.depth][d.name] = d.sym]_tableVars
  <2> SUFFICES ASSUME SInv, SInv', Signatures, [Next]_vars, tableVars' # tableVars,
                      NEW d \in decls, d.depth <= depth'
               PROVE  env'[depth' + 1 - d.depth][d.name] = d.sym
    OBVIOUS
  <2>1. d \in decls'
    <3>1. depth \in Nat /\ d.depth \in Nat
      BY DEF SInv, IInv, TableTypeOK
    <3>2. EnvPushScope \/ EnvPopScope \/ \E x \in Name, s \in Symbol : Declare(x, s)
      BY StepOnTable
    <3> QED BY <3>1, <3>2 DEF EnvPushScope, EnvPopScope, Declare
  <2> QED BY <2>1 DEF SInv, IInv, Stored, At
<1> QED BY <1>1, AlwaysSInv, PTL DEF Spec, DeclarationsStay

-----------------------------------------------------------------------------
\* A report of the code is one the rules call for, where they speak.
AsJudged(code, rule) ==
    /\ code \in Nat /\ rule \in Judgement
    /\ rule \in {"right", "wrong"} => (code > 0 <=> rule = "wrong")

\* A declaration.
LEMMA DeclarationAsJudged ==
    ASSUME SInv, NEW x \in Name
    PROVE  AsJudged(One(SymbolSearchCurrent(env, x) # NoSym), DeclarationRule(x))
<1>1. SymbolSearchCurrent(env, x) # NoSym <=> DeclaredHere(x)
  BY CurrentScope DEF SInv
<1> QED BY <1>1 DEF AsJudged, DeclarationRule, One, Judgement

\* check_expr on an expression of a command: the type it must be of is among
\* some, and any other type is reported by the command.
LEMMA ExpressionAsJudged ==
    ASSUME SInv, NEW e \in Expr, NEW types, NEW code \in Nat,
           LET v == Check(Found(env), e)
           IN  code = v.errs + One(v.type \notin types)
    PROVE  AsJudged(code, ExprRule(e, types))
<1>1. Found(env) = Scoped /\ Found(env) \in Lookup
  BY FoundIsScoped, FoundType DEF SInv
<1>2. PICK v \in Verdicts : v = Check(Scoped, e)
  BY <1>1, CheckEveryNode
<1>3. code = v.errs + One(v.type \notin types) /\ v.errs \in Nat
  BY <1>1, <1>2 DEF Verdicts
<1>4. CASE CallsUndeclared(Scoped, e)
  BY <1>4 DEF AsJudged, ExprRule, Judgement
<1>5. CASE ~CallsUndeclared(Scoped, e)
  <2>1. Judges(Scoped, e)
    BY <1>1, <1>5, ExprIsJudged
  <2>2. CASE WellTyped(Scoped, e)
    <3>1. v.errs = 0 /\ v.type = TypeOf(Scoped, e)
      BY <1>2, <2>1, <2>2 DEF Judges, Verdict
    <3> QED BY <1>3, <1>5, <2>2, <3>1 DEF AsJudged, ExprRule, Judgement, One
  <2>3. CASE ~WellTyped(Scoped, e)
    <3>1. v.errs > 0
      BY <1>2, <2>1, <2>3 DEF Judges
    <3>2. code > 0
      BY <1>3, <3>1 DEF One
    <3> QED BY <1>5, <2>3, <3>2 DEF AsJudged, ExprRule, Judgement
  <2> QED BY <2>2, <2>3
<1> QED BY <1>4, <1>5

\* The commands.
LEMMA CommandAsJudged ==
    ASSUME SInv, Signatures,
           \/ \E e \in Expr : CmdExpr(e) \/ CmdReturn(e) \/ CmdControl(e)
           \/ \E x \in Name : CmdLeia(x)
    PROVE  \E code, rule : Report(code, rule) /\ AsJudged(code, rule)
<1>1. ASSUME NEW e \in Expr, CmdExpr(e) \/ CmdReturn(e) \/ CmdControl(e)
      PROVE  \E code, rule : Report(code, rule) /\ AsJudged(code, rule)
  <2>1. PICK v \in Verdicts : v = Check(Found(env), e)
    BY FoundType, CheckEveryNode DEF SInv
  <2>2. v.errs \in Nat /\ v.type \in Type
    BY <2>1 DEF Verdicts
  <2>3. CASE CmdExpr(e)
    <3>1. v.errs = v.errs + One(v.type \notin Type)
      BY <2>2 DEF One
    <3>2. AsJudged(v.errs, ExprRule(e, Type))
      BY <2>1, <2>2, <3>1, ExpressionAsJudged
    <3>3. Report(v.errs, ExprRule(e, Type))
      BY <2>1, <2>3 DEF CmdExpr, Command
    <3> QED BY <3>2, <3>3
  <2>4. CASE CmdReturn(e)
    <3>1. expected \in Numeric
      BY DEF Signatures, VarType, Numeric
    <3>2. ReturnErrors(v) = v.errs + One(v.type \notin Numeric) /\ ReturnErrors(v) \in Nat
      BY <2>2, <3>1, NumericTypes DEF ReturnErrors, One
    <3>3. AsJudged(ReturnErrors(v), ExprRule(e, Numeric))
      BY <2>1, <3>2, ExpressionAsJudged
    <3>4. AsJudged(ReturnErrors(v), ReturnRule(e))
      BY <3>3 DEF ReturnRule, AsJudged, Judgement
    <3>5. Report(ReturnErrors(v), ReturnRule(e))
      BY <2>1, <2>4 DEF CmdReturn, Command
    <3> QED BY <3>4, <3>5
  <2>5. CASE CmdControl(e)
    <3>1. ControlErrors(v) = v.errs + One(v.type \notin {"int"}) /\ ControlErrors(v) \in Nat
      BY <2>2 DEF ControlErrors, One
    <3>2. AsJudged(ControlErrors(v), ExprRule(e, {"int"}))
      BY <2>1, <3>1, ExpressionAsJudged
    <3>3. AsJudged(ControlErrors(v), ConditionRule(e))
      BY <3>2 DEF ConditionRule, ExprRule, AsJudged, Judgement, Numeric
    <3>4. Report(ControlErrors(v), ConditionRule(e))
      BY <2>1, <2>5 DEF CmdControl, Command
    <3> QED BY <3>3, <3>4
  <2> QED BY <1>1, <2>3, <2>4, <2>5
<1>2. ASSUME NEW x \in Name, CmdLeia(x)
      PROVE  \E code, rule : Report(code, rule) /\ AsJudged(code, rule)
  <2> DEFINE code == One(SymbolSearch(env, x) = NoSym)
             rule == IF Visible(x) = NoSym THEN "wrong" ELSE "right"
  <2>1. SymbolSearch(env, x) = Visible(x)
    BY SearchFindsInnermost DEF SInv
  <2>2. AsJudged(code, rule)
    BY <2>1 DEF AsJudged, One, Judgement
  <2>3. Report(code, rule)
    BY <1>2 DEF CmdLeia, Command
  <2> QED BY <2>2, <2>3
<1> QED BY <1>1, <1>2

\* Every step.
LEMMA StepAsJudged ==
    ASSUME SInv, Signatures, [Next]_vars
    PROVE  \/ \E code, rule : Report(code, rule) /\ AsJudged(code, rule)
           \/ UNCHANGED vars
<1>1. AsJudged(0, "right") /\ AsJudged(1, "wrong") /\ AsJudged(1, "spared")
  BY DEF AsJudged, Judgement
<1>2. CASE \/ \E e \in Expr : CmdExpr(e) \/ CmdReturn(e) \/ CmdControl(e)
           \/ \E x \in Name : CmdLeia(x)
  BY <1>2, CommandAsJudged
<1>3. CASE \/ \E x \in Name, t \in VarType : GlobalVar(x, t) \/ DeclareVar(x, t)
           \/ RegisterParam
  <2>1. PICK x \in Name, t \in VarType : RegisterVar(x, t)
    BY <1>3, ParamsWalked DEF GlobalVar, DeclareVar, RegisterParam, Signatures
  <2> QED BY <2>1, DeclarationAsJudged DEF RegisterVar
<1>4. CASE \E x \in Name, t \in VarType, ps \in Params : GlobalFunc(x, t, ps)
  <2>1. PICK x \in Name, t \in VarType, ps \in Params : GlobalFunc(x, t, ps)
    BY <1>4
  <2>2. Report(One(SymbolSearchCurrent(env, x) # NoSym), DeclarationRule(x))
    BY <2>1 DEF GlobalFunc, One
  <2> QED BY <2>2, DeclarationAsJudged
<1>5. CASE \/ Begin \/ EndGlobals \/ EnterFunction \/ EnterBody \/ EnterMain \/ CmdBlock
           \/ CloseBlock \/ LeaveFunction \/ Finish
  <2>1. Report(0, "right")
    BY <1>5 DEF Begin, EndGlobals, EnterFunction, EnterBody, EnterMain, CmdBlock, CloseBlock,
                LeaveFunction, Finish, OpenBlock, Silent
  <2> QED BY <1>1, <2>1
<1> QED BY <1>2, <1>3, <1>4, <1>5 DEF Next, Step, Ended

LEMMA AlwaysCounted == Spec => []Counted
<1>1. Init => Counted
  <2>1. 0 \in Nat /\ "right" \in Judgement
    BY DEF Judgement
  <2>2. FALSE \in BOOLEAN
    OBVIOUS
  <2>3. ASSUME Init PROVE errors \in Nat /\ judged \in Judgement /\ blind \in BOOLEAN
    <3>1. errors = 0 /\ judged = "right" /\ blind = FALSE
      BY <2>3 DEF Init
    <3> QED BY <2>1, <2>2, <3>1
  <2> QED BY <2>3 DEF Counted
<1>2. SInv /\ Signatures /\ Counted /\ [Next]_vars => Counted'
  <2> SUFFICES ASSUME SInv, Signatures, Counted, [Next]_vars PROVE Counted'
    OBVIOUS
  <2>1. CASE UNCHANGED vars
    BY <2>1 DEF vars, counts, Counted
  <2>2. CASE \E code, rule : Report(code, rule) /\ AsJudged(code, rule)
    <3>1. PICK code, rule : Report(code, rule) /\ AsJudged(code, rule)
      BY <2>2
    <3>2. errors' = errors + code /\ code \in Nat /\ errors \in Nat
      BY <3>1 DEF Report, AsJudged, Counted
    <3>3. judged' = rule /\ rule \in Judgement
      BY <3>1 DEF Report, AsJudged
    <3>4. blind' = (blind \/ rule = "blind")
      BY <3>1 DEF Report
    <3>5. (blind \/ rule = "blind") \in BOOLEAN
      OBVIOUS
    <3> QED BY <3>2, <3>3, <3>4, <3>5 DEF Counted
  <2> QED BY <2>1, <2>2, StepAsJudged
<1> QED BY <1>1, <1>2, AlwaysSInv, PTL DEF Spec

\* Each declaration and command is reported exactly if it breaks a rule of scope
\* or type, for every source, with any names, parameters and expressions, but for
\* the calls of undeclared names and the cases that are spared.
THEOREM WhatIsWrongIsReported == Spec => ReportsWhatIsWrong
<1>1. SInv /\ Signatures /\ Counted /\ [Next]_vars =>
        [judged' \in {"right", "wrong"} => (errors' > errors <=> judged' = "wrong")]_vars
  <2> SUFFICES ASSUME SInv, Signatures, Counted, [Next]_vars, ~UNCHANGED vars,
                      judged' \in {"right", "wrong"}
               PROVE  errors' > errors <=> judged' = "wrong"
    OBVIOUS
  <2>1. PICK code, rule : Report(code, rule) /\ AsJudged(code, rule)
    BY StepAsJudged
  <2>2. errors' = errors + code /\ code \in Nat /\ errors \in Nat /\ judged' = rule
    BY <2>1 DEF Report, AsJudged, Counted
  <2>3. code > 0 <=> rule = "wrong"
    BY <2>1, <2>2 DEF AsJudged
  <2> QED BY <2>2, <2>3
<1> QED BY <1>1, AlwaysSInv, AlwaysCounted, PTL DEF Spec, ReportsWhatIsWrong

\* The state of semantic_program keeps its type: the count of errors is a
\* natural number, the return type expected is that of a function or of main.
THEOREM SemanticTypeCorrect == Spec => []TypeOK
<1>1. SInv /\ Signatures /\ Counted => TypeOK
  <2> SUFFICES ASSUME SInv, Signatures, Counted PROVE TypeOK
    OBVIOUS
  <2>1. \A j \in DOMAIN funcs : funcs[j] \in [ret : VarType, params : Params]
    <3> DEFINE F == [ret : VarType, params : Params]
    <3>1. funcs \in Seq(F)
      BY DEF Signatures
    <3> HIDE DEF F
    <3>2. \A j \in DOMAIN funcs : funcs[j] \in F
      BY <3>1
    <3> QED BY <3>2 DEF F
  <2> QED BY <2>1 DEF TypeOK, SInv, IInv, Control, Signatures, Counted, Judgement
<1> QED BY <1>1, AlwaysSInv, AlwaysCounted, PTL
=============================================================================
