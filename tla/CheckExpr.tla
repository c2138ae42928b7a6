----------------------------- MODULE CheckExpr -----------------------------
(***************************************************************************)
(* check_type_compatibility and check_expr of src/src/semantic.c: the type *)
(* of an expression in an environment and the number of errors reported on *)
(* the way.  An expression is a record with the node's kind; the verdict   *)
(* depends on the environment through what symbol_search finds in it.      *)
(***************************************************************************)
EXTENDS SymbolTable, SequencesExt

CONSTANTS Expr,          \* the expressions, with every sub-expression of theirs
          Height         \* how high the tree of each is

\* T_INT, T_CAR, T_STRING, T_VOID, T_ERROR
Type == {"int", "car", "string", "void", "error"}

\* A mutant of CheckTypeCompatibility: an int does not go into a car.
CompatibleOneWay(dest, src) == dest = src \/ (dest = "int" /\ src = "car")

CheckTypeCompatibility(dest, src) ==
    \/ dest = src
    \/ dest = "int" /\ src = "car"
    \/ dest = "car" /\ src = "int"

Verdict(t, n) == [type |-> t, errs |-> n]

\* report_semantic_error adds one at a time: the sum of a sequence.
Sum(s) ==
    LET total[k \in 0..Len(s)] == IF k = 0 THEN 0 ELSE total[k - 1] + s[k]
    IN  total[Len(s)]

\* What symbol_search finds for each name.
Found(e) == [x \in Name |-> SymbolSearch(e, x)]

\* The report on the number of arguments, and a mutant that misses the calls
\* with too few.
CountErrorsMany(params, args) == IF Len(args) <= Len(params) THEN 0 ELSE 1
CountErrors(params, args) == IF Len(args) = Len(params) THEN 0 ELSE 1

\* The verdict on a call of id, given the verdicts of its arguments.  A name
\* that is not declared gives T_ERROR without a report; the arguments are
\* checked up to the first that does not fit, or to the end of either list.
CheckCall(found, id, args) ==
    LET s == found[id]
        n == IF Len(s.params) < Len(args) THEN Len(s.params) ELSE Len(args)
        Wrong(j) == ~CheckTypeCompatibility(s.params[j], args[j].type)
        ErrsUpTo(j) == Sum([k \in 1..j |-> args[k].errs])
    IN  IF s = NoSym THEN Verdict("error", 0)
        ELSE IF s.kind # "func" THEN Verdict("error", 1)
        ELSE IF \E j \in 1..n : Wrong(j)
        THEN Verdict("error", 1 + ErrsUpTo(CHOOSE j \in 1..n :
                                      Wrong(j) /\ \A m \in 1..(j - 1) : ~Wrong(m)))
        ELSE Verdict(s.type, ErrsUpTo(n) + CountErrors(s.params, args))

\* Mutants of CheckArith, with a report for each operand and with none.
CheckArithTwice(l, r) ==
    LET n == l.errs + r.errs IN
    IF CheckTypeCompatibility("int", l.type) /\ CheckTypeCompatibility("int", r.type)
    THEN Verdict("int", n) ELSE Verdict("error", n + 2)
CheckArithSilent(l, r) ==
    LET n == l.errs + r.errs IN
    IF CheckTypeCompatibility("int", l.type) /\ CheckTypeCompatibility("int", r.type)
    THEN Verdict("int", n) ELSE Verdict("error", n)

CheckArith(l, r) ==
    LET n == l.errs + r.errs IN
    IF l.type = "error" \/ r.type = "error" THEN Verdict("error", n)
    ELSE IF CheckTypeCompatibility("int", l.type) /\ CheckTypeCompatibility("int", r.type)
    THEN Verdict("int", n) ELSE Verdict("error", n + 1)

CheckComparison(l, r) ==
    LET n == l.errs + r.errs IN
    IF CheckTypeCompatibility(l.type, r.type) \/ CheckTypeCompatibility(r.type, l.type)
    THEN Verdict("int", n) ELSE Verdict("error", n + 1)

\* A name is typed by its symbol, any other text is a string.  = is int and its
\* operand is not visited (e and ou are too, but no token stands for them); !x
\* comes from the parser as a call of "!" (goianinha.y:251), which no program
\* declares.
CheckName(found, id) ==
    LET s == found[id]
    IN  Verdict(IF s = NoSym THEN "string" ELSE s.type, 0)

\* The verdict on a node, given those of its operands.
CheckNode(found, x, of) ==
    CASE x.kind = "null" -> Verdict("void", 0)
      [] x.kind = "name" -> CheckName(found, x.id)
      [] x.kind = "call" -> CheckCall(found, x.id, [j \in DOMAIN x.args |-> of[x.args[j]]])
      [] x.kind = "arith" -> CheckArith(of[x.left], of[x.right])
      [] x.kind = "comparison" -> CheckComparison(of[x.left], of[x.right])
      [] OTHER -> Verdict("int", 0)      \* literals, =

Check(found, node) ==
    LET verdict[x \in Expr] == CheckNode(found, x, verdict)
    IN  verdict[node]
-----------------------------------------------------------------------------
Operands(x) == CASE x.kind = "call" -> x.args
                 [] x.kind \in {"arith", "comparison"} -> <<x.left, x.right>>
                 [] OTHER -> <<>>
Parts(x) == Range(Operands(x))

\* An expression is a finite tree over names, as the parser builds them.
ASSUME ExprAssumption ==
    /\ Height \in [Expr -> Nat]
    /\ \A x \in Expr : Operands(x) \in Seq(Expr)
    /\ \A x \in Expr : \A p \in Parts(x) : Height[p] < Height[x]
    /\ \A x \in Expr : x.kind \in {"name", "call"} => x.id \in Name

\* A variable or a function of some parameters, each an int or a car.
SymbolRecord == [kind : {"var", "func"}, type : {"int", "car"}, params : Seq({"int", "car"})]
ASSUME SymbolAssumption == Symbol \subseteq SymbolRecord /\ NoSym \notin SymbolRecord

\* An expression calls a name that is not declared, somewhere in it.
CallsUndeclared(found, node) ==
    LET calls[x \in Expr] == \/ x.kind = "call" /\ found[x.id] = NoSym
                             \/ \E p \in Parts(x) : calls[p]
    IN  calls[node]

\* A call that draws no report either names nothing that is declared and gets the
\* type T_ERROR in silence (semantic.c:74-79), or it is a call of a function with
\* as many arguments as it has parameters, each of a compatible type
\* (semantic.c:87-112).
QuietCallsFitOrAreUndeclared == \A x \in Expr :
    x.kind = "call" /\ Check(Found(env), x).errs = 0 =>
        LET s == SymbolSearch(env, x.id) IN
        IF s = NoSym THEN Check(Found(env), x).type = "error"
        ELSE /\ s.kind = "func" /\ Len(s.params) = Len(x.args)
             /\ \A j \in DOMAIN x.args :
                   CheckTypeCompatibility(s.params[j], Check(Found(env), x.args[j]).type)

\* The typing rules without check_expr's T_ERROR, early returns and counts: the
\* type each expression is of, whatever is wrong inside it, and what must hold at
\* each node.  int and car count as one type, as in check_type_compatibility, and
\* a name that is not declared as a string: the tree does not tell the two apart.
Numeric == {"int", "car"}

TypeOf(found, x) ==
    CASE x.kind = "null" -> "void"
      [] x.kind = "name" -> IF found[x.id] = NoSym THEN "string" ELSE found[x.id].type
      [] x.kind = "call" -> IF found[x.id] = NoSym THEN "error" ELSE found[x.id].type
      [] OTHER -> "int"

Fits(found, x) ==
    CASE x.kind = "arith" -> {TypeOf(found, x.left), TypeOf(found, x.right)} \subseteq Numeric
      [] x.kind = "comparison" -> \/ TypeOf(found, x.left) = TypeOf(found, x.right)
                                  \/ {TypeOf(found, x.left), TypeOf(found, x.right)} \subseteq Numeric
      [] x.kind = "call" -> /\ found[x.id] # NoSym /\ found[x.id].kind = "func"
                            /\ Len(found[x.id].params) = Len(x.args)
                            /\ \A j \in DOMAIN x.args : TypeOf(found, x.args[j]) \in Numeric
      [] OTHER -> TRUE

WellTyped(found, node) ==
    LET right[x \in Expr] == Fits(found, x) /\ \A p \in Parts(x) : right[p]
    IN  right[node]

\* An expression draws a report exactly if something in it breaks a typing rule,
\* and gets the type the rules give it if nothing does: giving T_ERROR up the tree
\* without more reports, or leaving the rest of a call's arguments, hides no first
\* error (semantic.c:101, 122).  Calls of undeclared names are left out.
ReportsExactlyIllTyped == \A x \in Expr :
    LET v == Check(Found(env), x) IN
    ~CallsUndeclared(Found(env), x) =>
        IF WellTyped(Found(env), x) THEN v = Verdict(TypeOf(Found(env), x), 0) ELSE v.errs > 0

\* Reports do not multiply: an expression draws at most one for every call
\* and every arithmetic or comparison operator in it, however it is nested.
AtMostOneReportPerNode ==
    LET Reporters[x \in Expr] ==
            LET own == IF Parts(x) = {} /\ x.kind # "call" THEN 0 ELSE 1
            IN  own + Sum([j \in DOMAIN Operands(x) |-> Reporters[Operands(x)[j]]])
    IN  \A x \in Expr : Check(Found(env), x).errs <= Reporters[x]

\* An expression gets the type T_ERROR without any report only when it calls
\* a name that is not declared.
SilentErrorsAreCalls == \A x \in Expr :
    Check(Found(env), x) = Verdict("error", 0) => CallsUndeclared(Found(env), x)
============================================================================
