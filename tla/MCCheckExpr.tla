---------------------------- MODULE MCCheckExpr ----------------------------
(***************************************************************************)
(* Instance of CheckExpr for TLC: two names, a variable of each type,      *)
(* functions with no, one and two parameters, and every expression over    *)
(* them with one operator, and some with two.                              *)
(***************************************************************************)
EXTENDS CheckExpr

CONSTANTS n1, n2, none

MCName == {n1, n2}
Var(t) == [kind |-> "var", type |-> t, params |-> <<>>]
Func(t, ps) == [kind |-> "func", type |-> t, params |-> ps]
MCSymbol == {Var("int"), Var("car"),
             Func("int", <<>>), Func("car", <<"int">>), Func("int", <<"car", "int">>)}

Atoms == {[kind |-> "int"], [kind |-> "other"]} \cup {[kind |-> "name", id |-> n] : n \in MCName}
Call(n, as) == [kind |-> "call", id |-> n, args |-> as]
Binary(k, l, r) == [kind |-> k, left |-> l, right |-> r]
Simple ==
    {Call(n, <<>>) : n \in MCName}
    \cup {Call(n, <<a>>) : n \in MCName, a \in Atoms}
    \cup {Call(n2, <<a, b>>) : a \in Atoms, b \in Atoms}
    \cup {Binary(k, a, b) : k \in {"arith", "comparison"}, a \in Atoms, b \in Atoms}
Shallow == {e \in Simple : e.kind = "call" /\ Len(e.args) < 2} \cup
           {Binary("comparison", [kind |-> "other"], Call(n1, <<>>)),
            Binary("arith", [kind |-> "name", id |-> n1], [kind |-> "int"])}
Nested ==
    {Call(n2, <<e, [kind |-> "int"]>>) : e \in Shallow}
    \cup {Binary("arith", e, Call(n2, <<[kind |-> "int"]>>)) : e \in Shallow}
    \cup {Binary("comparison", e, Call(n1, <<>>)) : e \in Shallow}
MCExpr == Atoms \cup Simple \cup Shallow \cup Nested
MCHeight == [e \in MCExpr |-> IF e \in Nested THEN 3 ELSE IF e \in Shallow \ Simple THEN 2
                              ELSE IF e \in Simple THEN 1 ELSE 0]
============================================================================
