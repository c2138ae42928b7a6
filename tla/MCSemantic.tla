----------------------------- MODULE MCSemantic -----------------------------
(***************************************************************************)
(* Instance of Semantic for TLC: two names and expressions that tell a     *)
(* variable in scope from one that is not, and an int from a car.          *)
(***************************************************************************)
EXTENDS Semantic

CONSTANTS a, b, none

MCName == {a, b}
MCSymbol == {Variable(t) : t \in VarType}
IdA == [kind |-> "name", id |-> a]
CallB == [kind |-> "call", id |-> b, args |-> <<>>]
MCParams == {<<>>} \cup {<<[id |-> x, type |-> t]>> : x \in Name, t \in VarType}
            \cup {<<[id |-> x, type |-> "int"], [id |-> y, type |-> "car"]>> : x, y \in Name}
Literal == [kind |-> "other"]
MCExpr == {IdA, CallB, Literal, [kind |-> "arith", left |-> IdA, right |-> CallB],
           [kind |-> "comparison", left |-> IdA, right |-> Literal]}
MCHeight == [e \in MCExpr |-> IF e.kind \in {"arith", "comparison"} THEN 1 ELSE 0]
============================================================================
