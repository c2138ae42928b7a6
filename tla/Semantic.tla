------------------------------ MODULE Semantic ------------------------------
(***************************************************************************)
(* semantic_program of src/src/semantic.c: the two passes over the global  *)
(* declarations and the main block, one action for each declaration or     *)
(* command of the source, which is chosen as the analysis meets it.        *)
(***************************************************************************)
EXTENDS CheckExpr

CONSTANTS Params,        \* the lists of parameters functions are declared with
          MaxSize        \* bound: declarations and commands in a source

VARIABLES phase,         \* where semantic_program stands
          stage,         \* "outside" a body, at its parameters "params", or at
                         \* the declarations "vars" or commands "cmds" of a block
          nest,          \* blocks of the body that are open
          funcs, g,      \* the function declarations, the next one in pass 2
          todo,          \* the parameters still to register
          expected,      \* return_expected
          errors,        \* semantic_errors
          judged,        \* history: what the language's rules say of the
                         \* declaration or command just met
          blind,         \* history: a call of a name that is not declared
          size           \* declarations and commands so far

pc == <<phase, stage, nest>>
pass == <<funcs, g, todo, expected>>
counts == <<errors, judged, blind>>
vars == <<env, depth, decls, pc, pass, counts, size>>

VarType == {"int", "car"}            \* Tipo
Variable(t) == [kind |-> "var", type |-> t, params |-> <<>>]
Parameter == [id : Name, type : VarType]

\* register_var makes a symbol for any declaration.
ASSUME SemanticAssumption ==
    /\ MaxSize \in Nat /\ \A t \in VarType : Variable(t) \in Symbol
    /\ Params \subseteq Seq(Parameter)

One(b) == IF b THEN 1 ELSE 0

\* A step, the reports the code adds in it and what the rules say: "spared" is
\* where the code contradicts a sample or its own message, "blind" a command that calls
\* a name that is not declared.
Report(code, rule) ==
    /\ errors' = errors + code /\ judged' = rule
    /\ blind' = (blind \/ rule = "blind")
Silent == Report(0, "right")

\* What the scope rule says each name stands for.
Scoped == [x \in Name |-> Visible(x)]

\* The rules for a declaration, whose name must be new in its block: for
\* semantico/fatorialErroLin3NomeDeclaradoNoMesmoEscopo.txt:3 the parameters are
\* of the body's block.
IsParameter(x) == /\ phase = "bodies" /\ stage = "vars" /\ nest = 1
                  /\ \E d \in decls : d.depth = depth - 1 /\ d.name = x
DeclarationRule(x) ==
    IF DeclaredHere(x) THEN "wrong" ELSE IF IsParameter(x) THEN "spared" ELSE "right"

\* For an expression, and for one whose type must be among some.
ExprRule(e, types) ==
    IF CallsUndeclared(Scoped, e) THEN "blind"
    ELSE IF WellTyped(Scoped, e) /\ TypeOf(Scoped, e) \in types THEN "right" ELSE "wrong"

\* For a returned value: for semantico/fatorialErroLin5TipoRetornado.txt:7 an int
\* is not returned as a car, and for fatorialErroLin4TipoRetornado.txt:5 not 'a' as
\* an int, though the tree has a character as the int it is (goianinha.y:261).
MayBeCharacter(e) == e.kind \notin {"null", "name", "call", "arith", "comparison"}
ReturnRule(e) ==
    IF ExprRule(e, Numeric) = "right" /\ (TypeOf(Scoped, e) # expected \/ MayBeCharacter(e))
    THEN "spared" ELSE ExprRule(e, Numeric)

\* For a condition, which the message of semantic.c:190 wants numeric, yet the code
\* wants an int (semantic.c:188).
ConditionRule(e) ==
    IF ExprRule(e, Numeric) = "right" /\ TypeOf(Scoped, e) # "int" THEN "spared"
    ELSE ExprRule(e, Numeric)

\* register_var: the declaration is reported and dropped over a symbol.
RegisterVar(x, t) ==
    /\ Declare(x, Variable(t))
    /\ Report(One(SymbolSearchCurrent(env, x) # NoSym), DeclarationRule(x))

Consume == size < MaxSize /\ size' = size + 1

\* env_new, the global scope.
Begin ==
    /\ phase = "start" /\ phase' = "globals"
    /\ EnvPushScope /\ Silent
    /\ UNCHANGED <<stage, nest, pass, size>>

GlobalVar(x, t) ==
    /\ phase = "globals" /\ Consume
    /\ RegisterVar(x, t)
    /\ UNCHANGED <<pc, pass>>

\* A function whose name is taken is reported, and its body is still checked in
\* pass 2.  For any other, extract_params_from_ast gives list_init a NULL list.
GlobalFunc(x, t, ps) ==
    /\ phase = "globals" /\ Consume
    /\ funcs' = Append(funcs, [ret |-> t, params |-> ps])
    /\ IF SymbolSearchCurrent(env, x) # NoSym
       THEN Report(1, DeclarationRule(x)) /\ phase' = phase
       ELSE Report(0, DeclarationRule(x)) /\ phase' = "crashed"
    /\ UNCHANGED <<tableVars, stage, nest, g, todo, expected>>

EndGlobals ==
    /\ phase = "globals" /\ phase' = "bodies" /\ Silent
    /\ UNCHANGED <<tableVars, stage, nest, pass, size>>

\* The scope of the parameters, then the block that is the body.
EnterFunction ==
    /\ phase = "bodies" /\ stage = "outside" /\ g < Len(funcs)
    /\ EnvPushScope /\ Silent
    /\ stage' = "params" /\ g' = g + 1
    /\ todo' = funcs[g'].params
    /\ UNCHANGED <<phase, nest, funcs, expected, size>>

RegisterParam ==
    /\ stage = "params" /\ todo # <<>>
    /\ RegisterVar(Head(todo).id, Head(todo).type)
    /\ todo' = Tail(todo)
    /\ UNCHANGED <<pc, funcs, g, expected, size>>

OpenBlock == EnvPushScope /\ Silent /\ nest' = nest + 1 /\ stage' = "vars"

EnterBody ==
    /\ stage = "params" /\ todo = <<>>
    /\ OpenBlock
    /\ expected' = funcs[g].ret
    /\ UNCHANGED <<phase, funcs, g, todo, size>>

\* Mutants of EnterMain: main in the global scope, and a main that is void.
EnterMainUnscoped ==
    /\ phase = "bodies" /\ stage = "outside" /\ g = Len(funcs)
    /\ phase' = "main" /\ nest' = 1 /\ stage' = "vars" /\ expected' = "int" /\ Silent
    /\ UNCHANGED <<tableVars, funcs, g, todo, size>>
EnterMainVoid ==
    /\ phase = "bodies" /\ stage = "outside" /\ g = Len(funcs)
    /\ phase' = "main" /\ OpenBlock /\ expected' = "void"
    /\ UNCHANGED <<funcs, g, todo, size>>

EnterMain ==
    /\ phase = "bodies" /\ stage = "outside" /\ g = Len(funcs)
    /\ phase' = "main" /\ OpenBlock /\ expected' = "int"
    /\ UNCHANGED <<funcs, g, todo, size>>

DeclareVar(x, t) ==
    /\ stage = "vars" /\ Consume
    /\ RegisterVar(x, t)
    /\ UNCHANGED <<pc, pass>>

\* A command: what the code reports of it, and what the rules say.
Command(code, rule) ==
    /\ stage \in {"vars", "cmds"} /\ stage' = "cmds" /\ Consume
    /\ Report(code, rule)
    /\ UNCHANGED <<tableVars, phase, nest, pass>>

CmdExpr(e) ==                        \* also escreva
    Command(Check(Found(env), e).errs, ExprRule(e, Type))

ReturnErrors(v) == v.errs + One(~CheckTypeCompatibility(expected, v.type))
CmdReturn(e) == Command(ReturnErrors(Check(Found(env), e)), ReturnRule(e))

CmdLeia(x) ==
    Command(One(SymbolSearch(env, x) = NoSym), IF Visible(x) = NoSym THEN "wrong" ELSE "right")

\* se and enquanto, up to their condition: the commands they govern follow.
\* cond != T_INT && T_CAR is cond != T_INT.
ControlErrors(v) == v.errs + One(v.type # "int")
CmdControl(e) == Command(ControlErrors(Check(Found(env), e)), ConditionRule(e))

CmdBlock ==
    /\ stage \in {"vars", "cmds"} /\ depth < MaxDepth /\ Consume
    /\ OpenBlock
    /\ UNCHANGED <<phase, pass>>

\* The end of a block: of the whole body when no other is open.
CloseBlock ==
    /\ nest > 0 /\ stage \in {"vars", "cmds"}
    /\ EnvPopScope /\ Silent
    /\ nest' = nest - 1
    /\ stage' = IF nest' = 0 THEN "end" ELSE "cmds"
    /\ UNCHANGED <<phase, pass, size>>

\* Mutants of LeaveFunction: the parameters' scope stays, and the loop does not
\* go on to the next declaration.
LeaveFunctionLeaks ==
    /\ phase = "bodies" /\ stage = "end" /\ stage' = "outside"
    /\ env' = env /\ depth' = depth - 1 /\ decls' = {d \in decls : d.depth < depth}
    /\ Silent /\ UNCHANGED <<phase, nest, pass, size>>
LeaveFunctionRepeats ==
    /\ phase = "bodies" /\ stage = "end" /\ stage' = "outside"
    /\ EnvPopScope /\ g' = g - 1
    /\ Silent /\ UNCHANGED <<phase, nest, funcs, todo, expected, size>>

LeaveFunction ==
    /\ phase = "bodies" /\ stage = "end" /\ stage' = "outside"
    /\ EnvPopScope /\ Silent
    /\ UNCHANGED <<phase, nest, pass, size>>

\* The global scope goes, env_free, and exit(1) after any report.
Finish ==
    /\ phase = "main" /\ stage = "end"
    /\ EnvPopScope /\ Silent
    /\ phase' = IF errors > 0 THEN "rejected" ELSE "accepted"
    /\ UNCHANGED <<stage, nest, pass, size>>

Final == {"accepted", "rejected", "crashed"}
Ended == phase \in Final /\ UNCHANGED vars

Init ==
    /\ TableInit
    /\ phase = "start" /\ stage = "outside" /\ nest = 0
    /\ funcs = <<>> /\ g = 0 /\ todo = <<>> /\ expected = "int"
    /\ errors = 0 /\ judged = "right" /\ blind = FALSE /\ size = 0

Step ==
    \/ Begin \/ EndGlobals \/ EnterFunction \/ RegisterParam \/ EnterBody
    \/ EnterMain \/ CmdBlock \/ CloseBlock \/ LeaveFunction \/ Finish
    \/ \E x \in Name, t \in VarType : GlobalVar(x, t) \/ DeclareVar(x, t)
    \/ \E x \in Name, t \in VarType, ps \in Params : GlobalFunc(x, t, ps)
    \/ \E e \in Expr : CmdExpr(e) \/ CmdReturn(e) \/ CmdControl(e)
    \/ \E x \in Name : CmdLeia(x)

Next == Step \/ Ended

Spec == Init /\ [][Next]_vars
\* The checker runs on until it is done: some step is always taken.
FairSpec == Spec /\ WF_vars(Step)
-----------------------------------------------------------------------------
\* Type invariant.
TypeOK ==
    /\ TableTypeOK
    /\ phase \in {"start", "globals", "bodies", "main"} \cup Final
    /\ stage \in {"outside", "params", "vars", "cmds", "end"}
    /\ nest \in Nat /\ g \in 0..Len(funcs) /\ todo \in Seq(Parameter)
    /\ \A j \in DOMAIN funcs : funcs[j] \in [ret : VarType, params : Params]
    /\ expected \in VarType /\ errors \in Nat
    /\ judged \in {"right", "wrong", "spared", "blind"}
    /\ blind \in BOOLEAN /\ size \in 0..MaxSize

\* Scopes are balanced (env_push_scope and env_pop_scope of semantic.c): the
\* environment holds the global scope in both passes, one for the parameters
\* while a function is checked, one for each open block, and nothing at the end.
ScopesBalanced ==
    Len(env) = One(phase \in {"globals", "bodies", "main", "crashed"})
               + One(phase = "bodies" /\ stage # "outside") + nest

\* A declaration or a command is reported exactly if it breaks a rule of scope or
\* of type, judged by the blocks that enclose it in the source: nothing of a closed
\* block or of another function body is ever seen, nothing declared is missed, and
\* no other step reports.  Left out are calls of undeclared names (semantic.c:74),
\* what only samples call wrong, a body variable with the name of a parameter
\* (semantic.c:302) and returning a car for an int, an int for a car (201) or a
\* constant, which may be a character, and conditions of type car (188).
ReportsWhatIsWrong == [][
    judged' \in {"right", "wrong"} => (errors' > errors <=> judged' = "wrong") ]_vars

Globals(e) == IF e = <<>> THEN NoScope ELSE Last(e)

\* Only pass 1 declares globals: no body adds, removes or changes a global, so
\* every function and main see the globals of the whole source.
GlobalsFrozen == [][
    (phase \in {"bodies", "main"} /\ phase' \notin Final) => Globals(env') = Globals(env) ]_vars

\* The analysis ends for every source.
AnalysisEnds == <>(phase \in Final)

\* What semantico/fatorialCorreto.txt:1 says of a source that declares a
\* function, "programa CORRETO": the checker does not crash on it.
NeverCrashes == phase # "crashed"

\* What the message "Funcao '%s' nao declarada" of semantic.c:77 announces:
\* a program that calls a name nobody declared is not accepted.
UndeclaredCallsRejected == phase = "accepted" => ~blind
============================================================================
