------------------------------- MODULE Parser -------------------------------
(***************************************************************************)
(* How the actions of src/src/goianinha.y build the tree of ast.c: every   *)
(* list of the tree (globals, parameters, variables, commands, arguments)  *)
(* is a chain of next fields, extended at its end as the source is read.   *)
(* The stack holds the lists that are still open, innermost last.  A node  *)
(* keeps its links, its children and a variable's type; the conditions and *)
(* the operands of operators are left out.                                 *)
(***************************************************************************)
EXTENDS Integers, FiniteSets, SequencesExt

CONSTANTS MaxNodes,      \* bound: nodes of a tree
          MaxStack,      \* bound: lists open at once
          MaxEmpty,      \* bound: empty commands in a source
          NULL

ASSUME NodesAssumption == MaxNodes \in Nat /\ MaxStack \in Nat \ {0} /\ MaxEmpty \in Nat
                          /\ NULL \notin 1..MaxNodes

VARIABLES used,          \* nodes allocated: 1..used, in order
          next,          \* the next field of each node
          tree,          \* the children of each node: lists, or the commands
                         \* that a "control" command governs
          first,         \* history: the first node read as part of each node
          empty,         \* the empty commands read
          root,          \* the lists of the program, <<>> while it is NULL
          type,          \* the type field of the variables
          stack,         \* the open lists
          closed,        \* history: the lists that are finished
          asked,         \* history: the type the source gives each variable
          phase          \* "parsing", or how yyparse ended

built == <<tree, first, root, empty>>
vars == <<used, next, built, type, stack, closed, asked, phase>>

Node == 1..MaxNodes
VarType == {"int", "car"}

\* A list: its first node, and in src the nodes the source puts in it; a bare one
\* is of commands and begins with the empty command ";", which is no node.  A block
\* is owned by a function, a command or the program.  kids are the parts of the
\* construct that are finished, from its first node.
List(kind, owner) == [kind |-> kind, owner |-> owner, head |-> NULL, src |-> <<>>,
                      bare |-> FALSE, kids |-> <<>>, from |-> used + 1]
Top == Last(stack)
Reading(kinds) == phase = "parsing" /\ Top.kind \in kinds
Push(f) == Len(stack) < MaxStack /\ stack' = Append(stack, f)

\* The nodes of a chain from h.
Chain(h, nxt) ==
    LET upTo[n \in 0..MaxNodes] ==
            IF n = 0 THEN <<h>>
            ELSE LET c == upTo[n - 1]
                 IN  IF nxt[Last(c)] = NULL THEN c ELSE Append(c, nxt[Last(c)])
    IN  IF h = NULL THEN <<>> ELSE upTo[MaxNodes]

Fresh(k) == (used + 1)..(used + k)
Allocate(k) == used + k <= MaxNodes /\ used' = used + k

\* The node that used counts last holds the construct of list f.
Leaf == [kind |-> "leaf", kids |-> <<>>]
Built(kind, kids, from) ==
    /\ tree' = [tree EXCEPT ![used'] = [kind |-> kind, kids |-> kids]]
    /\ first' = [first EXCEPT ![used'] = from]
    /\ UNCHANGED <<root, empty>>
Leaves == /\ first' = [n \in Node |-> IF n \in used + 1..used' THEN n ELSE first[n]]
          /\ UNCHANGED <<tree, root, empty>>

\* A mutant of Extend: after the first node, what followed it is lost.
ExtendAtHead(h, nxt, new) == IF h = NULL THEN nxt ELSE [nxt EXCEPT ![h] = new]

\* Links new after the last node of the chain from h.
Extend(h, nxt, new) ==
    IF h = NULL THEN nxt ELSE [nxt EXCEPT ![Last(Chain(h, nxt))] = new]

\* The loops that walk aux to the last node, in DeclFuncVar, ListaDeclVar,
\* ListaParametrosCont and ListExpr: list f with new at its end.
Added(f, new) == [f EXCEPT !.head = IF @ = NULL THEN new ELSE @, !.src = Append(@, new)]

\* ListaComando: the first command starts the list, whatever it is, and
\* ast_append_cmd returns at once on a NULL head.
Written(c) == IF c = NULL THEN <<>> ELSE <<c>>
WithCommand(f, c) ==
    IF f.kind = "vars"
    THEN [f EXCEPT !.kind = "cmds", !.head = c, !.src = Written(c), !.bare = (c = NULL),
                   !.kids = Append(@, f.head)]
    ELSE [f EXCEPT !.src = @ \o Written(c)]

\* A Comando c is reduced, over the open lists s, after the lists done: it is
\* the first or the next of a block, or the one a se or an enquanto governs.
ReduceCommand(s, c, done) ==
    LET f == Last(s) IN
    /\ stack' = Front(s) \o <<IF f.kind = "control"
                              THEN [f EXCEPT !.kind = "governed", !.kids = Append(@, c)]
                              ELSE WithCommand(f, c)>>
    /\ next' = IF f.kind = "cmds" THEN Extend(f.head, next, c) ELSE next
    /\ closed' = closed \cup done \cup (IF f.kind = "vars" THEN {f} ELSE {})

\* A mutant of DeclareVars: what DeclVar makes is void.
DeclareVarsVoid(t, k, retype) ==
    /\ type' = [n \in Node |-> IF n \notin Fresh(k) THEN type[n]
                               ELSE IF retype \/ n = used + 1 THEN t ELSE "void"]
    /\ asked' = [n \in Node |-> IF n \in Fresh(k) THEN t ELSE asked[n]]

\* Tipo IDENTIFIER DeclVar: k variables, the last one first; DeclVar makes
\* them int and ListaDeclVar gives those of a block the type they share.
DeclareVars(t, k, retype) ==
    /\ type' = [n \in Node |-> IF n \notin Fresh(k) THEN type[n]
                               ELSE IF retype \/ n = used + 1 THEN t ELSE "int"]
    /\ asked' = [n \in Node |-> IF n \in Fresh(k) THEN t ELSE asked[n]]
Linked(k) == [n \in Node |-> IF n \in Fresh(k) /\ n < used + k THEN n + 1 ELSE next[n]]
-----------------------------------------------------------------------------
\* A global declaration of k variables; node used + k + 1 is its global_decl_t.
GlobalVars(t, k) ==
    /\ Reading({"globals"})
    /\ Allocate(k + 1)
    /\ LET g == used + k + 1
           one == [List("vars", "global") EXCEPT !.head = used + 1,
                       !.src = [j \in 1..k |-> used + j]]
       IN  /\ next' = Extend(Top.head, Linked(k), g)
           /\ stack' = Front(stack) \o <<Added(Top, g)>>
           /\ closed' = closed \cup {one}
    /\ DeclareVars(t, k, FALSE)
    /\ tree' = [tree EXCEPT ![used'] = [kind |-> "gvar", kids |-> <<used + 1>>]]
    /\ first' = [n \in Node |-> IF n \in Fresh(k) THEN n
                                ELSE IF n = used' THEN used + 1 ELSE first[n]]
    /\ UNCHANGED <<root, empty, phase>>

BeginFunction ==
    /\ Reading({"globals"}) /\ Push(List("params", "function"))
    /\ UNCHANGED <<used, next, built, type, closed, asked, phase>>

Param ==
    /\ Reading({"params"}) /\ Allocate(1)
    /\ next' = Extend(Top.head, next, used + 1)
    /\ stack' = Front(stack) \o <<Added(Top, used + 1)>>
    /\ Leaves
    /\ UNCHANGED <<type, closed, asked, phase>>

\* The block after the parameters, the program's, or a command's.
FunctionBlock ==
    /\ Reading({"params"})
    /\ closed' = closed \cup {Top}
    /\ stack' = Front(stack) \o <<[Top EXCEPT !.kind = "vars", !.head = NULL,
                                       !.src = <<>>, !.kids = <<Top.head>>]>>
    /\ UNCHANGED <<used, next, built, type, asked, phase>>

ProgramBlock ==
    /\ Reading({"globals"}) /\ Push(List("vars", "program"))
    /\ UNCHANGED <<used, next, built, type, closed, asked, phase>>

CommandBlock ==
    /\ Reading({"vars", "cmds", "control"}) /\ Push(List("vars", "command"))
    /\ UNCHANGED <<used, next, built, type, closed, asked, phase>>

\* ListaDeclVar: k variables follow those the block has, from node at on.
AppendVars(t, k, retype, at) ==
    /\ Reading({"vars"}) /\ Allocate(k) /\ DeclareVars(t, k, retype)
    /\ next' = Extend(Top.head, Linked(k), at)
    /\ stack' = Front(stack) \o <<[Top EXCEPT
                    !.head = IF @ = NULL THEN used + 1 ELSE @,
                    !.src = @ \o [j \in 1..k |-> used + j]]>>
    /\ Leaves
    /\ UNCHANGED <<closed, phase>>

\* Mutants of LocalVars: the list goes on with the second of the variables, and
\* the loop that gives them their type is left out.
LocalVarsRest(t, k) == AppendVars(t, k, TRUE, IF k = 1 THEN used + 1 ELSE used + 2)
LocalVarsInt(t, k) == AppendVars(t, k, FALSE, used + 1)

LocalVars(t, k) == AppendVars(t, k, TRUE, used + 1)

EmptyCommand ==
    /\ Reading({"vars", "cmds", "control"})
    /\ empty < MaxEmpty /\ empty' = empty + 1
    /\ ReduceCommand(stack, NULL, {})
    /\ UNCHANGED <<used, tree, first, root, type, asked, phase>>

\* An expression without calls, retorne, leia, escreva or novalinha.
SimpleCommand ==
    /\ Reading({"vars", "cmds", "control"}) /\ Allocate(1)
    /\ ReduceCommand(stack, used + 1, {})
    /\ Leaves
    /\ UNCHANGED <<type, asked, phase>>

\* se and enquanto, up to the command they govern; that of a se may be followed
\* by senao and a second one.  A senao goes to the innermost se, so a command
\* that ends in a se without one keeps it from the commands around.
BeginControl ==
    /\ Reading({"vars", "cmds", "control"})
    /\ \E k \in {"se", "enquanto"} : Push(List("control", k))
    /\ UNCHANGED <<used, next, built, type, closed, asked, phase>>

Senao ==
    /\ Reading({"governed"}) /\ Top.owner = "se"
    /\ stack' = Front(stack) \o <<[Top EXCEPT !.kind = "control", !.owner = "senao"]>>
    /\ UNCHANGED <<used, next, built, type, closed, asked, phase>>

EndControl ==
    /\ Reading({"governed"}) /\ Allocate(1)
    /\ LET below == Front(stack)
           outer == IF Top.owner \in {"se", "dangling"} /\ Last(below).kind = "control"
                    THEN Front(below) \o <<[Last(below) EXCEPT !.owner = "dangling"]>>
                    ELSE below
       IN  ReduceCommand(outer, used + 1, {})
    /\ Built("control", Top.kids, Top.from)
    /\ UNCHANGED <<type, asked, phase>>

\* A call; those that are operands of an operator are left out.
BeginCall ==
    /\ Reading({"vars", "cmds", "control", "args"}) /\ Push(List("args", "call"))
    /\ UNCHANGED <<used, next, built, type, closed, asked, phase>>

Arg ==
    /\ Reading({"args"}) /\ Allocate(1)
    /\ next' = Extend(Top.head, next, used + 1)
    /\ stack' = Front(stack) \o <<Added(Top, used + 1)>>
    /\ Leaves
    /\ UNCHANGED <<type, closed, asked, phase>>

\* A call inside a list of arguments, and a call that is a command.
EndCallArg ==
    /\ Reading({"args"}) /\ Len(stack) > 1 /\ Allocate(1)
    /\ LET outer == stack[Len(stack) - 1] IN
       /\ outer.kind = "args"
       /\ next' = Extend(outer.head, next, used + 1)
       /\ stack' = Front(Front(stack)) \o <<Added(outer, used + 1)>>
    /\ closed' = closed \cup {Top}
    /\ Built("call", <<Top.head>>, Top.from)
    /\ UNCHANGED <<type, asked, phase>>

EndCallCommand ==
    /\ Reading({"args"}) /\ stack[Len(stack) - 1].kind # "args" /\ Allocate(1)
    /\ ReduceCommand(Front(stack), used + 1, {Top})
    /\ Built("call", <<Top.head>>, Top.from)
    /\ UNCHANGED <<type, asked, phase>>

\* The end of a block, which has at least one command.
EndBlock ==
    /\ Reading({"cmds"})
    /\ \/ /\ Top.owner = "program"
          /\ phase' = "parsed" /\ stack' = Front(stack) /\ closed' = closed \cup {Top}
          /\ root' = <<stack[1].head>> \o Append(Top.kids, Top.head)
          /\ UNCHANGED <<used, next, tree, first, empty>>
       \/ /\ Top.owner = "function" /\ Allocate(1)
          /\ LET globals == stack[Len(stack) - 1] IN
             /\ next' = Extend(globals.head, next, used + 1)
             /\ stack' = Front(Front(stack)) \o <<Added(globals, used + 1)>>
          /\ Built("func", Append(Top.kids, Top.head), Top.from)
          /\ closed' = closed \cup {Top} /\ phase' = phase
       \/ /\ Top.owner = "command" /\ Allocate(1)
          /\ ReduceCommand(Front(stack), used + 1, {Top})
          /\ Built("block", Append(Top.kids, Top.head), Top.from)
          /\ phase' = phase
    /\ UNCHANGED <<type, asked>>

NoTree ==
    /\ used' = 0 /\ next' = [n \in Node |-> NULL]
    /\ type' = [n \in Node |-> "int"] /\ asked' = [n \in Node |-> "int"]
    /\ tree' = [n \in Node |-> Leaf] /\ first' = [n \in Node |-> n] /\ root' = <<>> /\ empty' = 0
    /\ stack' = <<[List("globals", "program") EXCEPT !.from = 1]>> /\ closed' = {}

\* There is no error recovery: any syntax error ends yyparse with 1, and a
\* safe_alloc that fails ends the process.  Nobody looks at the nodes again.
GiveUp ==
    /\ phase = "parsing" /\ phase' \in {"failed", "exited"}
    /\ NoTree

Init ==
    /\ used = 0 /\ next = [n \in Node |-> NULL] /\ phase = "parsing"
    /\ type = [n \in Node |-> "int"] /\ asked = [n \in Node |-> "int"]
    /\ tree = [n \in Node |-> Leaf] /\ first = [n \in Node |-> n] /\ root = <<>> /\ empty = 0
    /\ stack = <<List("globals", "program")>> /\ closed = {}

Next ==
    \/ \E t \in VarType, k \in Node : GlobalVars(t, k) \/ LocalVars(t, k)
    \/ BeginFunction \/ Param
    \/ FunctionBlock \/ ProgramBlock \/ CommandBlock
    \/ EmptyCommand \/ SimpleCommand
    \/ BeginControl \/ Senao \/ EndControl
    \/ BeginCall \/ Arg \/ EndCallArg \/ EndCallCommand
    \/ EndBlock
    \/ GiveUp

Spec == Init /\ [][Next]_vars
-----------------------------------------------------------------------------
Lists == closed \cup Range(stack)
Kinds == {"globals", "params", "vars", "cmds", "args", "control", "governed"}

\* Type invariant.
TypeOK ==
    /\ used \in 0..MaxNodes /\ next \in [Node -> Node \cup {NULL}]
    /\ type \in [Node -> VarType] /\ asked \in [Node -> VarType]
    /\ first \in [Node -> Node] /\ empty \in 0..MaxEmpty
    /\ Range(root) \subseteq 1..used \cup {NULL}
    /\ \A n \in Node : Range(tree[n].kids) \subseteq 1..used \cup {NULL}
    /\ phase \in {"parsing", "parsed", "failed", "exited"}
    /\ Len(stack) \in 1..MaxStack
    /\ \A f \in Lists : /\ f.kind \in Kinds /\ f.head \in 1..used \cup {NULL}
                        /\ Range(f.src) \subseteq 1..used

\* Every list of the tree, open or finished, and whatever was built around it
\* since, is the nodes of the source in source order; one of commands only if
\* the block does not begin with an empty command.
ListsFollowSource == \A f \in Lists : f.bare \/ Chain(f.head, next) = f.src

\* What ast_append_cmd says it does ("concatenar listas de comandos", ast.c:191):
\* every command of a block is in its list.
NoCommandLost == \A f \in Lists :
    f.kind = "cmds" => Chain(f.head, next) = f.src

\* No node is in two lists, or twice in one: a next field is the only link to
\* its node, and no first node of a list has one before it.
NothingShared ==
    /\ \A m, n \in 1..used : next[m] = next[n] /\ next[m] # NULL => m = n
    /\ \A f \in Lists, n \in 1..used : f.head # NULL => next[n] # f.head

\* A variable of a block has the type its declaration gives it, as has the
\* first of a global declaration; the others of a global declaration are int.
TypesFollowSource == \A f \in Lists : f.kind = "vars" =>
    \A j \in DOMAIN f.src :
        type[f.src[j]] = IF f.owner = "global" /\ j > 1 THEN "int" ELSE asked[f.src[j]]
============================================================================
