------------------------------- MODULE Printer -------------------------------
(***************************************************************************)
(* print_program of src/src/print_ast.c over the tree that Parser built.   *)
(* print_expr, print_cmd, print_block and the others are alike in what     *)
(* matters here: print the node, then its parts in order, then go on to    *)
(* the node after it when the caller walks the list.  todo is what the     *)
(* calls in progress have still to do, innermost first; each looks first   *)
(* whether its argument is NULL.                                           *)
(***************************************************************************)
EXTENDS Parser

VARIABLES stage,         \* "waiting" for a tree, "printing" or "printed"
          todo,          \* nodes to print, or NULL, and whether next is followed
          out            \* history: the nodes printed, in order

printVars == <<stage, todo, out>>

Cursors(heads, walk) == [j \in DOMAIN heads |-> [at |-> heads[j], walk |-> walk]]

\* print_program: the globals, then the variables and commands of the program.
PrintProgram ==
    /\ stage = "waiting" /\ root # <<>>
    /\ stage' = "printing" /\ todo' = Cursors(root, TRUE)
    /\ UNCHANGED <<vars, out>>

\* The commands that a se or an enquanto governs are printed alone; all the
\* other parts of a node are lists.
Parts(p) == Cursors(tree[p].kids, tree[p].kind # "control")
After(c) == IF c.walk THEN Cursors(<<next[c.at]>>, TRUE) ELSE <<>>

\* The end of a list, or a part that a node lacks.
PrintNothing ==
    /\ stage = "printing" /\ todo # <<>> /\ Head(todo).at = NULL
    /\ todo' = Tail(todo)
    /\ UNCHANGED <<vars, stage, out>>

\* A mutant of PrintNode: the rest of a list before the parts of the node.
PrintNodeLate ==
    /\ stage = "printing" /\ todo # <<>> /\ Head(todo).at # NULL
    /\ out' = Append(out, Head(todo).at)
    /\ todo' = After(Head(todo)) \o Parts(Head(todo).at) \o Tail(todo)
    /\ UNCHANGED <<vars, stage>>

PrintNode ==
    /\ stage = "printing" /\ todo # <<>> /\ Head(todo).at # NULL
    /\ out' = Append(out, Head(todo).at)
    /\ todo' = Parts(Head(todo).at) \o After(Head(todo)) \o Tail(todo)
    /\ UNCHANGED <<vars, stage>>

PrintEnd ==
    /\ stage = "printing" /\ todo = <<>> /\ stage' = "printed"
    /\ UNCHANGED <<vars, todo, out>>

PrintInit == Init /\ stage = "waiting" /\ todo = <<>> /\ out = <<>>

PrintNext ==
    \/ Next /\ UNCHANGED printVars
    \/ PrintProgram \/ PrintNothing \/ PrintNode \/ PrintEnd

PrintSpec == PrintInit /\ [][PrintNext]_<<vars, printVars>>
-----------------------------------------------------------------------------
\* Printing visits every node once and in the order of the source: a construct
\* before what it is made of, and otherwise what was read first before what was
\* read later.  So the links of the tree (children and next) reach everything
\* that was parsed, each thing from one place, with no cycle.  Blocks that begin
\* with an empty command have lost the rest, but nothing is printed twice.
PrintsWholeSource ==
    LET Place(n) == CHOOSE j \in DOMAIN out : out[j] = n
        lost == \E f \in closed : f.bare /\ f.src # <<>>
    IN  /\ Cardinality(Range(out)) = Len(out)
        /\ stage = "printed" /\ ~lost =>
              /\ Range(out) = 1..used
              /\ \A m, n \in 1..used : m < n => (Place(n) < Place(m) <=> first[n] <= m)
============================================================================
