------------------------------- MODULE Driver -------------------------------
(***************************************************************************)
(* main of src/src/main.c, with the two environments of symbol_table.c it  *)
(* makes, one around yyparse and one in semantic_program, over a memory    *)
(* that may run out at any allocation.  What SymbolTable leaves out is     *)
(* here: the maps, the list's nodes and the copies of the names.  A source *)
(* is any declarations, uses and nested blocks, met as it is checked.      *)
(***************************************************************************)
EXTENDS Integers, FiniteSets, SequencesExt

CONSTANTS Name,
          NULL,
          GrowAt,        \* growat: the sizes at which a map has to grow
          MaxDepth,      \* bound: blocks open at once
          MaxSize        \* bound: declarations, uses and blocks in a source

ASSUME DriverAssumption ==
    /\ GrowAt \subseteq Nat /\ MaxDepth \in Nat \ {0} /\ MaxSize \in Nat
    /\ NULL # "symbol" /\ NULL \notin 1..MaxSize \cup [Name -> 1..MaxSize \cup {NULL}]

VARIABLES phase,         \* where main stands
          status,        \* "running", "crash", or the exit status:
                         \* "success" for 0, "failure" for 1
          errors,        \* semantic_errors
          scopes,        \* the list: for each scope NULL, hashmap_new's result,
                         \* or a map from names to the copies of the names
          live,          \* the copies of names that are allocated
          maps,          \* the maps that are allocated
          failed,        \* history: what could not be allocated
          lost,          \* history: the maps and names nothing points to any more
          extracted,     \* history: extract_params_from_ast was called
          blocks,        \* history: the names each open block declares
          faults,        \* history: the uses and declarations that are wrong
          size           \* declarations, uses and blocks so far

main == <<phase, status, errors>>
heap == <<scopes, live, maps>>
refused == <<failed, lost, extracted>>
history == <<refused, blocks, faults, size>>
vars == <<main, heap, history>>

NoScope == [x \in Name |-> NULL]
Names(scope) == IF scope = NULL THEN {} ELSE {x \in Name : scope[x] # NULL}
Ids(scope) == {scope[x] : x \in Names(scope)}
\* malloc gives again what was freed.
Fresh == CHOOSE n \in 1..MaxSize : n \notin live /\ 1..(n - 1) \subseteq live
One(b) == IF b THEN 1 ELSE 0

Running == status = "running"
Crash(what) ==
    /\ status' = "crash" /\ failed' = failed \cup what
    /\ UNCHANGED <<lost, extracted>>

\* env_push_scope: without a node the new map is out of reach, and without a
\* map the list holds NULL.
PushScope ==
    \E map, node \in BOOLEAN :
        LET scope == IF map THEN NoScope ELSE NULL IN
        /\ scopes' = IF node THEN <<scope>> \o scopes ELSE scopes
        /\ maps' = maps + One(map)
        /\ failed' = failed \cup (IF map THEN {} ELSE {"map"})
                            \cup (IF node THEN {} ELSE {"node"})
        /\ lost' = [lost EXCEPT !.maps = @ + One(map /\ ~node)]
        /\ blocks' = <<{}>> \o blocks
        /\ UNCHANGED <<live, extracted>>

\* A mutant of FreeScopes: hashmap_free without its test for NULL.
FreeScopesNull(k) ==
    LET n == IF k < Len(scopes) THEN k ELSE Len(scopes)
    IN  /\ scopes' = SubSeq(scopes, n + 1, Len(scopes))
        /\ live' = live \ UNION {Ids(scopes[j]) : j \in 1..n}
        /\ maps' = maps - n

\* list_remove of the first k scopes, if there are as many: hashmap_free and,
\* for each symbol, symbol_free.
FreeScopes(k) ==
    LET n == IF k < Len(scopes) THEN k ELSE Len(scopes)
    IN  /\ scopes' = SubSeq(scopes, n + 1, Len(scopes))
        /\ live' = live \ UNION {Ids(scopes[j]) : j \in 1..n}
        /\ maps' = maps - Cardinality({j \in 1..n : scopes[j] # NULL})

\* env_pop_scope, and the last one with the env_free that follows it.
PopScope == FreeScopes(1) /\ blocks' = Tail(blocks)
FreeEnv == FreeScopes(Len(scopes)) /\ blocks' = <<>>

\* env_new writes into the list whether or not there is one.
EnvNew(next) ==
    \/ phase' = next /\ PushScope /\ UNCHANGED <<status, errors, faults, size>>
    \/ Crash({"env"}) /\ UNCHANGED <<phase, errors, heap, blocks, faults, size>>
-----------------------------------------------------------------------------
Open ==
    /\ Running /\ phase = "open"
    /\ \/ phase' = "environment" /\ status' = status
       \/ phase' = phase /\ status' = "failure"
    /\ UNCHANGED <<errors, heap, history>>

MakeEnv == Running /\ phase = "environment" /\ EnvNew("parse")

\* A mutant of Parse: main frees the environment only after a parse that went
\* well.
ParseLeaks ==
    /\ Running /\ phase = "parse"
    /\ \/ FreeEnv /\ phase' = "print" /\ status' = status
       \/ phase' = "aborted" /\ status' = "failure" /\ UNCHANGED <<heap, blocks>>
       \/ phase' = phase /\ status' = "failure" /\ UNCHANGED <<heap, blocks>>
    /\ UNCHANGED <<errors, refused, faults, size>>

\* yyparse returns and the environment goes: main goes on to print the tree
\* after a 0 and returns 1 after any other result.  The scanner and safe_alloc
\* exit with 1 themselves.
Parse ==
    /\ Running /\ phase = "parse"
    /\ \/ FreeEnv /\ phase' = "print" /\ status' = status
       \/ FreeEnv /\ phase' = "aborted" /\ status' = "failure"
       \/ phase' = phase /\ status' = "failure" /\ UNCHANGED <<heap, blocks>>
    /\ UNCHANGED <<errors, refused, faults, size>>

\* print_program, which changes nothing, and the beginning of semantic_program.
BeginCheck == Running /\ phase = "print" /\ EnvNew("check")

Checking == Running /\ phase = "check" /\ size < MaxSize /\ size' = size + 1

EnterBlock ==
    /\ Checking /\ Len(blocks) < MaxDepth
    /\ PushScope
    /\ UNCHANGED <<main, faults>>

LeaveBlock ==
    /\ Running /\ phase = "check" /\ Len(blocks) > 1
    /\ PopScope
    /\ UNCHANGED <<main, refused, faults, size>>

\* symbol_search: NULL in the list crashes the search that comes by.
Hits(x) == {j \in DOMAIN scopes : x \in Names(scopes[j])}
SearchCrashes(x) ==
    \E n \in DOMAIN scopes : scopes[n] = NULL /\ \A h \in Hits(x) : n < h
Lookup(x, reports, wrong) ==
    /\ Checking
    /\ IF SearchCrashes(x) THEN Crash({}) /\ errors' = errors
       ELSE errors' = errors + One(reports) /\ UNCHANGED <<status, refused>>
    /\ faults' = faults + One(wrong)
    /\ UNCHANGED <<phase, heap, blocks>>

\* A mutant of Leia: an undeclared name is let through, as check_expr does.
LeiaSilent(x) == Lookup(x, FALSE, \A j \in DOMAIN blocks : x \notin blocks[j])

\* leia reports a name that is not found.
Leia(x) == Lookup(x, Hits(x) = {}, \A j \in DOMAIN blocks : x \notin blocks[j])

\* check_expr does not: a name or a call that is not found is typed in silence.
\* Whether a type is reported is left open, and then it is wrong.
Use(x) == \E mistyped \in BOOLEAN : Lookup(x, mistyped, mistyped)

\* symbol_new_var, symbol_add and free(s): a symbol or a copy of the name that
\* cannot be allocated crashes symbol_hash; a map that cannot grow, or a list
\* without a scope, drops the symbol and keeps its name allocated.
Drop(what) ==
    /\ failed' = failed \cup what /\ lost' = [lost EXCEPT !.names = @ \cup {Fresh}]
    /\ UNCHANGED <<scopes, extracted>>
NewSymbol(x) ==
    \/ scopes # <<>> /\ (Crash({"symbol"}) \/ Crash({"id"})) /\ UNCHANGED heap
    \/ /\ scopes = <<>> /\ failed' \in {failed \cup {"symbol"}, failed \cup {"id"}}
       /\ UNCHANGED <<status, heap, lost, extracted>>
    \/ /\ live' = live \cup {Fresh} /\ UNCHANGED <<status, maps>>
       /\ \/ /\ scopes # <<>>
             /\ scopes' = [scopes EXCEPT ![1] = [@ EXCEPT ![x] = Fresh]]
             /\ UNCHANGED refused
          \/ /\ scopes # <<>> /\ Cardinality(Names(Head(scopes))) \in GrowAt
             /\ Drop({"grow"})
          \/ scopes = <<>> /\ Drop({})

DeclaredHere(x) == scopes # <<>> /\ x \in Names(Head(scopes))

\* Mutants of RegisterVar: symbol_free(s) for free(s), and symbol_search for
\* symbol_search_current.
RegisterVarFreesId(x) ==
    IF scopes # <<>> /\ Head(scopes) = NULL
    THEN Crash({}) /\ UNCHANGED <<errors, heap>>
    ELSE \/ DeclaredHere(x) /\ errors' = errors + 1 /\ UNCHANGED <<status, refused, heap>>
         \/ /\ scopes # <<>> /\ ~DeclaredHere(x)
            /\ scopes' = [scopes EXCEPT ![1] = [@ EXCEPT ![x] = Fresh]]
            /\ UNCHANGED <<status, errors, refused, live, maps>>
RegisterVarAnyScope(x) ==
    IF scopes # <<>> /\ Head(scopes) = NULL
    THEN Crash({}) /\ UNCHANGED <<errors, heap>>
    ELSE \/ /\ \E j \in DOMAIN scopes : x \in Names(scopes[j])
            /\ errors' = errors + 1 /\ UNCHANGED <<status, refused, heap>>
         \/ ~DeclaredHere(x) /\ NewSymbol(x) /\ errors' = errors

\* register_var: reported and dropped over a symbol of the same scope.
RegisterVar(x) ==
    IF scopes # <<>> /\ Head(scopes) = NULL
    THEN Crash({}) /\ UNCHANGED <<errors, heap>>
    ELSE \/ DeclaredHere(x) /\ errors' = errors + 1 /\ UNCHANGED <<status, refused, heap>>
         \/ ~DeclaredHere(x) /\ NewSymbol(x) /\ errors' = errors

Variable(x) ==
    /\ Checking
    /\ RegisterVar(x)
    /\ blocks' = [blocks EXCEPT ![1] = @ \cup {x}]
    /\ faults' = faults + One(x \in Head(blocks))
    /\ UNCHANGED phase

\* A function of a new name: extract_params_from_ast gives list_init the NULL it
\* starts from, which crashes whatever memory there is.
Function(x) ==
    /\ Checking /\ Len(blocks) = 1
    /\ \/ DeclaredHere(x) /\ errors' = errors + 1 /\ UNCHANGED <<status, refused>>
       \/ /\ scopes # <<>> /\ Head(scopes) = NULL
          /\ Crash({}) /\ errors' = errors
       \/ /\ ~DeclaredHere(x) /\ (scopes # <<>> => Head(scopes) # NULL)
          /\ status' = "crash" /\ extracted' = TRUE /\ UNCHANGED <<errors, failed, lost>>
    /\ faults' = faults + One(x \in Head(blocks))
    /\ UNCHANGED <<phase, heap, blocks>>

\* The global scope goes; exit(1) after any report, and main's return 0.
Finish ==
    /\ Running /\ phase = "check" /\ Len(blocks) = 1
    /\ FreeEnv
    /\ status' = IF errors > 0 THEN "failure" ELSE "success"
    /\ UNCHANGED <<phase, errors, refused, faults, size>>

Init ==
    /\ phase = "open" /\ status = "running" /\ errors = 0
    /\ scopes = <<>> /\ live = {} /\ maps = 0
    /\ failed = {} /\ lost = [maps |-> 0, names |-> {}] /\ extracted = FALSE
    /\ blocks = <<>> /\ faults = 0 /\ size = 0

Next ==
    \/ Open \/ MakeEnv \/ Parse \/ BeginCheck \/ EnterBlock \/ LeaveBlock \/ Finish
    \/ \E x \in Name : Leia(x) \/ Use(x) \/ Variable(x) \/ Function(x)

Spec == Init /\ [][Next]_vars
-----------------------------------------------------------------------------
Kinds == {"env", "map", "node", "symbol", "id", "grow"}

\* Type invariant.
TypeOK ==
    /\ phase \in {"open", "environment", "parse", "aborted", "print", "check"}
    /\ status \in {"running", "crash", "failure", "success"} /\ errors \in 0..size
    /\ live \subseteq 1..MaxSize /\ maps \in Nat /\ failed \subseteq Kinds
    /\ lost \in [maps : Nat, names : SUBSET (1..MaxSize)] /\ extracted \in BOOLEAN
    /\ \A j \in DOMAIN scopes :
          scopes[j] = NULL \/ scopes[j] \in [Name -> 1..MaxSize \cup {NULL}]
    /\ blocks \in Seq(SUBSET Name) /\ faults \in 0..size /\ size \in 0..MaxSize

\* hashmap_set copies the symbol, with its pointer to the name, into a bucket,
\* and register_var frees the original: after any calls and failures a bucket's
\* name is allocated, and no two buckets share one, so symbol_free frees no
\* name twice and no search reads a name that is gone.
OneOwner ==
    /\ \A s \in Range(scopes) : Ids(s) \subseteq live
    /\ \A j, m \in DOMAIN scopes : \A x \in Names(scopes[j]), y \in Names(scopes[m]) :
          scopes[j][x] = scopes[m][y] => j = m /\ x = y

\* When main returns, after a parse that failed, a check or its exit(1), and
\* before it makes the second environment, it has freed all maps and names but
\* those nothing points to: the map of a scope without a node (symbol_table.c:56)
\* and the name of a symbol that no map took (semantic.c:42).
NothingLeft ==
    \/ phase = "print" /\ Running
    \/ phase = "aborted"
    \/ phase = "check" /\ status \in {"failure", "success"}
    => scopes = <<>> /\ live = lost.names /\ maps = lost.maps

\* The environment, its maps and its names are the table of SymbolTable until
\* an allocation fails: every step of main and of semantic_program is a step
\* that SymbolTable allows, or leaves the table alone.
Table == INSTANCE SymbolTable WITH
    Symbol <- {"symbol"}, NoSym <- NULL, depth <- Len(blocks),
    env <- [j \in DOMAIN scopes |-> [x \in Name |-> IF x \in Names(scopes[j])
                                                    THEN "symbol" ELSE NULL]],
    decls <- UNION {{[depth |-> Len(blocks) + 1 - j, name |-> x, sym |-> "symbol"]
                        : x \in blocks[j]} : j \in DOMAIN blocks}
ImplementsTable == [][failed' = {} => Table!TableNext \/ UNCHANGED Table!tableVars]_vars

\* How main ends: it crashes only if an allocation whose result nobody checks
\* failed, never for the list's node or the map's growth, which are refused
\* quietly, or at the first function of a new name; unless one of those two was
\* refused, a checked source is accepted exactly if no declaration repeats a name
\* of its block, no leia reads a name no block declares, and no type is reported.
EndsAsItShould ==
    /\ status = "crash" => failed \ {"node", "grow"} # {} \/ extracted
    /\ phase = "check" /\ status \in {"failure", "success"} /\ failed \cap {"node", "grow"} = {}
       => (status = "success" <=> faults = 0)
============================================================================
