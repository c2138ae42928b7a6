---------------------------- MODULE SymbolTable ----------------------------
(***************************************************************************)
(* The environment of src/src/symbol_table.c: a list of scopes, top first, *)
(* each a map from names to symbols.  The list is used through SeqList and *)
(* each scope through KVMap, the specifications LinkedList and HashMap     *)
(* implement; memory is assumed not to run out.                            *)
(***************************************************************************)
EXTENDS Integers, Sequences, FiniteSets

CONSTANTS Name,          \* identifiers
          Symbol,        \* the symbols the callers make: kind, type and, for
                         \* a function, the types of its parameters
          NoSym,         \* the NULL a search returns
          MaxDepth       \* bound: scopes open at once

ASSUME NoSymAssumption == NoSym \notin Symbol

VARIABLES env,           \* the scopes, top first
          depth,         \* history: how many blocks of the source are open
          decls          \* history: the declarations of the open blocks that
                         \* the language accepts, with the depth of their block

tableVars == <<env, depth, decls>>

NoScope == [x \in Name |-> NoSym]

SymbolSearchCurrent(e, x) == IF e = <<>> THEN NoSym ELSE Head(e)[x]

\* A mutant of SymbolSearch: the outermost scope first.
SearchOutermost(e, x) ==
    IF \E j \in DOMAIN e : e[j][x] # NoSym
    THEN e[CHOOSE j \in DOMAIN e : /\ e[j][x] # NoSym
                                   /\ \A m \in (j + 1)..Len(e) : e[m][x] = NoSym][x]
    ELSE NoSym

\* The first scope from the top that holds the name.
SymbolSearch(e, x) ==
    IF \E j \in DOMAIN e : e[j][x] # NoSym
    THEN e[CHOOSE j \in DOMAIN e : /\ e[j][x] # NoSym
                                   /\ \A m \in 1..(j - 1) : e[m][x] = NoSym][x]
    ELSE NoSym

\* A mutant of SymbolAdd: hashmap_set without hashmap_get.
SymbolReplace(e, x, s) ==
    IF e = <<>> THEN e ELSE [e EXCEPT ![1] = [@ EXCEPT ![x] = s]]

\* symbol_add returns 0 and adds nothing without a scope or over a symbol.
SymbolAdd(e, x, s) ==
    IF e = <<>> \/ SymbolSearchCurrent(e, x) # NoSym THEN e
    ELSE [e EXCEPT ![1] = [@ EXCEPT ![x] = s]]

\* A mutant of PushScope: hashmap_new's result is NULL.
PushNull(e) == <<NoSym>> \o e
PushScope(e) == <<NoScope>> \o e
\* list_remove_begin frees the scope's map, and refuses an empty list.
PopScope(e) == IF e = <<>> THEN e ELSE Tail(e)

DeclaredHere(x) == \E d \in decls : d.depth = depth /\ d.name = x

\* Opening and closing a block of the source.
EnvPushScope ==
    /\ env' = PushScope(env)
    /\ depth' = depth + 1 /\ decls' = decls

EnvPopScope ==
    /\ env' = PopScope(env)
    /\ depth' = depth - 1 /\ decls' = {d \in decls : d.depth < depth}

\* The declaration of x in the block that is open: symbol_add, which leaves a
\* symbol that is already there alone.
Declare(x, s) ==
    /\ env' = SymbolAdd(env, x, s)
    /\ decls' = IF DeclaredHere(x) THEN decls
                ELSE decls \cup {[depth |-> depth, name |-> x, sym |-> s]}
    /\ depth' = depth

TableInit == env = <<>> /\ depth = 0 /\ decls = {}

\* The table as its callers may use it: a symbol is added in some scope, and
\* only a scope that was pushed is popped.
TableNext ==
    \/ depth < MaxDepth /\ EnvPushScope
    \/ depth > 0 /\ EnvPopScope
    \/ depth > 0 /\ \E x \in Name, s \in Symbol : Declare(x, s)

TableSpec == TableInit /\ [][TableNext]_tableVars
-----------------------------------------------------------------------------
Scope == [Name -> Symbol \cup {NoSym}]

\* Type invariant.
TableTypeOK ==
    /\ env \in Seq(Scope) /\ depth \in Nat
    /\ decls \subseteq [depth : Nat \ {0}, name : Name, sym : Symbol]

\* The declaration the language's scope rule gives a name: the one of the
\* innermost open block that declares it.
Visible(x) ==
    LET of == {d \in decls : d.name = x}
    IN  IF of = {} THEN NoSym
        ELSE (CHOOSE d \in of : \A c \in of : c.depth <= d.depth).sym

\* Scope resolution (symbol_search walks the list from the top): whatever was
\* pushed, popped and shadowed before, a name resolves to the declaration of
\* the innermost open block that has one, and the current scope has exactly
\* the declarations of the innermost block.
ResolvesToInnermost == \A x \in Name :
    /\ SymbolSearch(env, x) = Visible(x)
    /\ SymbolSearchCurrent(env, x) # NoSym <=> DeclaredHere(x)

\* A declaration is final: until its block closes a name keeps the symbol its
\* first declaration gave it there, whatever blocks open and close meanwhile.
DeclarationsStay == [][
    \A d \in decls : d.depth <= depth' =>
        env'[depth' + 1 - d.depth][d.name] = d.sym ]_tableVars
============================================================================
