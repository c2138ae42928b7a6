# A specification of the Goianinha front end

This directory holds TLA+ modules for the compiler front end of this
repository: the containers it is built on (`list.c`, `hashmap.c`), the symbol
table, the type checker, the two-pass semantic analysis, the scanner, the tree the
parser builds and the printer walks, and `main` over a memory that may run out.
TLC checks them on small instances; TLAPS proves all their invariants, their
action properties and the safety of their refinements for every value of the
constants. What is left to TLC alone is liveness.
`PROJECT.json` lists every run, theorem, finding and hazard, and the source
lines behind each definition.

## 1. The system

The program reads one source file, builds a syntax tree, prints it, analyses it
and exits. It is sequential: no threads, no signals, nothing persisted. What is
hard in it is therefore not interleaving but long sequences of legal calls on
linked structures, loops that look at memory in the middle of a change, limits
and failures of allocation, and error paths that do not reach the counter of
errors.

| part | source | state | operations |
|---|---|---|---|
| lexer | `goianinha.l` | flex's buffer, `yylineno`, `yylval` | one rule per token; three rules end the process |
| parser | `goianinha.y` | bison's stack, `root` | one action per rule; no error recovery |
| tree | `ast.c`, `ast.h` | nodes chained by `next` | a constructor per kind of node, `ast_append_cmd` |
| linked list | `list.c` | `head`, `tail`, `size`, nodes | `list_init`, `list_destroy`, four insertions, three removals |
| hash map | `hashmap.c` | buckets, `count`, `growat`, `shrinkat`, `oom` | new, free, clear, set, get, delete, resize; probe, scan, iter |
| symbol table | `symbol_table.c` | a list of maps, top scope first | push, pop, `symbol_add`, `symbol_search`, `symbol_search_current` |
| expression checker | `semantic.c:20-155` | none (reads the table, counts errors) | `check_type_compatibility`, `check_expr` |
| semantic analysis | `semantic.c:157-324` | `return_expected`, `semantic_errors` | `semantic_program`, `check_block`, `check_cmd`, `register_var` |
| driver | `main.c` | the process | open, parse, print, analyse, exit status |
| printer | `print_ast.c` | none | prints the tree |
| three-address code | `tac.c`, `tac_gen.c` | an instruction list | built but called by nobody; `tac_gen.c` is not built |

How they meet: the parser calls `yylex` for tokens and the constructors of
`ast.c` for nodes and leaves the tree in `root`; `main` hands `root` to
`semantic_program`, which pushes and pops scopes (`list_insert_begin`,
`list_remove_begin`), declares symbols (`hashmap_get`, `hashmap_set` in the top
scope) and resolves names (`hashmap_get` in each scope from the top). The list
owns its data: `list_remove` passes it to `list->destroy`, which is
`hashmap_free` for a scope.

What each part must get right:

- **linked list**: one chain over exactly the allocated nodes, whichever call
  comes next; every datum owned by one node until it is destroyed once; a
  refusal changes nothing; `list_destroy` returns.
- **hash map**: a map from keys to items, whatever is moved to make room; no
  entry lost or doubled in a rehash or a shift; an empty bucket always left, since
  the probe loops have no other bound; every call returns.
- **symbol table**: a name resolves to the declaration of the innermost open
  block that has one; a declaration is final until its block closes.
- **expression checker**: what breaks a typing rule is reported and nothing else is;
  one mistake is reported once; an erroneous type is silent only for a call of an
  undeclared name.
- **semantic analysis**: every push has its pop; a declaration or command is
  reported exactly if it breaks a rule of scope or type; functions see the globals
  of the whole source.
- **parser**: every list of the tree is the source's, in order, sharing nothing;
  variables have their declared types.
- **printer**: it visits every node of the tree once, in the order of the source.
- **lexer**: comments and strings end where they should, no token is split, and
  a comment or string that is closed is no error.
- **driver**: every name has one owner and is freed once; what cannot be
  allocated either crashes or is lost in a known way; the exit status is right.

## 2. The modules

```
 SeqList <--implements-- LinkedList          KVMap <--implements-- HashMap
     \                                       /                      |
      +---- used by SymbolTable ------------+                    HashIter
              /     |
   implements   CheckExpr                  Parser
           /        |                         |
       Driver    Semantic                  Printer          Lexer
```

Each module that has theorems has them in a module of its own, which extends it:

| proofs | of |
|---|---|
| `NaturalLemmas` | nothing of the system: least numbers, recursion over finite trees, remainders |
| `LinkedListProofs` | `LinkedList`, and that it implements `SeqList` |
| `HashMapProofs` | `HashIter`, hence `HashMap`, and that it implements `KVMap` |
| `SymbolTableProofs` | `SymbolTable` |
| `SemanticProofs` | `Semantic`, hence `CheckExpr`; it goes on from `SymbolTableProofs` |
| `DriverProofs` | `Driver`, and that it implements `SymbolTable` |
| `LexerProofs` | `Lexer` |
| `ParserProofs` | `Printer`, hence `Parser` |

`SeqList` and `KVMap` are the abstract specifications: what `list.h` and
`hashmap.h` promise. `SymbolTable` is written over sequences of functions, that
is, over those promises. `MC*` modules only give constants their values.
Definitions named after an operation with a suffix (`LinkNextHalf`,
`FreeScopesNull`, ...) are mutants: plausible bugs that the matching property must
detect. They are no part of any specification.

### `LinkedList` (and `SeqList`)

The fields of `list_t` and of every node by address, the set `live` of allocated
nodes, and two history variables: `order` (the nodes in list order) and `owned`
(the data handed over and not destroyed). One action is one call, except
`list_destroy`, one action per turn of its loop (`DestroyStart`, `DestroyStep`,
`DestroyEnd`), because every turn reads the node the previous one freed.
`malloc` may fail in any insertion. `Clobber` says what `free` may leave in the
`next` field of a freed node besides its old value; `{}` means the memory is
left alone, as the usual allocator happens to do for that field.

A caller passes NULL or a node of the list as a position, and data the list does
not hold: `symbol_table.c` does so. After `list_destroy` a list is initialised again
before it is used.

### `HashMap` (and `KVMap`)

The buckets, counters and load factors of one map, the call in progress and the
state of its loop (`entry`, `i`, and `tab2`, `nb2`, `r` for the second map of
`resize0`). One step is one turn of a loop, so invariants are looked at in the
middle of insertions, backward shifts and rehashes. `HashOf`
stands for the hash function; the constants 16, 60 %, 10 % and the sizes are parameters
(`MinCap`, `GrowPct`, `ShrinkPct`, `MaxBuckets`), scaled down in the run so that
tables grow and shrink within a few calls. `ShrinkPct` is at most 33, or a table cut
in half might not hold what is left; the code's is 10. An allocation may fail (`oom`); tables
beyond `MaxBuckets` are never allocated, which is the one bound on the model.

`HashIter` adds the cursor of `hashmap_iter` (and of the loop in
`hashmap_scan`), which the map does not know of. One action is one call and
passes over empty buckets. Between two calls the caller may make any call. `Disturbs`
names those that may move an entry: a set of a new key, any set at all when the table
is due to grow (it grows before the key is looked for, `hashmap.c:270`), a delete of
a key that is there, clear, free. After one of them nothing is said of the iteration
until the next starts. `IteratesOverAll` says that no other call does harm, which for
a set of a key that is there depends on the robin hood order.

### `SymbolTable`

`env`, the scopes, top first. The history variables `depth` and `decls` record
the source instead: how many blocks are open and which declarations the
language accepts in them. `Visible(x)` is the scope rule stated on those
alone; the properties relate it to what the code's lists and maps return.
Memory is assumed not to run out here; `Driver` shows that until it does the
code's environment is this table, and what happens after.

### `CheckExpr`

`check_expr` is a function of an environment and an expression that yields a
type and a number of reports. Each disjunct of the `switch` is an operator of
its own (`CheckCall`, `CheckArith`, ...), and `CheckNode` is the `switch`. It is given
`Found(env)`, what `symbol_search` returns for each name, and no other part of the
table. Recursion is a recursive function over `Expr`, a set closed under
sub-expressions; `Height` gives every expression a number greater than those of
its parts, that is, it says that expressions are finite trees
(`ExprAssumption`), and the proofs recur on it.

Function symbols reach `check_expr` only through `symbol_table.h`: today no
source can declare one, because the declaration crashes (finding below). The
module takes the table as its API allows it to be filled.

`TypeOf`, `Fits` and `WellTyped` state the typing rules a second time, without
`T_ERROR`, early returns and counts: the type of each node from what it is alone, and
what must hold of the types of its operands. `ReportsExactlyIllTyped` compares
`check_expr` with them. Two things in these rules are the code's and not beyond
dispute. `int` and `car` count as one type, as in `check_type_compatibility`; the
`TipoRetornado` samples call that an error in a returned value (findings). And a name
that is not declared is a string: the tree does not tell the two apart, and the code
reports neither. Calls of undeclared names are a case of their own in every property
here: they get `T_ERROR` in silence, which is the finding of `undeclared_call`.

### `Semantic`

`semantic_program` with its position in the two passes (`phase`), in a body
(`stage`, `nest`), the functions and parameters still to be visited. The source
is chosen as the analysis meets it, one declaration or command a step, so
all sources of up to `MaxSize` items are covered without building trees; `Params`
is the set of parameter lists that functions are declared with, any set of
sequences. In step with `errors`, what the code counts, `judged` is what the
language's rules say of the declaration or command just met: its name is new in its
block, the names in it are those that `Scoped`, made from the declarations of the
enclosing blocks of the source, says they are, and it is `WellTyped`.
`ReportsWhatIsWrong` says that each step is reported exactly if it is judged
`"wrong"`. Two judgements are left out of it. `"blind"`: the command calls a name
that is not declared. `"spared"`: the code contradicts a sample or its own message.
There are three such cases, each a finding: a variable of a body named as a parameter
(`fatorialErroLin3NomeDeclaradoNoMesmoEscopo.txt`) and a returned `int` for a `car`, a
`car` for an `int`, or a constant, which may be a character
(`fatorialErroLin4TipoRetornado.txt`, `fatorialErroLin5TipoRetornado.txt`), none of
which the checker reports; and a condition of type `car`, which it does, with a message
that asks for a numeric value.

`se` and `enquanto` are a step for their condition; the command they govern is
the next command. `CMD_ASSIGN` is absent: no rule of the grammar makes one. A
function whose name is taken is reported and its body still checked (pass 2 does
not look at that); any other function takes the checker to `"crashed"`.

### `Parser`

Nodes are numbers in order of allocation, with their `next` and, for variables,
`type`. The stack holds the lists that are open: globals, parameters, variables,
commands, arguments. `src` is what the source puts in each list, and `Chain`
what the tree holds. `bare` marks a list of commands that begins with the empty command:
the tree has no head for it, whatever `src` goes on with. Operators inside expressions, and calls that are their
operands, are left out: they build no list. A syntax error, a lexical error or a
failed `safe_alloc` ends parsing at any moment. A declaration may have any number of
names that `MaxNodes` leaves room for.

`tree` keeps, for every finished construct, its parts: heads of lists, or the
commands that a `se` or an `enquanto` governs. `first` records the first node
read as part of it. Bison reduces a construct after its parts, so a construct's
number is larger than theirs, and `first[n]` .. `n` are the nodes it is made of.

### `Printer`

`print_program` over that tree. The C code is recursive; `todo` is what all the calls in
progress have still to do, each entry a node, or NULL, and whether its `next` is
followed. An entry that is NULL is the end of a list or a part that a node lacks, which
the C functions return from at once (`PrintNothing`). `PrintsWholeSource` compares the order of visits to the order in which
the source was read: two facts about the same links that are
computed in different ways, so a list linked wrongly by `Parser` or walked
wrongly by `Printer` breaks it.

### `Lexer`

A pattern is the set of places where a text that matches it may end; `Star` is
flex's `(...)*`. The records of `Ends` are the patterns of the rules file one by
one; `Match` is what flex does with them: the longest match, then the first rule. A
step is one match. The properties know nothing of the patterns: they say
where a comment or a string ends from the marks in the text alone.

### `Driver`

`main`, and the environment as memory holds it: a list whose nodes hold a map or
NULL, maps from names to the copies `strdup` made, and which maps and copies are
allocated. Every allocation of `env_new`, `env_push_scope`, `symbol_new_var`
and of a growing map may fail; `failed` records which kinds did. `GrowAt` is the set
of sizes at which a map has to grow. `yyparse` may succeed, return an error after
which `main` frees the environment and returns 1 (phase `"aborted"`), or never
return, because the scanner or `safe_alloc` exits.

The body of the analysis is cut down to declarations, searches and nested blocks in
any legal order, met as the analysis goes; the expressions and the two passes are in
`Semantic`. `Leia` reports a name that is not found. `Use` is a name or a call in an
expression, which is searched for and reported only for its type: whether it is
mistyped is left open. `Function` crashes at the first function of a new name,
whatever memory there is (`extracted`). `blocks` and `faults` are the source's view: the
names each open block declares, and how many declarations and commands are wrong, a
type that is wrong being whatever draws a report.

The consequences of a failure, as the run shows them: without the list of
`env_new`, without a map that is later searched, without a symbol or the copy of
its name, the process crashes. Without the node of `env_push_scope` the block has no
scope: its declarations go to the scope around it, which the block's end then frees,
and its map is out of reach. Without room to grow a map loses the symbol, and the copy
of its name is never freed. `lost` counts those maps and collects those names, and
`NothingLeft` says that they are exactly what is still allocated when `main` returns.
After the last two failures the exit status may be wrong; after no other, and never
without a failure, as far as it is about what the checker reports: that an undeclared
name in an expression is not among it is a finding.

## 3. The runs

| run | what it asks | bounds |
|---|---|---|
| `list` | one chain, single ownership, the list refines a sequence, `list_destroy` returns | 3 nodes, 3 data |
| `list_clobber` | the same loop when `free` clears memory: does `list_destroy` return? (it does not) | 3 nodes, 3 data |
| `hashmap` | robin hood order at every step, room left, nothing lost in flight, the map refines a key-value map, calls return, iterations are complete up to a call that may move entries | 4 keys, 2 items, tables of 4 and 8 buckets |
| `expr` | scope resolution; what breaks a typing rule is reported and nothing else | 2 names, 5 symbols, 2 scopes, about 100 expressions |
| `semantic` | balanced scopes, what breaks a rule of scope or type is reported and nothing else, globals frozen, the analysis ends | 2 names, sources of 4 items, 6 scopes |
| `function_crash` | may a source with a function be analysed? (it crashes) | as `semantic` |
| `undeclared_call` | is a call of an undeclared name rejected? (it is accepted) | as `semantic` |
| `parser` | lists in source order, nothing shared, declared types, printing visits the whole source in order | 4 nodes, 4 open lists, 2 empty commands |
| `lost_command` | are all commands of a block in its list? (not after a leading `;`) | as `parser`, 1 empty command |
| `lexer` | do comments and strings end where they should, are tokens whole? | all texts of 8 characters of comments, 7 of strings, 5 of operators and words, 5 of a mixture |
| `comment_end` | is a comment that is called unterminated really open? (not after `**/`) | as `lexer` |
| `driver` | one owner for every name, what is left when `main` returns, the table is `SymbolTable`'s, the exit status | 2 names, 7 declarations, uses and blocks, 3 blocks open, a map grows at its second symbol |

Why the bounds are enough to be of interest:

- three nodes have a first, a middle and a last one, and each is the only one at
  times, which are all the cases that list.c distinguishes;
- the four keys collide in the last bucket of both table sizes, so that
  a run of entries wraps round the end, displaces an entry of another home and is
  shifted back, and the thresholds make the map grow in a set and shrink in a
  delete, each with and without memory;
- two names in two scopes give shadowing, redeclaration and the absence of
  either; expressions nest two and three deep, so that an error below an operator meets
  another above it;
- four items are a redeclared function with a parameter, a
  variable in its body and a command that uses it, or a global and a
  nested block that shadows it; `MaxDepth` = 6 is never what stops such a source
  short of its bound of items;
- four nodes are three commands and the control command around them, three
  variables in two declarations, or a function with its parameter and its
  command and the command of the program;
- a comment needs four characters for its marks, so eight leave four inside or
  behind it: runs of stars, slashes, and a second comment; seven characters are
  a string with an escaped quote, a newline and another string;
- seven items declare, shadow and use two names over three levels, with two blocks
  closed again; the second symbol of a scope makes its map grow, so both outcomes
  of growing occur at every level.

Deadlock is checked in `hashmap`, `list`, `expr` and `semantic`. `parser`,
`lost_command`, `lexer`, `comment_end` and `driver` stop when the tree is
printed, the scan or the process ends, and `list_clobber` stops where the C loop
would spin on a NULL cursor.

**Fairness.** `list` and `list_clobber` assume weak fairness of the steps of
`list_destroy`'s loop, `hashmap` of the steps of the loops of a call in
progress, and `semantic` of its steps: a sequential program that has entered a
loop takes its next step. Nothing assumes that a caller calls again. Where the C
code spins, the model has no step, so fairness hides no endless loop.

## 4. What is proved

Every theorem below is about the specification the runs check, with any value of
the constants that satisfies the named assumptions in the modules, which TLC
evaluates on every run. The runs of `hashmap` and `parser` check `IterSpec` and
`PrintSpec`, which add a cursor and a printer to `Spec`; `IterationIsNoStep` and
`PrintingIsNoStep` prove `IterSpec => Spec` and `PrintSpec => Spec`, so what
is proved of `Spec` holds of what is run.

The assumptions are few: NULL and "no item" are no members of the sets they are
added to; the hash function yields numbers, thresholds are between 0 and 100
per cent and shrinking leaves room; expressions are finite trees over the
names, and symbols are variables and functions; a text is a sequence, letters
are not digits, neither is a mark of a comment or a string, and keywords are
words. None bounds a set: `Node`, `Key`, `Name`, `Text` and `Expr` may be infinite,
`MaxNodes`, `MaxStack`, `MaxSize` and `MaxBuckets` any number.

### `LinkedListProofs`

`ListStaysWellLinked`, `EveryDatumOwnedOnce`, `FrontCallsAlwaysSucceed` and
`ListTypeCorrect` hold whatever `free` does; `CursorStaysHead` and
`ListImplementsSeqList` under `Clobber = {}`, a hypothesis that cannot go:
`list_clobber` shows the counterexample. The invariants are not inductive one by one:
unlinking a node keeps the chain only if the cursor is a live node, and
the ownership of data needs the chain to have no repeated node. The inductive
invariant is the conjunction

    IInv == LinksTyped /\ CallTyped /\ WellLinked /\ OwnedOnce /\ NoneBeforeInit

with types of the links and of the call's bookkeeping apart, because most
actions disturb only one of the two. `InsertAtElements`, `RemoveAtElements` and
the lemmas next to them give the elements of the sequences the community
operators return; the refinement rests on the same lemmas, since they also say
which datum of `Contents` moves where. It is stated for `SeqList`'s initial
states and steps; that `list_destroy` goes on is fairness and left to TLC.

### `SymbolTableProofs`

`NamesResolveToInnermost`, `DeclarationsAreFinal`, `TableTypeCorrect`.
`ResolvesToInnermost` is not inductive, because popping a scope
brings back names that it says nothing about. The inductive invariant relates
every scope, not just the visible declarations, to the source:

    IInv == TableTypeOK /\ Len(env) = depth /\ Stored /\ Declared

every declaration is stored in the scope of its block (`Stored`), and a symbol in
scope *j* from the top is a declaration of the block of depth `depth + 1 - j`
(`Declared`). The step from there to `ResolvesToInnermost` picks the first scope that
has a name; `LeastNatural` gives it, from the library's theorem on
well-founded relations.

### `HashMapProofs`

`HashMapTypeCorrect`, `TablesStayInOrder`, `RoomIsLeft`, `NothingIsLostInFlight`,
`HashMapImplementsKVMap` and, for iterations, `IterationGetsAll`. The inductive
invariant follows every loop:

    IInv == Typed /\ Sized /\ Calling /\ TablesInOrder /\ Counted /\ Probing /\ Same

- `TablesInOrder`: each table is in robin hood order, which here is three facts about
  single buckets: an entry is as far from its home as its distance says, the next
  bucket's distance is larger by at most one, and a key occurs once. During a
  backward shift the table has a hole at `i` and the order goes through it
  (`Holed`);
- `Counted`: `count` is the number of entries, `tab2` has as many as have been moved,
  and with `Sized` (the thresholds, and that a smaller table still has room) an
  empty bucket is left, which is `RoomLeft`;
- `Probing`: where a probe stands it has not got past its key: a bucket with that key
  is at least as far from home as the probe (`NotPassed`). So a probe that meets an empty
  bucket, or an entry nearer to its home than the probe is, may stop: the key is not
  there. The entry that a set or a rehash carries is as far from home as its distance
  says, and the bucket before it no nearer (`AtProbe`), so putting it down keeps
  the order. `IteratesOverAll` comes from the same facts: a set of a key that
  is there, and that does not have to grow the table, meets it before it displaces
  anything;
- `Same`: the items in the tables and in flight are those `before` the call, with
  what the call has done so far.

`TablesInOrder` needs to know where a probe stands, and `InFlight` says nothing of
items, so neither is inductive alone. The refinement maps the map to `before` while a
call is in progress and to the table's contents otherwise, so a call has its
effect on `KVMap` when it returns; `Same` at the last turn of each loop is what its
result and effect come from. Remainders by the number of buckets are
beyond the solvers; `ModNext` and `ModIs` say what is needed of them.

### `SemanticProofs`

Of expressions, in every table that calls of `symbol_table.h` can make:
`QuietCallsAreExplained`, `SilentErrorsAreOnlyCalls`, `ReportsDoNotMultiply`,
`IllTypedIsReported`. These are inductions over expressions. The library's induction
theorems take an operator as a parameter and cannot be used, so
`NaturalLemmas` states the two facts for sets: a set that contains each
expression whose parts it contains contains all of them (`TreeInduction`), and a
function recursive in the parts exists (`TreeRecursion`), from which the equations of
`check_expr` follow.

Of `semantic_program`: `ScopesAreBalanced`, `WhatIsWrongIsReported`,
`NamesResolveInTheSource`, `GlobalsAreFrozen`, `SourceDeclarationsAreFinal`,
`SemanticTypeCorrect`. The inductive invariant puts where the analysis stands next to
the invariant of the table:

    SInv == IInv /\ Control /\ Balanced

`WhatIsWrongIsReported` puts two facts together. `FoundIsScoped`: what
`symbol_search` finds is what the scope rule says each name stands for, which is the
theorem about the table. And the lemma behind `IllTypedIsReported`, taken at that
environment: `check_expr` reports exactly what is not `WellTyped` there. So neither
side of the property uses what the other is made of.

### `LexerProofs`

`LexerTypeCorrect`, `CommentsAlwaysClose`, `StringsAlwaysClose`,
`TokensAreWhole`. `TreeRecursion` gives the function behind `Star`; lemmas then say
without recursion where the pattern of a comment, of a string and of a word can end,
and what the longest match therefore is. The invariant

    LInv == types /\ Cut /\ CommentsClose /\ StringsClose /\ \A m \in Range(read) : Whole(m)

has `Cut`, that the matches cut the text read into adjoining pieces, and `Whole`, that
an operator, word or number ends only where it can no longer go on.
`NothingSplit`, which relates neighbours, is a consequence of these two.

### `DriverProofs`

`DriverTypeCorrect`, `EveryNameHasOneOwner`, `MainLeavesNothing`,
`MainEndsAsItShould`, `DriverImplementsTable`, with any allocation failing at any
time:

    IInv == Counters /\ HeapInv /\ Mirror /\ Phases /\ NothingLeft /\ EndsAsItShould

`HeapInv` counts maps against the scopes that have one and those that are `lost`, and
accounts for every live name as in a bucket or lost; `Mirror` says that until a
node or a growing map is refused the scopes are the open blocks, name by name, and
`errors` counts what the source does wrong. Both are needed for the exit status, and
`Mirror` is also the refinement: as long as nothing has failed, the code's
environment is `SymbolTable`'s `env`, and each step one of its steps.

### `ParserProofs`

`ParserTypeCorrect`, `ListsFollowTheSource`, `NothingIsShared`,
`TypesAreOfTheSource`:

    IInv == Typed /\ Whole(stack, closed, next, used, type, asked)

`Whole` has three parts. `Sound`: no node is in two lists or twice in one, each list is
linked as the source gives it (`Fits`), and no node is linked but
by a list. `Nested`: the stack follows the grammar, which list is open in which.
`AllTypesFit`: the types of each list's variables. Nothing here mentions `Chain`, which
walks the links; `ChainIs` proves that from the head of a list whose nodes are
distinct and linked in order the walk yields exactly that list, and
`NoLonger` (a pigeonhole) that a list has at most `MaxNodes` nodes, so the bounded
walk reaches its end. Since the actions differ only in which list they extend, close
or open, a lemma for each of these three does the work for all of them.

`TreeIsTheSource` and `PrintingVisitsAll` are about where in the source things lie.
Nodes are numbered as they are read, so "what construct `n` is made of" is the
interval `first[n]` .. `n`. The invariant of the tree,

    TreeInv == Grown /\ Under (while parsing) /\ Finished (once there is a root)

says that these intervals tile the source. `Row`: what hangs on the links of a node
lies in one interval, link after link, without a gap unless something is `Lost`
(the commands after a leading `;`). `Tiled`: an open list takes up what was read since
its construct began, its parts first and its own nodes last. `Under`: the open lists
of the stack follow each other up to the last node read. `Grown`: every node
of the tree has its parts in a `Row` from its first node to the one before it. Each action
of the parser adds a node or a list at the end of the tiling, or closes the last piece.

The printer then needs nothing but intervals. `Span` is what a cursor will print: of a
node alone its interval, of a list all that goes from its first node to the end of its
last. The invariant

    PrintInv == ... /\ Halfway(out, todo, used, Lists, closed, first)

says that the cursors in `todo` have disjoint spans in ascending order, that each
printed node is `Ahead` of every node printed after it and of every node in a
span still to come, and that printed nodes and spans together are all nodes unless
something is lost. Printing node `p` replaces its span by three pieces: the
parts (`first[p]` .. `p - 1`, by `Grown`), `p` itself, and the rest of the list
(`p + 1` .. its end, because nodes of a list follow each other: `Spread`). `Ahead`
implies that the nodes differ, so the first half of `PrintsWholeSource` holds at every
moment, and when `todo` is empty `Ahead` is the order it asks for. That every list has
an end of its own, on which `Span` rests, is `NothingShared`.

## 5. Only model-checked

- Liveness: `DestroyTerminates`, `CallReturns`, `AnalysisEnds`, and the fairness in
  `ImplementsSeqList`. Fairness and ENABLED are out of the prover's reach.

Every invariant and action property of a passing run has a theorem, and the
refinements have one for their initial states and steps.

## 6. Not modelled

- `tac.c` and `tac_gen.c`: the first is built but nothing calls it, the second
  is not built. The program has no behaviour there to model.
- Hash functions: arithmetic without state, third-party; any function from
  keys to numbers is allowed.
- The hash map's `probe` and `count`, which only read; the test program inside
  `hashmap.c`; and the 16-bit width of a bucket's distance, which needs more than
  65 535 colliding names.
- In the parser and the printer: operators, conditions, lines and the text that
  is printed. They build no list; a model with them would only be larger. Bison's
  own stack, and its limit, are not modelled either.
- The values of tokens (`atoi`, the text of a string or of a character).
- The addresses of symbols: `symbol_search` returns a pointer into the buckets.
  `semantic.c` holds one only across `check_expr`, which adds no symbol.
- A load factor that is no number (`hashmap.c:69`): no caller in the compiler sets
  one.
- Reading from the standard input, and closing the file.

## 7. Findings

`PROJECT.json` quotes each with its lines. Five have a run that exhibits them:
`list_destroy` reads freed memory; a function declaration crashes the analysis
(`list_init` on NULL); a call of an undeclared name is accepted; a block that
begins with `;` loses its other commands; a comment that ends in `**/` is called
unterminated, or goes on to the next one that ends. Others were met while modelling:
`int` and `car` are returned for each other, and parameters declared again, where a
sample calls it an error; an undeclared name in an expression is a string and draws no
report; an opening quote and an escaped one are called a string of several lines; the
assigned variable and value are never checked; the names after the first of a
global `car a, b;` are `int`; `!x` is a call of a function named `!`; `e`
and `ou` are no keywords; a condition of type `car` is refused; an insertion at the end of
a one-element list is refused, so a function could not have had two parameters
even without the crash; the load factor set by a caller is lost in a resize; an unterminated
comment is reported on the file's last line; the message of `main` for a failed
`env_new` cannot be reached; `symbol_add` returns 1 for a symbol that was not
stored; a `hashmap_set`, not only a `hashmap_delete`, invalidates a cursor;
`tac_create` and `tac_print` confuse their operands; an error in the
condition of a `se` is reported on the line where its command ends, or later.

## 8. Plan

1. Done: all modules above, and the proofs of section 4; `PrintsWholeSource` was the
   last invariant that only TLC had checked.
2. Models that could follow: operators and conditions in `Parser`, with the
   lines that nodes are given; the values of tokens.
