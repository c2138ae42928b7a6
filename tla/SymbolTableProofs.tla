------------------------- MODULE SymbolTableProofs -------------------------
(***************************************************************************)
(* Scope resolution, for any names, symbols and depth of nesting.  The     *)
(* inductive invariant says that the scopes mirror the declarations of the *)
(* open blocks, the scope of a block of depth d at place depth + 1 - d of  *)
(* the list; resolution follows because the first scope with a name is the *)
(* one of the greatest depth.                                              *)
(***************************************************************************)
EXTENDS SymbolTable, NaturalLemmas

At(d) == depth + 1 - d

\* Every declaration of an open block is in the scope of its block.
Stored == \A d \in decls : d.depth <= depth /\ env[At(d.depth)][d.name] = d.sym

\* Every symbol of a scope was declared in its block.
Declared == \A j \in 1..depth, x \in Name : env[j][x] # NoSym =>
    [depth |-> At(j), name |-> x, sym |-> env[j][x]] \in decls

IInv == TableTypeOK /\ Len(env) = depth /\ Stored /\ Declared

\* The invariant holds of the table without scopes.
LEMMA InitIInv == TableInit => IInv
BY DEF TableInit, IInv, TableTypeOK, Stored, Declared, Scope

\* A new scope is empty, and shifts the others one place.
LEMMA PushIInv == IInv /\ EnvPushScope => IInv'
<1> SUFFICES ASSUME IInv, EnvPushScope PROVE IInv'
  OBVIOUS
<1> USE DEF IInv, EnvPushScope, PushScope, TableTypeOK
<1>1. NoScope \in Scope /\ env \in Seq(Scope) /\ Len(env) = depth /\ depth \in Nat
  BY DEF NoScope, Scope
<1>2. /\ env' = <<NoScope>> \o env /\ env' \in Seq(Scope) /\ Len(env') = depth + 1
      /\ env'[1] = NoScope /\ \A j \in 2..(depth + 1) : env'[j] = env[j - 1]
  BY <1>1
<1>3. Stored'
  <2> SUFFICES ASSUME NEW d \in decls
               PROVE d.depth <= depth' /\ env'[(depth' + 1) - d.depth][d.name] = d.sym
    BY DEF Stored, At
  <2>1. d.depth \in Nat /\ d.depth >= 1 /\ d.depth <= depth /\ env[depth + 1 - d.depth][d.name] = d.sym
    BY DEF Stored, At
  <2>2. ((depth + 1) + 1) - d.depth \in 2..(depth + 1)
        /\ (((depth + 1) + 1) - d.depth) - 1 = depth + 1 - d.depth
    BY <1>1, <2>1
  <2> QED BY <1>1, <1>2, <2>1, <2>2
<1>4. Declared'
  <2> SUFFICES ASSUME NEW j \in 1..(depth + 1), NEW x \in Name, env'[j][x] # NoSym
               PROVE [depth |-> ((depth + 1) + 1) - j, name |-> x, sym |-> env'[j][x]] \in decls
    BY DEF Declared, At
  <2>1. j \in 2..(depth + 1)
    BY <1>1, <1>2 DEF NoScope
  <2>2. env'[j] = env[j - 1] /\ j - 1 \in 1..depth /\ (depth + 1) - (j - 1) = ((depth + 1) + 1) - j
    BY <1>1, <1>2, <2>1
  <2> QED BY <2>2 DEF Declared, At
<1> QED BY <1>1, <1>2, <1>3, <1>4

\* Popping removes the scope and the declarations of the innermost block.
LEMMA PopIInv == IInv /\ depth > 0 /\ EnvPopScope => IInv'
<1> SUFFICES ASSUME IInv, depth > 0, EnvPopScope PROVE IInv'
  OBVIOUS
<1> USE DEF IInv, EnvPopScope, PopScope, TableTypeOK
<1>1. /\ env \in Seq(Scope) /\ Len(env) = depth /\ depth \in Nat /\ env # <<>>
      /\ decls \subseteq [depth : Nat \ {0}, name : Name, sym : Symbol]
  OBVIOUS
<1>2. /\ env' = Tail(env) /\ env' \in Seq(Scope) /\ Len(env') = depth - 1
      /\ \A j \in 1..(depth - 1) : env'[j] = env[j + 1]
  BY <1>1
<1>3. Stored'
  <2> SUFFICES ASSUME NEW d \in decls, d.depth < depth
               PROVE d.depth <= depth - 1 /\ env'[((depth - 1) + 1) - d.depth][d.name] = d.sym
    BY DEF Stored, At
  <2>1. d.depth \in Nat /\ d.depth >= 1 /\ env[depth + 1 - d.depth][d.name] = d.sym
    BY <1>1 DEF Stored, At
  <2>2. ((depth - 1) + 1) - d.depth \in 1..(depth - 1)
        /\ (((depth - 1) + 1) - d.depth) + 1 = depth + 1 - d.depth
    BY <1>1, <2>1
  <2> QED BY <1>1, <1>2, <2>1, <2>2
<1>4. Declared'
  <2> SUFFICES ASSUME NEW j \in 1..(depth - 1), NEW x \in Name, env'[j][x] # NoSym
               PROVE [depth |-> ((depth - 1) + 1) - j, name |-> x, sym |-> env'[j][x]] \in decls'
    BY DEF Declared, At
  <2>1. env'[j] = env[j + 1] /\ j + 1 \in 1..depth /\ (depth + 1) - (j + 1) = ((depth - 1) + 1) - j
    BY <1>1, <1>2
  <2>2. [depth |-> ((depth - 1) + 1) - j, name |-> x, sym |-> env'[j][x]] \in decls
    BY <2>1 DEF Declared, At
  <2>3. ((depth - 1) + 1) - j < depth
    BY <1>1
  <2> QED BY <2>2, <2>3
<1> QED BY <1>1, <1>2, <1>3, <1>4

\* The current scope knows a name exactly when the innermost block declares it.
LEMMA CurrentScope ==
    ASSUME IInv, NEW x \in Name
    PROVE  SymbolSearchCurrent(env, x) # NoSym <=> DeclaredHere(x)
<1> USE NoSymAssumption DEF IInv, TableTypeOK
<1>1. CASE env = <<>>
  BY <1>1 DEF SymbolSearchCurrent, DeclaredHere
<1>2. CASE env # <<>>
  <2>1. depth \in Nat /\ 1 \in 1..depth /\ SymbolSearchCurrent(env, x) = env[1][x] /\ At(1) = depth
    BY <1>2 DEF SymbolSearchCurrent, At
  <2>2. ASSUME env[1][x] # NoSym PROVE DeclaredHere(x)
    <3>1. [depth |-> depth, name |-> x, sym |-> env[1][x]] \in decls
      BY <2>1, <2>2 DEF Declared
    <3> QED BY <3>1 DEF DeclaredHere
  <2>3. ASSUME DeclaredHere(x) PROVE env[1][x] # NoSym
    <3>1. PICK d \in decls : d.depth = depth /\ d.name = x
      BY <2>3 DEF DeclaredHere
    <3>2. env[At(d.depth)][x] = d.sym /\ d.sym \in Symbol
      BY <3>1 DEF Stored
    <3>3. At(d.depth) = 1
      BY <2>1, <3>1 DEF At
    <3> QED BY <3>2, <3>3
  <2> QED BY <2>1, <2>2, <2>3
<1> QED BY <1>1, <1>2

\* A declaration adds to the current scope exactly when it is the first of its
\* name in the block.
LEMMA DeclareIInv ==
    ASSUME IInv, depth > 0, NEW x \in Name, NEW s \in Symbol, Declare(x, s)
    PROVE  IInv'
<1> USE DEF IInv, Declare, TableTypeOK
<1>0. /\ env \in Seq(Scope) /\ Len(env) = depth /\ depth \in Nat /\ env # <<>>
      /\ decls \subseteq [depth : Nat \ {0}, name : Name, sym : Symbol] /\ depth' = depth
  OBVIOUS
<1>1. CASE DeclaredHere(x)
  <2>1. env' = env /\ decls' = decls
    BY <1>1, CurrentScope DEF SymbolAdd
  <2> QED BY <1>0, <2>1 DEF Stored, Declared, At
<1>2. CASE ~DeclaredHere(x)
  <2> DEFINE new == [depth |-> depth, name |-> x, sym |-> s]
  <2>1. /\ SymbolSearchCurrent(env, x) = NoSym
        /\ env' = [env EXCEPT ![1] = [@ EXCEPT ![x] = s]] /\ decls' = decls \cup {new}
    BY <1>0, <1>2, CurrentScope DEF SymbolAdd
  <2>2. env[1] \in Scope /\ env[1][x] = NoSym
    BY <1>0, <2>1 DEF SymbolSearchCurrent
  <2>3. [env[1] EXCEPT ![x] = s] \in Scope
    BY <2>2 DEF Scope
  <2>4. /\ env' \in Seq(Scope) /\ Len(env') = depth /\ env'[1] = [env[1] EXCEPT ![x] = s]
        /\ \A j \in 2..depth : env'[j] = env[j]
    BY <1>0, <2>1, <2>3
  <2>5. /\ env'[1][x] = s
        /\ \A y \in Name : y # x => env'[1][y] = env[1][y]
    BY <2>2, <2>4 DEF Scope
  <2>6. Stored'
    <3> SUFFICES ASSUME NEW d \in decls'
                 PROVE d.depth <= depth /\ env'[depth + 1 - d.depth][d.name] = d.sym
      BY <1>0 DEF Stored, At
    <3>1. CASE d = new
      BY <1>0, <2>5, <3>1
    <3>2. CASE d \in decls
      <4>1. /\ d.depth \in Nat /\ d.depth >= 1 /\ d.depth <= depth /\ d.name \in Name
            /\ env[depth + 1 - d.depth][d.name] = d.sym
        BY <1>0, <3>2 DEF Stored, At
      <4>2. CASE d.depth = depth
        <5>1. d.name # x
          BY <1>2, <3>2, <4>2 DEF DeclaredHere
        <5> QED BY <1>0, <2>5, <4>1, <4>2, <5>1
      <4>3. CASE d.depth < depth
        <5>1. depth + 1 - d.depth \in 2..depth
          BY <1>0, <4>1, <4>3
        <5> QED BY <2>4, <4>1, <5>1
      <4> QED BY <1>0, <4>1, <4>2, <4>3
    <3> QED BY <2>1, <3>1, <3>2
  <2>7. Declared'
    <3> SUFFICES ASSUME NEW j \in 1..depth, NEW y \in Name, env'[j][y] # NoSym
                 PROVE [depth |-> depth + 1 - j, name |-> y, sym |-> env'[j][y]] \in decls'
      BY <1>0 DEF Declared, At
    <3>1. CASE j = 1 /\ y = x
      <4>1. depth + 1 - j = depth
        BY <1>0, <3>1
      <4> QED BY <2>1, <2>5, <3>1, <4>1
    <3>2. CASE j = 1 /\ y # x
      BY <2>1, <2>5, <3>2 DEF Declared, At
    <3>3. CASE j \in 2..depth
      BY <2>1, <2>4, <3>3 DEF Declared, At
    <3> QED BY <1>0, <3>1, <3>2, <3>3
  <2>8. decls' \subseteq [depth : Nat \ {0}, name : Name, sym : Symbol]
    <3>1. new \in [depth : Nat \ {0}, name : Name, sym : Symbol]
      BY <1>0
    <3> QED BY <1>0, <2>1, <3>1
  <2> QED BY <1>0, <2>4, <2>6, <2>7, <2>8
<1> QED BY <1>1, <1>2

\* The invariant is inductive.
LEMMA NextIInv == IInv /\ [TableNext]_tableVars => IInv'
<1> SUFFICES ASSUME IInv, [TableNext]_tableVars PROVE IInv'
  OBVIOUS
<1>1. CASE depth < MaxDepth /\ EnvPushScope
  BY <1>1, PushIInv
<1>2. CASE depth > 0 /\ EnvPopScope
  BY <1>2, PopIInv
<1>3. CASE depth > 0 /\ \E x \in Name, s \in Symbol : Declare(x, s)
  BY <1>3, DeclareIInv
<1>4. CASE UNCHANGED tableVars
  BY <1>4 DEF tableVars, IInv, TableTypeOK, Stored, Declared, At
<1> QED BY <1>1, <1>2, <1>3, <1>4 DEF TableNext

\* The invariant holds in every state of the table.
LEMMA AlwaysIInv == TableSpec => []IInv
BY InitIInv, NextIInv, PTL DEF TableSpec

\* symbol_search gives what the first scope that holds the name has for it.
LEMMA FirstScope ==
    ASSUME NEW S, NEW e \in Seq(S), NEW x
    PROVE  \/ /\ \A j \in 1..Len(e) : e[j][x] = NoSym
              /\ SymbolSearch(e, x) = NoSym
           \/ \E m \in 1..Len(e) :
                 /\ e[m][x] # NoSym /\ \A i \in 1..(m - 1) : e[i][x] = NoSym
                 /\ SymbolSearch(e, x) = e[m][x]
<1> DEFINE J == {j \in 1..Len(e) : e[j][x] # NoSym}
<1>0. DOMAIN e = 1..Len(e) /\ Len(e) \in Nat
  OBVIOUS
<1>1. CASE J = {}
  <2>1. \A j \in 1..Len(e) : e[j][x] = NoSym
    BY <1>1
  <2> QED BY <1>0, <2>1 DEF SymbolSearch
<1>2. CASE J # {}
  <2>1. PICK m \in J : \A j \in J : m <= j
    <3>1. J \in SUBSET Nat
      BY <1>0
    <3> QED BY <1>2, <3>1, LeastNatural
  <2> DEFINE First(j) == j \in DOMAIN e /\ e[j][x] # NoSym
                         /\ \A i \in 1..(j - 1) : e[i][x] = NoSym
             first == CHOOSE j \in DOMAIN e : /\ e[j][x] # NoSym
                                              /\ \A i \in 1..(j - 1) : e[i][x] = NoSym
  <2>2. First(m)
    <3>1. ASSUME NEW i \in 1..(m - 1) PROVE e[i][x] = NoSym
      <4>1. i \in 1..Len(e) /\ ~(m <= i)
        BY <1>0, <2>1
      <4> QED BY <2>1, <4>1
    <3> QED BY <1>0, <2>1, <3>1
  <2>3. First(first)
    BY <2>2
  <2>4. \E j \in DOMAIN e : e[j][x] # NoSym
    BY <2>2
  <2>5. SymbolSearch(e, x) = e[first][x]
    BY <2>4 DEF SymbolSearch
  <2> QED BY <1>0, <2>3, <2>5
<1> QED BY <1>1, <1>2

\* The first scope that has a name is the one of the innermost block with a
\* declaration of it.
LEMMA SearchFindsInnermost ==
    ASSUME IInv, NEW x \in Name
    PROVE  SymbolSearch(env, x) = Visible(x)
<1> USE NoSymAssumption DEF IInv, TableTypeOK
<1> DEFINE J == {j \in 1..depth : env[j][x] # NoSym}
           of == {d \in decls : d.name = x}
<1>0. DOMAIN env = 1..depth /\ depth \in Nat
  OBVIOUS
<1>1. ASSUME NEW d \in of
      PROVE  d.depth \in Nat /\ At(d.depth) \in J /\ env[At(d.depth)][x] = d.sym
  <2>1. d.depth \in Nat /\ d.depth >= 1 /\ d.depth <= depth /\ d.sym \in Symbol
        /\ env[At(d.depth)][x] = d.sym
    BY DEF Stored
  <2>2. At(d.depth) \in 1..depth
    BY <1>0, <2>1 DEF At
  <2> QED BY <2>1, <2>2
<1>2. CASE J = {} /\ SymbolSearch(env, x) = NoSym
  <2>1. of = {}
    BY <1>1, <1>2
  <2> QED BY <1>2, <2>1 DEF Visible
<1>3. ASSUME NEW m \in J, \A i \in 1..(m - 1) : env[i][x] = NoSym,
             SymbolSearch(env, x) = env[m][x]
      PROVE  SymbolSearch(env, x) = Visible(x)
  <2>1. \A j \in J : m <= j
    <3> SUFFICES ASSUME NEW j \in J, j < m PROVE FALSE
      BY <1>0
    <3>1. j \in 1..(m - 1)
      BY <1>0
    <3> QED BY <1>3, <3>1
  <2> DEFINE deepest == [depth |-> At(m), name |-> x, sym |-> env[m][x]]
             Top(d) == d \in of /\ \A c \in of : c.depth <= d.depth
             top == CHOOSE d \in of : \A c \in of : c.depth <= d.depth
  <2>2. Top(deepest)
    <3>1. deepest \in of
      BY <2>1 DEF Declared
    <3>2. ASSUME NEW c \in of PROVE c.depth <= At(m)
      <4>1. c.depth \in Nat /\ m <= At(c.depth) /\ m \in Nat
        BY <1>0, <1>1, <2>1
      <4> QED BY <1>0, <4>1 DEF At
    <3> QED BY <3>1, <3>2
  <2>3. Top(top)
    BY <2>2
  <2>4. top.depth = At(m)
    <3>1. top.depth <= At(m) /\ At(m) <= top.depth /\ top.depth \in Nat /\ At(m) \in Int
      BY <1>0, <1>1, <2>1, <2>2, <2>3 DEF At
    <3> QED BY <3>1
  <2>5. top.sym = env[m][x]
    <3>1. env[At(top.depth)][x] = top.sym
      BY <1>1, <2>3
    <3>2. At(top.depth) = m
      BY <1>0, <2>1, <2>4 DEF At
    <3> QED BY <3>1, <3>2
  <2>6. Visible(x) = top.sym
    BY <2>2 DEF Visible
  <2> QED BY <1>3, <2>5, <2>6
<1>4. env \in Seq(Scope) /\ Len(env) = depth
  OBVIOUS
<1>5. \/ J = {} /\ SymbolSearch(env, x) = NoSym
      \/ \E m \in J : /\ \A i \in 1..(m - 1) : env[i][x] = NoSym
                      /\ SymbolSearch(env, x) = env[m][x]
  BY <1>4, FirstScope
<1> QED BY <1>2, <1>3, <1>5

\* Every name resolves to the declaration of the innermost open block that has
\* one (symbol_search), and the current scope holds exactly the declarations of
\* the innermost block (symbol_search_current), for every set of names and
\* symbols and any nesting.
THEOREM NamesResolveToInnermost == TableSpec => []ResolvesToInnermost
<1>1. IInv => ResolvesToInnermost
  BY SearchFindsInnermost, CurrentScope DEF ResolvesToInnermost
<1> QED BY <1>1, AlwaysIInv, PTL

\* The table keeps its type: scopes are total maps from the names, and the
\* declarations are of open blocks.
THEOREM TableTypeCorrect == TableSpec => []TableTypeOK
<1>1. IInv => TableTypeOK
  BY DEF IInv
<1> QED BY <1>1, AlwaysIInv, PTL

\* No step of the table changes or loses a declaration whose block stays open.
THEOREM DeclarationsAreFinal == TableSpec => DeclarationsStay
<1>1. IInv /\ IInv' /\ [TableNext]_tableVars =>
        [\A d \in decls : d.depth <= depth' => env'[depth' + 1 - d.depth][d.name] = d.sym]_tableVars
  <2> SUFFICES ASSUME IInv, IInv', TableNext, NEW d \in decls, d.depth <= depth'
               PROVE  env'[depth' + 1 - d.depth][d.name] = d.sym
    OBVIOUS
  <2>1. d \in decls'
    <3>1. depth \in Nat /\ d.depth \in Nat
      BY DEF IInv, TableTypeOK
    <3>2. CASE EnvPushScope
      BY <3>2 DEF EnvPushScope
    <3>3. CASE EnvPopScope
      BY <3>1, <3>3 DEF EnvPopScope
    <3>4. CASE \E x \in Name, s \in Symbol : Declare(x, s)
      BY <3>4 DEF Declare
    <3> QED BY <3>2, <3>3, <3>4 DEF TableNext
  <2> QED BY <2>1 DEF IInv, Stored, At
<1> QED BY <1>1, AlwaysIInv, PTL DEF TableSpec, DeclarationsStay
============================================================================
