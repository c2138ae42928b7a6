---------------------------- MODULE ParserProofs ----------------------------
(***************************************************************************)
(* What the run of Printer checks of the parser on trees of a few nodes,   *)
(* proved for trees, stacks and sources of any size: the lists of the tree *)
(* share no node and follow the source, and variables have the types their *)
(* declarations give them, but where the code is known not to see to it;   *)
(* the tree lies as the source does, each construct after what it is made  *)
(* of, with no gap; and printing it visits each node once, in the order of *)
(* the source.                                                             *)
(***************************************************************************)
EXTENDS Printer, NaturalLemmas, SequenceTheorems

Owners == {"program", "global", "function", "command", "call", "se", "enquanto", "senao",
           "dangling"}
Parted == {"leaf", "gvar", "control", "call", "block", "func"}

\* The lists there may be when u nodes are allocated.
Frame(u) == [kind : Kinds, owner : Owners, head : 1..u \cup {NULL}, src : Seq(1..u),
             bare : BOOLEAN, kids : Seq(1..u \cup {NULL}), from : 1..(u + 1)]

\* List f, linked by nxt: from its first node on, each leads to the next one the
\* source put in it, and the last to none.
Fits(f, nxt, u) ==
    /\ f \in Frame(u)
    /\ f.bare \/ f.src = <<>> => f.head = NULL
    /\ ~f.bare /\ f.src # <<>> =>
          /\ f.head = f.src[1]
          /\ \A j \in 1..Len(f.src) :
                nxt[f.src[j]] = IF j < Len(f.src) THEN f.src[j + 1] ELSE NULL

\* The lists and where they are: 0 for a finished one, or its place on the stack.
Slot(j, f) == [at |-> j, list |-> f]
Slots(P, C) == {Slot(j, P[j]) : j \in 1..Len(P)} \cup {Slot(0, f) : f \in C}

\* The lists A share no node, and nodes are linked by them alone.
Good(A, nxt, u) ==
    /\ nxt \in [Node -> Node \cup {NULL}]
    /\ \A a \in A : Fits(a.list, nxt, u)
    /\ \A a, b \in A : \A j \in 1..Len(a.list.src), k \in 1..Len(b.list.src) :
          a.list.src[j] = b.list.src[k] => a = b /\ j = k
    /\ \A m \in Node : nxt[m] # NULL =>
          \E a \in A : ~a.list.bare /\ \E j \in 1..(Len(a.list.src) - 1) : a.list.src[j] = m

\* What TypeOK says of what is no list.
Typed ==
    /\ used \in 0..MaxNodes /\ empty \in 0..MaxEmpty
    /\ type \in [Node -> VarType] /\ asked \in [Node -> VarType] /\ first \in [Node -> Node]
    /\ root \in Seq(1..used \cup {NULL})
    /\ tree \in [Node -> [kind : Parted, kids : Seq(1..used \cup {NULL})]]
    /\ phase \in {"parsing", "parsed", "failed", "exited"}

\* The stack follows the grammar: which list may be open in which.
Steady(f) ==
    /\ f.bare => f.kind = "cmds"
    /\ f.kind = "cmds" => f.bare \/ f.src # <<>>
    /\ f.kind \in {"control", "governed"} => f.src = <<>>
    /\ f.owner # "global"
Within(f, g) ==
    \/ f.kind = "params" /\ f.owner = "function" /\ g.kind = "globals"
    \/ f.kind \in {"vars", "cmds"} /\ f.owner \in {"program", "function"} /\ g.kind = "globals"
    \/ f.kind \in {"vars", "cmds"} /\ f.owner = "command" /\ g.kind \in {"vars", "cmds", "control"}
    \/ f.kind \in {"control", "governed"} /\ g.kind \in {"vars", "cmds", "control"}
    \/ f.kind = "args" /\ g.kind \in {"vars", "cmds", "control", "args"}
Nested(S) ==
    /\ Len(S) \in 1..MaxStack /\ S[1].kind = "globals"
    /\ \A j \in 1..Len(S) : Steady(S[j])
    /\ \A j \in 2..Len(S) : Within(S[j], S[j - 1])

\* The stack P and the finished lists C, with what is said of their lists and of
\* the types of their variables.
Sound(P, C, nxt, u) == P \in Seq(Frame(u)) /\ Good(Slots(P, C), nxt, u)
TypeFits(f, ty, as) == f.kind = "vars" => \A j \in DOMAIN f.src :
    ty[f.src[j]] = IF f.owner = "global" /\ j > 1 THEN "int" ELSE as[f.src[j]]
AllTypesFit(P, C, ty, as) ==
    (\A j \in 1..Len(P) : TypeFits(P[j], ty, as)) /\ (\A f \in C : TypeFits(f, ty, as))

\* The inductive invariant.
Whole(P, C, nxt, u, ty, as) ==
    Sound(P, C, nxt, u) /\ Nested(P) /\ AllTypesFit(P, C, ty, as)
IInv == Typed /\ Whole(stack, closed, next, used, type, asked)
-----------------------------------------------------------------------------
LEMMA NodesArePositive == \A n \in Node : n \in Nat \ {0}
BY NodesAssumption DEF Node

\* A list of distinct nodes has no more of them than there are.
LEMMA NoLonger ==
    ASSUME NEW s \in Seq(Node), \A j, k \in 1..Len(s) : s[j] = s[k] => j = k
    PROVE  Len(s) <= MaxNodes
<1>1. MaxNodes \in Nat /\ Len(s) \in Nat
  BY NodesAssumption
<1>2. s \in Injection(1..Len(s), Node)
  BY DEF Injection, IsInjective
<1>3. IsFiniteSet(Node) /\ Cardinality(Node) = MaxNodes
  <2>1. 1 \in Int /\ MaxNodes \in Int
    BY <1>1
  <2>2. IsFiniteSet(1..MaxNodes) /\ Cardinality(1..MaxNodes) = IF 1 > MaxNodes THEN 0 ELSE MaxNodes - 1 + 1
    BY <2>1, FS_Interval
  <2> QED BY <1>1, <2>2 DEF Node
<1>4. Cardinality(1..Len(s)) = Len(s)
  <2>1. 1 \in Int /\ Len(s) \in Int
    BY <1>1
  <2>2. Cardinality(1..Len(s)) = IF 1 > Len(s) THEN 0 ELSE Len(s) - 1 + 1
    BY <2>1, FS_Interval
  <2> QED BY <1>1, <2>2
<1>5. Cardinality(1..Len(s)) <= Cardinality(Node)
  BY <1>2, <1>3, FS_Injection
<1> QED BY <1>3, <1>4, <1>5

\* A chain that is linked like a sequence of distinct nodes is that sequence.
Runs(h, s, nxt) ==
    /\ h = s[1]
    /\ \A j \in 1..Len(s) : nxt[s[j]] = IF j < Len(s) THEN s[j + 1] ELSE NULL

LEMMA ChainIs ==
    ASSUME NEW s \in Seq(Node), s # <<>>, Len(s) <= MaxNodes, NEW h, NEW nxt, Runs(h, s, nxt)
    PROVE  Chain(h, nxt) = s
<1> DEFINE S == 0..MaxNodes
           w == [n \in S |-> IF n < Len(s) THEN SubSeq(s, 1, n + 1) ELSE s]
           R(f) == f = [n \in S |-> IF n = 0 THEN <<h>>
                                    ELSE LET c == f[n - 1]
                                         IN  IF nxt[Last(c)] = NULL THEN c
                                             ELSE Append(c, nxt[Last(c)])]
<1>1. /\ MaxNodes \in Nat /\ Len(s) \in Nat \ {0} /\ h = s[1]
      /\ \A j \in 1..Len(s) : s[j] \in Node /\ s[j] # NULL
      /\ \A j \in 1..Len(s) : nxt[s[j]] = IF j < Len(s) THEN s[j + 1] ELSE NULL
  BY NodesAssumption DEF Runs, Node
<1>2. \A n \in S : w[n] = IF n < Len(s) THEN SubSeq(s, 1, n + 1) ELSE s
  OBVIOUS
<1>3. w[0] = <<h>>
  <2>1. 0 \in S /\ 0 < Len(s) /\ 0 + 1 = 1
    BY <1>1
  <2>2. w[0] = SubSeq(s, 1, 1)
    BY <1>2, <2>1
  <2>3. Len(SubSeq(s, 1, 1)) = 1 /\ SubSeq(s, 1, 1)[1] = s[1] /\ SubSeq(s, 1, 1) \in Seq(Node)
    BY <1>1
  <2>4. SubSeq(s, 1, 1) = <<s[1]>>
    <3>1. <<s[1]>> \in Seq(Node) /\ Len(<<s[1]>>) = 1 /\ <<s[1]>>[1] = s[1]
      BY <1>1
    <3>2. \A j \in 1..Len(SubSeq(s, 1, 1)) : SubSeq(s, 1, 1)[j] = <<s[1]>>[j]
      BY <2>3, <3>1
    <3> HIDE DEF S, w
    <3> QED BY <2>3, <3>1, <3>2, SeqEqual, Zenon
  <2> QED BY <1>1, <2>2, <2>4
<1>4. ASSUME NEW n \in S, n # 0
      PROVE  w[n] = IF nxt[Last(w[n - 1])] = NULL THEN w[n - 1]
                    ELSE Append(w[n - 1], nxt[Last(w[n - 1])])
  <2>0. n - 1 \in S /\ n \in Nat
    BY <1>1, <1>4
  <2>1. CASE n < Len(s)
    <3>1. w[n - 1] = SubSeq(s, 1, n) /\ w[n] = SubSeq(s, 1, n + 1)
      BY <1>1, <1>2, <1>4, <2>0, <2>1
    <3>2. Len(SubSeq(s, 1, n)) = n /\ SubSeq(s, 1, n)[n] = s[n]
      BY <1>1, <1>4, <2>0, <2>1
    <3>3. nxt[Last(w[n - 1])] = s[n + 1] /\ s[n + 1] # NULL
      BY <1>1, <1>4, <2>0, <2>1, <3>1, <3>2 DEF Last
    <3>4. SubSeq(s, 1, n + 1) = Append(SubSeq(s, 1, n), s[n + 1])
      BY <1>1, <1>4, <2>0, <2>1
    <3> QED BY <3>1, <3>3, <3>4
  <2>2. CASE ~(n < Len(s))
    <3>1. w[n - 1] = s
      <4>1. CASE n = Len(s)
        <5>1. SubSeq(s, 1, Len(s)) = s
          BY SubSeqFull
        <5> QED BY <1>1, <1>2, <2>0, <4>1, <5>1
      <4>2. CASE n # Len(s)
        BY <1>1, <1>2, <2>0, <2>2, <4>2
      <4> QED BY <4>1, <4>2
    <3>2. nxt[Last(s)] = NULL
      BY <1>1 DEF Last
    <3> QED BY <1>2, <2>2, <3>1, <3>2
  <2> QED BY <2>1, <2>2
<1>5. DOMAIN w = S /\ w = [n \in S |-> w[n]]
  OBVIOUS
<1> HIDE DEF w
<1>6. R(w)
  BY <1>3, <1>4, <1>5
<1>7. ASSUME NEW f, R(f) PROVE f = w
  <2>1. DOMAIN f = S /\ f = [n \in S |-> f[n]]
    BY <1>7
  <2>2. f[0] = <<h>>
    BY <1>1, <1>7
  <2>3. \A n \in S : n # 0 => f[n] = IF nxt[Last(f[n - 1])] = NULL THEN f[n - 1]
                                     ELSE Append(f[n - 1], nxt[Last(f[n - 1])])
    BY <1>7
  <2> DEFINE T == {n \in S : f[n] # w[n]}
  <2>4. ASSUME T # {} PROVE FALSE
    <3>1. T \in SUBSET Nat
      BY <1>1
    <3>2. PICK m \in T : \A n \in T : m <= n
      BY <2>4, <3>1, LeastNatural
    <3>3. m # 0
      BY <1>3, <2>2, <3>2
    <3>4. m - 1 \in S /\ m - 1 \notin T
      BY <1>1, <3>2, <3>3
    <3>5. f[m - 1] = w[m - 1]
      BY <3>4
    <3> QED BY <1>4, <2>3, <3>2, <3>3, <3>5
  <2>5. \A n \in S : f[n] = w[n]
    BY <2>4
  <2> QED BY <1>5, <2>1, <2>5
<1>8. (CHOOSE f : R(f)) = w
  <2>1. R(CHOOSE f : R(f))
    BY <1>6
  <2> QED BY <1>7, <2>1
<1>9. h # NULL
  BY <1>1
<1>10. w[MaxNodes] = s
  BY <1>1, <1>2, SubSeqFull
<1> QED BY <1>8, <1>9, <1>10 DEF Chain
-----------------------------------------------------------------------------
\* What may be listed stays so when more nodes are allocated.
LEMMA FrameGrows ==
    ASSUME NEW u \in Nat, NEW v \in Nat, u <= v, NEW f \in Frame(u) PROVE f \in Frame(v)
<1>1. 1..u \subseteq 1..v /\ 1..u \cup {NULL} \subseteq 1..v \cup {NULL} /\ 1..(u + 1) \subseteq 1..(v + 1)
  OBVIOUS
<1>2. f.src \in Seq(1..u) /\ f.kids \in Seq(1..u \cup {NULL})
  BY DEF Frame
<1>3. f.src \in Seq(1..v) /\ f.kids \in Seq(1..v \cup {NULL})
  BY <1>1, <1>2, SeqMonotonic
<1> QED BY <1>1, <1>3 DEF Frame

\* The parts of a list.
LEMMA FrameParts ==
    ASSUME NEW u \in Nat, u <= MaxNodes, NEW f \in Frame(u)
    PROVE  /\ f.src \in Seq(Node) /\ f.src \in Seq(1..u) /\ Len(f.src) \in Nat
           /\ \A j \in 1..Len(f.src) : f.src[j] \in 1..u /\ f.src[j] \in Node /\ f.src[j] # NULL
           /\ f.src # <<>> => Len(f.src) > 0 /\ f.src[1] \in 1..u /\ f.src[1] # NULL
           /\ f.kind \in Kinds /\ f.owner \in Owners /\ f.bare \in BOOLEAN
           /\ f.head \in 1..u \cup {NULL} /\ f.from \in 1..(u + 1)
           /\ f.kids \in Seq(1..u \cup {NULL})
<1>1. f.src \in Seq(1..u) /\ f.kids \in Seq(1..u \cup {NULL})
  BY DEF Frame
<1>2. 1..u \subseteq Node /\ NULL \notin 1..u
  BY NodesAssumption DEF Node
<1>3. f.src \in Seq(Node)
  BY <1>1, <1>2, SeqMonotonic
<1>4. /\ f.kind \in Kinds /\ f.owner \in Owners /\ f.bare \in BOOLEAN
      /\ f.head \in 1..u \cup {NULL} /\ f.from \in 1..(u + 1)
  BY DEF Frame
<1>5. Len(f.src) \in Nat /\ (f.src # <<>> => Len(f.src) > 0)
  BY <1>1
<1>6. \A j \in 1..Len(f.src) : f.src[j] \in 1..u
  BY <1>1
<1> QED BY <1>1, <1>2, <1>3, <1>4, <1>5, <1>6

LEMMA GoodGrows ==
    ASSUME NEW u \in Nat, NEW v \in Nat, u <= v, NEW A, NEW nxt, Good(A, nxt, u)
    PROVE  Good(A, nxt, v)
<1>1. \A a \in A : Fits(a.list, nxt, v)
  BY FrameGrows DEF Good, Fits
<1> QED BY <1>1 DEF Good

\* An empty list is welcome, or not missed.
Void(f, u) == f \in Frame(u) /\ f.src = <<>> /\ f.head = NULL

LEMMA GoodVoid ==
    ASSUME NEW u \in Nat, NEW A, NEW nxt, Good(A, nxt, u), NEW x, Void(x.list, u)
    PROVE  Good(A \cup {x}, nxt, u)
<1>1. Len(x.list.src) = 0 /\ 1..Len(x.list.src) = {}
  BY DEF Void
<1>2. \A a \in A \cup {x} : Fits(a.list, nxt, u)
  BY DEF Good, Fits, Void
<1> QED BY <1>1, <1>2 DEF Good

LEMMA GoodDrop ==
    ASSUME NEW u \in Nat, NEW A, NEW nxt, NEW x, Good(A \cup {x}, nxt, u), x.list.src = <<>>
    PROVE  Good(A, nxt, u)
<1>1. Len(x.list.src) = 0
  OBVIOUS
<1>2. \A m \in Node : nxt[m] # NULL =>
          \E a \in A : ~a.list.bare /\ \E j \in 1..(Len(a.list.src) - 1) : a.list.src[j] = m
  <2> SUFFICES ASSUME NEW m \in Node, nxt[m] # NULL
               PROVE  \E a \in A : ~a.list.bare
                         /\ \E j \in 1..(Len(a.list.src) - 1) : a.list.src[j] = m
    OBVIOUS
  <2>1. PICK a \in A \cup {x} : ~a.list.bare
                         /\ \E j \in 1..(Len(a.list.src) - 1) : a.list.src[j] = m
    BY DEF Good
  <2>2. a # x
    BY <1>1, <2>1
  <2> QED BY <2>1, <2>2
<1> QED BY <1>2 DEF Good

\* A list may change its place and what it is of.
Alike(f, g, u) == g \in Frame(u) /\ g.src = f.src /\ g.head = f.head /\ g.bare = f.bare

LEMMA GoodRename ==
    ASSUME NEW u \in Nat, NEW A, NEW nxt, NEW x, x \notin A, Good(A \cup {x}, nxt, u),
           NEW y, Alike(x.list, y.list, u)
    PROVE  Good(A \cup {y}, nxt, u)
<1>1. nxt \in [Node -> Node \cup {NULL}]
  BY DEF Good
<1>2. \A a \in A \cup {y} : Fits(a.list, nxt, u)
  <2>1. Fits(x.list, nxt, u)
    BY DEF Good
  <2>2. Fits(y.list, nxt, u)
    BY <2>1 DEF Fits, Alike
  <2> QED BY <2>2 DEF Good
<1>3. ASSUME NEW a \in A \cup {y}, NEW b \in A \cup {y},
             NEW j \in 1..Len(a.list.src), NEW k \in 1..Len(b.list.src),
             a.list.src[j] = b.list.src[k]
      PROVE  a = b /\ j = k
  <2>1. y.list.src = x.list.src
    BY DEF Alike
  <2>2. \A c, d \in A \cup {x} : \A p \in 1..Len(c.list.src), q \in 1..Len(d.list.src) :
            c.list.src[p] = d.list.src[q] => c = d /\ p = q
    BY DEF Good
  <2>3. CASE a = y /\ b = y
    BY <1>3, <2>1, <2>2, <2>3
  <2>4. CASE a = y /\ b \in A
    BY <1>3, <2>1, <2>2, <2>4
  <2>5. CASE a \in A /\ b = y
    BY <1>3, <2>1, <2>2, <2>5
  <2>6. CASE a \in A /\ b \in A
    BY <1>3, <2>2, <2>6
  <2> QED BY <2>3, <2>4, <2>5, <2>6
<1>4. ASSUME NEW m \in Node, nxt[m] # NULL
      PROVE  \E a \in A \cup {y} : ~a.list.bare /\ \E j \in 1..(Len(a.list.src) - 1) : a.list.src[j] = m
  <2>1. PICK a \in A \cup {x} : ~a.list.bare /\ \E j \in 1..(Len(a.list.src) - 1) : a.list.src[j] = m
    BY <1>4 DEF Good
  <2>2. CASE a = x
    BY <2>1, <2>2 DEF Alike
  <2> QED BY <2>1, <2>2
<1> QED BY <1>1, <1>2, <1>3, <1>4 DEF Good

\* The chain of a list is what the source put in it.
LEMMA ChainOf ==
    ASSUME NEW u \in Nat, u <= MaxNodes, NEW A, NEW nxt, Good(A, nxt, u), NEW a \in A
    PROVE  a.list.bare \/ Chain(a.list.head, nxt) = a.list.src
<1> DEFINE f == a.list
<1>1. Fits(f, nxt, u) /\ f \in Frame(u) /\ f.src \in Seq(Node)
  <2>1. Fits(f, nxt, u)
    BY DEF Good
  <2>2. f \in Frame(u)
    BY <2>1 DEF Fits
  <2> QED BY <2>1, <2>2, FrameParts
<1>2. CASE f.src = <<>>
  BY <1>1, <1>2 DEF Fits, Chain
<1>3. CASE ~f.bare /\ f.src # <<>>
  <2>1. Runs(f.head, f.src, nxt)
    BY <1>1, <1>3 DEF Fits, Runs
  <2>2. \A j, k \in 1..Len(f.src) : f.src[j] = f.src[k] => j = k
    BY DEF Good
  <2>3. Len(f.src) <= MaxNodes
    BY <1>1, <2>2, NoLonger
  <2> HIDE DEF f
  <2>4. Chain(f.head, nxt) = f.src
    BY <1>1, <1>3, <2>1, <2>3, ChainIs
  <2> QED BY <2>4 DEF f
<1> QED BY <1>2, <1>3

\* Of the nodes that are not allocated yet none is linked.
LEMMA FreshUnlinked ==
    ASSUME NEW u \in Nat, u <= MaxNodes, NEW A, NEW nxt, Good(A, nxt, u), NEW m \in Node, m > u
    PROVE  nxt[m] = NULL
<1> SUFFICES ASSUME nxt[m] # NULL PROVE FALSE
  OBVIOUS
<1>1. PICK a \in A : \E j \in 1..(Len(a.list.src) - 1) : a.list.src[j] = m
  BY DEF Good
<1>2. PICK j \in 1..(Len(a.list.src) - 1) : a.list.src[j] = m
  BY <1>1
<1>3. a.list \in Frame(u)
  BY DEF Good, Fits
<1>4. Len(a.list.src) \in Nat /\ \A p \in 1..Len(a.list.src) : a.list.src[p] \in 1..u
  BY <1>3, FrameParts
<1>5. j \in 1..Len(a.list.src)
  BY <1>4
<1>6. m \in 1..u
  BY <1>2, <1>4, <1>5
<1> QED BY <1>6

\* k fresh nodes linked to each other, and put after the nodes of a list.
Run(nxt, u, k) == [n \in Node |-> IF n \in (u + 1)..(u + k) /\ n < u + k THEN n + 1 ELSE nxt[n]]
Links(h, nxt, nxt2, u, k) == nxt2 = Extend(h, Run(nxt, u, k), u + 1)
Longer(f, g, u, k) ==
    /\ g \in Frame(u + k) /\ ~f.bare /\ ~g.bare
    /\ g.src = f.src \o [j \in 1..k |-> u + j]
    /\ g.head = IF f.head = NULL THEN u + 1 ELSE f.head

\* What linking them to the list does.
Tied(s, nxt, nxt2, u, k) ==
    /\ nxt2 \in [Node -> Node \cup {NULL}]
    /\ \A n \in Node : nxt2[n] = IF n > u /\ n < u + k THEN n + 1
                                ELSE IF s # <<>> /\ n = s[Len(s)] THEN u + 1 ELSE nxt[n]

LEMMA ExtendIs ==
    ASSUME NEW u \in Nat, NEW k \in Nat \ {0}, u + k <= MaxNodes,
           NEW A, NEW nxt, NEW x, Good(A \cup {x}, nxt, u), ~x.list.bare,
           NEW nxt2, Links(x.list.head, nxt, nxt2, u, k)
    PROVE  Tied(x.list.src, nxt, nxt2, u, k)
<1> DEFINE f == x.list
           run == Run(nxt, u, k)
<1>1. /\ nxt \in [Node -> Node \cup {NULL}] /\ Fits(f, nxt, u) /\ f \in Frame(u) /\ u <= MaxNodes
      /\ MaxNodes \in Nat /\ Node = 1..MaxNodes
  <2>1. nxt \in [Node -> Node \cup {NULL}] /\ Fits(f, nxt, u)
    BY DEF Good
  <2>2. MaxNodes \in Nat /\ Node = 1..MaxNodes
    BY NodesAssumption DEF Node
  <2> QED BY <2>1, <2>2 DEF Fits
<1>2. /\ f.src \in Seq(Node) /\ Len(f.src) \in Nat /\ (f.src # <<>> => Len(f.src) > 0)
      /\ \A j \in 1..Len(f.src) : f.src[j] \in 1..u /\ f.src[j] \in Node
      /\ (f.src # <<>> => f.src[1] # NULL)
  BY <1>1, FrameParts
<1>3. /\ \A n \in Node : run[n] = IF n > u /\ n < u + k THEN n + 1 ELSE nxt[n]
      /\ run \in [Node -> Node \cup {NULL}]
  BY <1>1 DEF Run
<1>4. CASE f.src = <<>>
  <2>1. f.head = NULL
    BY <1>1, <1>4 DEF Fits
  <2>2. nxt2 = run
    BY <2>1 DEF Extend, Links
  <2> QED BY <1>3, <1>4, <2>2 DEF Tied
<1>5. CASE f.src # <<>>
  <2>1. Fits(f, nxt, u) /\ f.head = f.src[1] /\ f.head # NULL
    BY <1>1, <1>2, <1>5 DEF Fits
  <2>2. Runs(f.head, f.src, run)
    <3>1. \A j \in 1..Len(f.src) : run[f.src[j]] = nxt[f.src[j]]
      BY <1>2, <1>3
    <3> QED BY <1>5, <2>1, <3>1 DEF Fits, Runs
  <2>3. \A j, p \in 1..Len(f.src) : f.src[j] = f.src[p] => j = p
    BY DEF Good
  <2>4. Len(f.src) <= MaxNodes
    BY <1>2, <2>3, NoLonger
  <2> HIDE DEF f, run
  <2>5. Chain(f.head, run) = f.src
    BY <1>2, <1>5, <2>2, <2>4, ChainIs
  <2>6. nxt2 = [run EXCEPT ![f.src[Len(f.src)]] = u + 1]
    BY <2>1, <2>5 DEF Extend, Links, Last, f, run
  <2>7. u + 1 \in Node /\ f.src[Len(f.src)] \in 1..u
    <3>1. u + 1 \in Node
      BY <1>1
    <3>2. Len(f.src) \in 1..Len(f.src)
      BY <1>2, <1>5 DEF f
    <3> QED BY <1>2, <3>1, <3>2 DEF f
  <2>8. nxt2 \in [Node -> Node \cup {NULL}]
    BY <1>3, <2>6, <2>7
  <2>9. \A n \in Node : nxt2[n] = IF n = f.src[Len(f.src)] THEN u + 1 ELSE run[n]
    BY <1>3, <2>6
  <2>10. \A n \in Node : nxt2[n] = IF n > u /\ n < u + k THEN n + 1
                                   ELSE IF n = f.src[Len(f.src)] THEN u + 1 ELSE nxt[n]
    BY <1>1, <1>3, <2>7, <2>9
  <2> QED BY <1>5, <2>8, <2>10 DEF f, Tied
<1> QED BY <1>4, <1>5

Follows(s, t, u, k) ==
    /\ Len(t) = Len(s) + k /\ Len(s) \in Nat
    /\ \A j \in 1..Len(s) : t[j] = s[j] /\ s[j] \in 1..u
    /\ \A j \in 1..Len(t) : j > Len(s) => t[j] = u + (j - Len(s))

LEMMA LongerIs ==
    ASSUME NEW u \in Nat, NEW k \in Nat, u + k <= MaxNodes, NEW f \in Frame(u), NEW g,
           Longer(f, g, u, k)
    PROVE  Follows(f.src, g.src, u, k)
<1>1. u <= MaxNodes /\ MaxNodes \in Nat
  BY NodesAssumption
<1>2. f.src \in Seq(Node) /\ Len(f.src) \in Nat /\ \A j \in 1..Len(f.src) : f.src[j] \in 1..u
  BY <1>1, FrameParts
<1> DEFINE s == [j \in 1..k |-> u + j]
<1>3. s \in Seq(Node) /\ Len(s) = k /\ \A j \in 1..k : s[j] = u + j
  BY <1>1 DEF Node
<1>4. g.src = f.src \o s
  BY DEF Longer
<1> HIDE DEF s
<1>5. /\ Len(f.src \o s) = Len(f.src) + Len(s)
      /\ \A j \in 1..(Len(f.src) + Len(s)) :
            (f.src \o s)[j] = IF j <= Len(f.src) THEN f.src[j] ELSE s[j - Len(f.src)]
  BY <1>2, <1>3, ConcatProperties
<1>6. Len(g.src) = Len(f.src) + k
  BY <1>3, <1>4, <1>5
<1>7. \A j \in 1..(Len(f.src) + k) : g.src[j] = IF j <= Len(f.src) THEN f.src[j] ELSE s[j - Len(f.src)]
  BY <1>3, <1>4, <1>5
<1>8. ASSUME NEW j \in 1..Len(f.src) PROVE g.src[j] = f.src[j]
  <2>1. j \in 1..(Len(f.src) + k) /\ j <= Len(f.src)
    BY <1>2
  <2> QED BY <1>7, <2>1
<1>9. ASSUME NEW j \in 1..Len(g.src), j > Len(f.src) PROVE g.src[j] = u + (j - Len(f.src))
  <2>1. j \in 1..(Len(f.src) + k) /\ ~(j <= Len(f.src)) /\ j - Len(f.src) \in 1..k
    BY <1>2, <1>6, <1>9
  <2> QED BY <1>3, <1>7, <2>1
<1> QED BY <1>2, <1>6, <1>8, <1>9 DEF Follows

LEMMA GoodExtend ==
    ASSUME NEW u \in Nat, NEW k \in Nat \ {0}, u + k <= MaxNodes,
           NEW A, NEW nxt, NEW x, x \notin A, Good(A \cup {x}, nxt, u),
           NEW y, Longer(x.list, y.list, u, k),
           NEW nxt2, Links(x.list.head, nxt, nxt2, u, k)
    PROVE  Good(A \cup {y}, nxt2, u + k)
<1> DEFINE s == x.list.src
           t == y.list.src
           L == Len(s)
<1>1. /\ u <= MaxNodes /\ MaxNodes \in Nat /\ Node = 1..MaxNodes /\ u + k \in Nat
  BY NodesAssumption DEF Node
<1>2. Fits(x.list, nxt, u) /\ x.list \in Frame(u) /\ y.list \in Frame(u + k)
      /\ ~x.list.bare /\ ~y.list.bare /\ y.list.head = IF x.list.head = NULL THEN u + 1 ELSE x.list.head
  <2>1. Fits(x.list, nxt, u)
    BY DEF Good
  <2> QED BY <2>1 DEF Fits, Longer
<1>3. /\ nxt2 \in [Node -> Node \cup {NULL}]
      /\ \A n \in Node :
            nxt2[n] = IF n > u /\ n < u + k THEN n + 1
                      ELSE IF s # <<>> /\ n = s[L] THEN u + 1 ELSE nxt[n]
  <2>1. ~x.list.bare
    BY <1>2
  <2>2. Tied(s, nxt, nxt2, u, k)
    BY <2>1, ExtendIs
  <2> HIDE DEF s
  <2> QED BY <2>2 DEF Tied
<1>4. /\ Len(t) = L + k /\ L \in Nat
      /\ \A j \in 1..L : t[j] = s[j] /\ s[j] \in 1..u
      /\ \A j \in 1..(L + k) : j > L => t[j] = u + (j - L)
  <2>1. k \in Nat
    OBVIOUS
  <2>2. /\ Len(t) = L + k /\ L \in Nat
        /\ \A j \in 1..L : t[j] = s[j] /\ s[j] \in 1..u
        /\ \A j \in 1..Len(t) : j > L => t[j] = u + (j - L)
    <3>1. Follows(s, t, u, k)
      BY <1>2, <2>1, LongerIs
    <3> HIDE DEF s, t
    <3> QED BY <3>1 DEF Follows
  <2> HIDE DEF s, t, L
  <2> QED BY <2>2
<1>5. /\ \A a \in A : Fits(a.list, nxt, u) /\ a.list \in Frame(u)
      /\ \A a \in A : Len(a.list.src) \in Nat /\ \A j \in 1..Len(a.list.src) : a.list.src[j] \in 1..u
  <2>1. \A a \in A : Fits(a.list, nxt, u) /\ a.list \in Frame(u)
    BY DEF Good, Fits
  <2> QED BY <1>1, <2>1, FrameParts
<1>6. /\ \A c, d \in A \cup {x} : \A p \in 1..Len(c.list.src), q \in 1..Len(d.list.src) :
            c.list.src[p] = d.list.src[q] => c = d /\ p = q
  BY DEF Good
<1>7. \A n \in Node : n > u => nxt[n] = NULL
  BY <1>1, FreshUnlinked
<1>8. s # <<>> <=> L > 0
  <2>1. s \in Seq(Node)
    BY <1>1, <1>2, FrameParts
  <2> QED BY <2>1
<1>9. x.list.head = IF s = <<>> THEN NULL ELSE s[1]
  BY <1>2 DEF Fits
<1>10. s # <<>> => \A j \in 1..L : nxt[s[j]] = IF j < L THEN s[j + 1] ELSE NULL
  BY <1>2 DEF Fits
<1>11. \A p, q \in 1..L : s[p] = s[q] => p = q
  BY <1>6
<1>12. \A a \in A : \A j \in 1..Len(a.list.src), q \in 1..L : a.list.src[j] # s[q]
  BY <1>6
<1>13. NULL \notin Node
  BY NodesAssumption DEF Node
<1> HIDE DEF s, t, L
<1>14. ASSUME NEW a \in A PROVE Fits(a.list, nxt2, u + k)
  <2>1. \A j \in 1..Len(a.list.src) : nxt2[a.list.src[j]] = nxt[a.list.src[j]]
    <3> TAKE j \in 1..Len(a.list.src)
    <3>1. a.list.src[j] \in 1..u /\ a.list.src[j] \in Node
      BY <1>1, <1>5
    <3>2. s # <<>> => a.list.src[j] # s[L]
      BY <1>4, <1>8, <1>12
    <3> QED BY <1>3, <3>1, <3>2
  <2>2. Fits(a.list, nxt, u) /\ a.list \in Frame(u + k)
    BY <1>1, <1>5, FrameGrows
  <2> QED BY <2>1, <2>2 DEF Fits
<1>15. Fits(y.list, nxt2, u + k)
  <2>1. t # <<>>
    BY <1>4
  <2>2. y.list.head = t[1]
    <3>1. CASE s = <<>>
      BY <1>2, <1>4, <1>8, <1>9, <3>1
    <3>2. CASE s # <<>>
      <4>1. s[1] \in Node
        BY <1>1, <1>4, <1>8, <3>2
      <4> QED BY <1>2, <1>4, <1>8, <1>9, <1>13, <3>2, <4>1
    <3> QED BY <3>1, <3>2
  <2>3. ASSUME NEW j \in 1..Len(t)
        PROVE  nxt2[t[j]] = IF j < Len(t) THEN t[j + 1] ELSE NULL
    <3>1. CASE j < L
      <4>1. j \in 1..L /\ j + 1 \in 1..L /\ L \in 1..L
        BY <1>4, <3>1
      <4>2. s[j] # s[L] /\ s[j] \in 1..u /\ s[j] \in Node /\ nxt[s[j]] = s[j + 1]
        BY <1>1, <1>4, <1>8, <1>10, <1>11, <3>1, <4>1
      <4>3. nxt2[s[j]] = s[j + 1]
        BY <1>3, <4>2
      <4> QED BY <1>4, <3>1, <4>1, <4>3
    <3>2. CASE j = L
      <4>1. s[L] \in 1..u /\ s[L] \in Node /\ t[L] = s[L] /\ s # <<>>
        BY <1>1, <1>4, <1>8, <3>2
      <4>2. nxt2[s[L]] = u + 1
        BY <1>3, <4>1
      <4>3. t[L + 1] = u + 1 /\ L < Len(t)
        BY <1>4
      <4> QED BY <3>2, <4>1, <4>2, <4>3
    <3>3. CASE j > L
      <4>1. t[j] = u + (j - L) /\ t[j] \in Node /\ t[j] > u
        BY <1>1, <1>4, <3>3
      <4>2. CASE j < L + k
        <5>1. t[j] < u + k /\ t[j + 1] = u + (j + 1 - L)
          BY <1>4, <3>3, <4>1, <4>2
        <5>2. nxt2[t[j]] = t[j] + 1
          BY <1>3, <4>1, <5>1
        <5> QED BY <1>4, <4>1, <4>2, <5>1, <5>2
      <4>3. CASE j = L + k
        <5>1. s # <<>> => t[j] # s[L]
          BY <1>4, <1>8, <4>1
        <5>2. t[j] = u + k
          BY <1>4, <4>1, <4>3
        <5>3. nxt2[t[j]] = nxt[t[j]]
          BY <1>3, <4>1, <5>1, <5>2
        <5> QED BY <1>4, <1>7, <4>1, <4>3, <5>3
      <4> QED BY <1>4, <4>2, <4>3
    <3> QED BY <1>4, <3>1, <3>2, <3>3
  <2> QED BY <1>2, <2>1, <2>2, <2>3 DEF Fits, t
<1>16. ASSUME NEW j \in 1..Len(t), NEW p \in 1..Len(t), t[j] = t[p] PROVE j = p
  BY <1>4, <1>11, <1>16
<1>17. ASSUME NEW a \in A, NEW j \in 1..Len(a.list.src), NEW p \in 1..Len(t), a.list.src[j] = t[p]
       PROVE  FALSE
  <2>1. a.list.src[j] \in 1..u
    BY <1>5
  <2>2. p \in 1..L
    BY <1>4, <1>17, <2>1
  <2> QED BY <1>4, <1>12, <1>17, <2>2
<1>18. ASSUME NEW a \in A \cup {y}, NEW b \in A \cup {y},
              NEW j \in 1..Len(a.list.src), NEW p \in 1..Len(b.list.src),
              a.list.src[j] = b.list.src[p]
       PROVE  a = b /\ j = p
  <2>1. CASE a \in A /\ b \in A
    BY <1>6, <1>18, <2>1
  <2>2. CASE a = y /\ b = y
    BY <1>16, <1>18, <2>2 DEF t
  <2>3. CASE a \in A /\ b = y
    BY <1>17, <1>18, <2>3 DEF t
  <2>4. CASE a = y /\ b \in A
    BY <1>17, <1>18, <2>4 DEF t
  <2> QED BY <2>1, <2>2, <2>3, <2>4
<1>19. ASSUME NEW m \in Node, nxt2[m] # NULL
       PROVE  \E a \in A \cup {y} : ~a.list.bare /\ \E j \in 1..(Len(a.list.src) - 1) : a.list.src[j] = m
  <2>1. CASE m > u /\ m < u + k
    <3>1. L + (m - u) \in 1..(Len(t) - 1) /\ t[L + (m - u)] = m
      BY <1>1, <1>4, <2>1
    <3> QED BY <1>2, <3>1 DEF t
  <2>2. CASE s # <<>> /\ m = s[L]
    <3>1. L \in 1..(Len(t) - 1) /\ t[L] = m
      BY <1>4, <1>8, <2>2
    <3> QED BY <1>2, <3>1 DEF t
  <2>3. CASE nxt[m] # NULL
    <3>1. PICK a \in A \cup {x} : ~a.list.bare /\ \E j \in 1..(Len(a.list.src) - 1) : a.list.src[j] = m
      BY <2>3 DEF Good
    <3>2. CASE a = x
      <4>1. PICK j \in 1..(L - 1) : s[j] = m
        BY <3>1, <3>2 DEF s, L
      <4>2. j \in 1..(Len(t) - 1) /\ t[j] = m
        BY <1>4, <4>1
      <4> QED BY <1>2, <4>2 DEF t
    <3> QED BY <3>1, <3>2
  <2> QED BY <1>3, <1>19, <2>1, <2>2, <2>3
<1>20. \A a \in A \cup {y} : Fits(a.list, nxt2, u + k)
  BY <1>14, <1>15
<1> QED BY <1>3, <1>18, <1>19, <1>20 DEF Good

\* A node that a bare list is given is not linked to anything.
GoesBare(f, g, u) ==
    g \in Frame(u + 1) /\ f.bare /\ g.bare /\ g.head = NULL /\ g.src = f.src \o <<u + 1>>

LEMMA GoodBare ==
    ASSUME NEW u \in Nat, u + 1 <= MaxNodes, NEW A, NEW nxt,
           NEW x, x \notin A, Good(A \cup {x}, nxt, u), NEW y, GoesBare(x.list, y.list, u)
    PROVE  Good(A \cup {y}, nxt, u + 1)
<1> DEFINE s == x.list.src
           t == y.list.src
           L == Len(s)
<1>1. u <= MaxNodes /\ u + 1 \in Nat /\ u <= u + 1
  BY NodesAssumption
<1>2. x.list \in Frame(u) /\ \A a \in A : Fits(a.list, nxt, u) /\ a.list \in Frame(u)
  BY DEF Good, Fits
<1>3. /\ L \in Nat /\ \A j \in 1..L : s[j] \in 1..u
      /\ \A a \in A : Len(a.list.src) \in Nat /\ \A j \in 1..Len(a.list.src) : a.list.src[j] \in 1..u
  BY <1>1, <1>2, FrameParts
<1>4. Len(t) = L + 1 /\ t[L + 1] = u + 1 /\ \A j \in 1..L : t[j] = s[j]
  <2>1. s \in Seq(1..u) /\ <<u + 1>> \in Seq({u + 1}) /\ t = s \o <<u + 1>>
    <3>1. s \in Seq(1..u)
      BY <1>1, <1>2, FrameParts
    <3>2. t = s \o <<u + 1>>
      BY DEF GoesBare
    <3> HIDE DEF s, t
    <3> QED BY <3>1, <3>2
  <2> HIDE DEF s, t
  <2> QED BY <2>1
<1>5. \A a \in A \cup {y} : Fits(a.list, nxt, u + 1)
  <2>1. Fits(y.list, nxt, u + 1)
    BY DEF GoesBare, Fits
  <2>2. \A a \in A : a.list \in Frame(u + 1)
    BY <1>1, <1>2, FrameGrows
  <2> QED BY <1>2, <2>1, <2>2 DEF Fits
<1>6. \A c, d \in A \cup {x} : \A p \in 1..Len(c.list.src), q \in 1..Len(d.list.src) :
          c.list.src[p] = d.list.src[q] => c = d /\ p = q
  BY DEF Good
<1>7. \A p, q \in 1..L : s[p] = s[q] => p = q
  BY <1>6
<1>8. \A a \in A : \A j \in 1..Len(a.list.src), q \in 1..L : a.list.src[j] # s[q]
  BY <1>6
<1> HIDE DEF s, t, L
<1>9. ASSUME NEW j \in 1..Len(t), NEW p \in 1..Len(t), t[j] = t[p] PROVE j = p
  BY <1>3, <1>4, <1>7, <1>9
<1>10. ASSUME NEW a \in A, NEW j \in 1..Len(a.list.src), NEW p \in 1..Len(t), a.list.src[j] = t[p]
       PROVE  FALSE
  <2>1. a.list.src[j] \in 1..u
    BY <1>3
  <2>2. p \in 1..L
    BY <1>3, <1>4, <1>10, <2>1
  <2> QED BY <1>4, <1>8, <1>10, <2>2
<1>11. ASSUME NEW a \in A \cup {y}, NEW b \in A \cup {y},
              NEW j \in 1..Len(a.list.src), NEW p \in 1..Len(b.list.src),
              a.list.src[j] = b.list.src[p]
       PROVE  a = b /\ j = p
  <2>1. CASE a \in A /\ b \in A
    BY <1>6, <1>11, <2>1
  <2>2. CASE a = y /\ b = y
    BY <1>9, <1>11, <2>2 DEF t
  <2>3. CASE a \in A /\ b = y
    BY <1>10, <1>11, <2>3 DEF t
  <2>4. CASE a = y /\ b \in A
    BY <1>10, <1>11, <2>4 DEF t
  <2> QED BY <2>1, <2>2, <2>3, <2>4
<1>12. \A m \in Node : nxt[m] # NULL =>
          \E a \in A \cup {y} : ~a.list.bare /\ \E j \in 1..(Len(a.list.src) - 1) : a.list.src[j] = m
  BY DEF Good, GoesBare
<1> QED BY <1>5, <1>11, <1>12 DEF Good
-----------------------------------------------------------------------------
\* The places of the lists when one is put on the stack or finished.
LEMMA SlotsOf ==
    ASSUME NEW X, NEW P \in Seq(X), NEW f, NEW C
    PROVE  /\ Slots(Append(P, f), C) = Slots(P, C) \cup {Slot(Len(P) + 1, f)}
           /\ Slot(Len(P) + 1, f) \notin Slots(P, C)
           /\ Len(P) \in Nat
<1>1. /\ Len(P) \in Nat /\ Len(Append(P, f)) = Len(P) + 1 /\ Append(P, f)[Len(P) + 1] = f
      /\ \A j \in 1..Len(P) : Append(P, f)[j] = P[j]
  OBVIOUS
<1>2. 1..(Len(P) + 1) = 1..Len(P) \cup {Len(P) + 1}
  BY <1>1
<1>3. Slots(Append(P, f), C) = Slots(P, C) \cup {Slot(Len(P) + 1, f)}
  BY <1>1, <1>2 DEF Slots
<1>4. Slot(Len(P) + 1, f) \notin Slots(P, C)
  <2>1. \A a \in Slots(P, C) : a.at \in 0..Len(P)
    BY <1>1 DEF Slots, Slot
  <2> QED BY <1>1, <2>1 DEF Slot
<1> QED BY <1>1, <1>3, <1>4

LEMMA SeqAppend ==
    ASSUME NEW X, NEW P \in Seq(X), NEW f \in X
    PROVE  Append(P, f) \in Seq(X) /\ P \o <<f>> = Append(P, f)
BY AppendProperties, AppendIsConcat

LEMMA SoundGrows ==
    ASSUME NEW u \in Nat, NEW v \in Nat, u <= v, NEW P, NEW C, NEW nxt, Sound(P, C, nxt, u)
    PROVE  Sound(P, C, nxt, v)
<1>1. Frame(u) \subseteq Frame(v)
  BY FrameGrows
<1>2. P \in Seq(Frame(v))
  BY <1>1, SeqMonotonic DEF Sound
<1> QED BY <1>2, GoodGrows DEF Sound

LEMMA SoundPush ==
    ASSUME NEW u \in Nat, NEW P, NEW C, NEW nxt, Sound(P, C, nxt, u), NEW f, Void(f, u)
    PROVE  Sound(Append(P, f), C, nxt, u)
<1>1. P \in Seq(Frame(u)) /\ Good(Slots(P, C), nxt, u) /\ f \in Frame(u)
  BY DEF Sound, Void
<1>2. Slot(Len(P) + 1, f).list = f
  BY DEF Slot
<1>3. Good(Slots(P, C) \cup {Slot(Len(P) + 1, f)}, nxt, u)
  BY <1>1, <1>2, GoodVoid
<1>4. Slots(Append(P, f), C) = Slots(P, C) \cup {Slot(Len(P) + 1, f)}
  BY <1>1, SlotsOf
<1>5. Append(P, f) \in Seq(Frame(u))
  BY <1>1, SeqAppend
<1> QED BY <1>3, <1>4, <1>5 DEF Sound

\* What is said of a stack below its top.
LEMMA SoundTop ==
    ASSUME NEW u \in Nat, NEW P \in Seq(Frame(u)), NEW f, NEW C, NEW nxt, Sound(Append(P, f), C, nxt, u)
    PROVE  /\ f \in Frame(u)
           /\ Good(Slots(P, C) \cup {Slot(Len(P) + 1, f)}, nxt, u)
           /\ Slot(Len(P) + 1, f) \notin Slots(P, C) /\ Len(P) \in Nat
           /\ \A j, g : Slot(j, g).list = g
<1>1. Good(Slots(P, C) \cup {Slot(Len(P) + 1, f)}, nxt, u)
  <2>1. Slots(Append(P, f), C) = Slots(P, C) \cup {Slot(Len(P) + 1, f)}
    BY SlotsOf
  <2> QED BY <2>1 DEF Sound
<1>2. \A j, g : Slot(j, g).list = g
  BY DEF Slot
<1>3. f \in Frame(u)
  BY <1>1, <1>2 DEF Good, Fits
<1> QED BY <1>1, <1>2, <1>3, SlotsOf

LEMMA SoundPop ==
    ASSUME NEW u \in Nat, NEW P \in Seq(Frame(u)), NEW f, NEW C, NEW nxt,
           Sound(Append(P, f), C, nxt, u), f.src = <<>>
    PROVE  Sound(P, C, nxt, u)
<1>1. Good(Slots(P, C), nxt, u)
  <2> DEFINE x == Slot(Len(P) + 1, f)
  <2>1. Good(Slots(P, C) \cup {x}, nxt, u) /\ x.list = f
    BY SoundTop
  <2> HIDE DEF x
  <2> QED BY <2>1, GoodDrop
<1> QED BY <1>1 DEF Sound

LEMMA SoundTurn ==
    ASSUME NEW u \in Nat, NEW P \in Seq(Frame(u)), NEW f, NEW C, NEW nxt,
           Sound(Append(P, f), C, nxt, u), NEW g, Alike(f, g, u)
    PROVE  Sound(Append(P, g), C, nxt, u)
<1>1. /\ Good(Slots(P, C) \cup {Slot(Len(P) + 1, f)}, nxt, u)
      /\ Slot(Len(P) + 1, f) \notin Slots(P, C)
      /\ Alike(Slot(Len(P) + 1, f).list, Slot(Len(P) + 1, g).list, u)
  BY SoundTop
<1>2. Good(Slots(P, C) \cup {Slot(Len(P) + 1, g)}, nxt, u)
  BY <1>1, GoodRename
<1>3. g \in Frame(u)
  BY DEF Alike
<1>4. Slots(Append(P, g), C) = Slots(P, C) \cup {Slot(Len(P) + 1, g)}
  BY <1>3, SlotsOf
<1>5. Append(P, g) \in Seq(Frame(u))
  BY <1>3, SeqAppend
<1> QED BY <1>2, <1>4, <1>5 DEF Sound

LEMMA SoundClose ==
    ASSUME NEW u \in Nat, NEW P \in Seq(Frame(u)), NEW f, NEW C, NEW nxt,
           Sound(Append(P, f), C, nxt, u)
    PROVE  Sound(P, C \cup {f}, nxt, u)
<1>1. /\ Good(Slots(P, C) \cup {Slot(Len(P) + 1, f)}, nxt, u)
      /\ Slot(Len(P) + 1, f) \notin Slots(P, C)
      /\ Alike(Slot(Len(P) + 1, f).list, Slot(0, f).list, u)
  BY SoundTop DEF Alike
<1>2. Good(Slots(P, C) \cup {Slot(0, f)}, nxt, u)
  BY <1>1, GoodRename
<1>3. Slots(P, C \cup {f}) = Slots(P, C) \cup {Slot(0, f)}
  BY DEF Slots
<1> QED BY <1>2, <1>3 DEF Sound

LEMMA SoundExtend ==
    ASSUME NEW u \in Nat, NEW k \in Nat \ {0}, u + k <= MaxNodes,
           NEW P \in Seq(Frame(u)), NEW f, NEW C, NEW nxt, Sound(Append(P, f), C, nxt, u),
           NEW g, Longer(f, g, u, k), NEW nxt2, Links(f.head, nxt, nxt2, u, k)
    PROVE  Sound(Append(P, g), C, nxt2, u + k)
<1>1. /\ Good(Slots(P, C) \cup {Slot(Len(P) + 1, f)}, nxt, u)
      /\ Slot(Len(P) + 1, f) \notin Slots(P, C)
      /\ Longer(Slot(Len(P) + 1, f).list, Slot(Len(P) + 1, g).list, u, k)
      /\ Links(Slot(Len(P) + 1, f).list.head, nxt, nxt2, u, k)
  BY SoundTop
<1>2. Good(Slots(P, C) \cup {Slot(Len(P) + 1, g)}, nxt2, u + k)
  BY <1>1, GoodExtend
<1>3. g \in Frame(u + k) /\ P \in Seq(Frame(u + k))
  <2>1. Frame(u) \subseteq Frame(u + k)
    BY FrameGrows
  <2> QED BY <2>1, SeqMonotonic DEF Longer
<1>4. Slots(Append(P, g), C) = Slots(P, C) \cup {Slot(Len(P) + 1, g)}
  BY <1>3, SlotsOf
<1>5. Append(P, g) \in Seq(Frame(u + k))
  BY <1>3, SeqAppend
<1> QED BY <1>2, <1>4, <1>5 DEF Sound

LEMMA SoundBare ==
    ASSUME NEW u \in Nat, u + 1 <= MaxNodes,
           NEW P \in Seq(Frame(u)), NEW f, NEW C, NEW nxt, Sound(Append(P, f), C, nxt, u),
           NEW g, GoesBare(f, g, u)
    PROVE  Sound(Append(P, g), C, nxt, u + 1)
<1>1. /\ Good(Slots(P, C) \cup {Slot(Len(P) + 1, f)}, nxt, u)
      /\ Slot(Len(P) + 1, f) \notin Slots(P, C)
      /\ GoesBare(Slot(Len(P) + 1, f).list, Slot(Len(P) + 1, g).list, u)
  BY SoundTop
<1>2. Good(Slots(P, C) \cup {Slot(Len(P) + 1, g)}, nxt, u + 1)
  BY <1>1, GoodBare
<1>3. g \in Frame(u + 1) /\ P \in Seq(Frame(u + 1))
  <2>1. Frame(u) \subseteq Frame(u + 1)
    BY FrameGrows
  <2> QED BY <2>1, SeqMonotonic DEF GoesBare
<1>4. Slots(Append(P, g), C) = Slots(P, C) \cup {Slot(Len(P) + 1, g)}
  BY <1>3, SlotsOf
<1>5. Append(P, g) \in Seq(Frame(u + 1))
  BY <1>3, SeqAppend
<1> QED BY <1>2, <1>4, <1>5 DEF Sound

\* The stack is its top on what is below.
LEMMA StackIs ==
    ASSUME NEW X, NEW S \in Seq(X), S # <<>>
    PROVE  \E P \in Seq(X), f \in X : /\ S = Append(P, f) /\ Front(S) = P /\ Last(S) = f
                                      /\ Len(S) = Len(P) + 1 /\ Len(P) \in Nat
                                      /\ (P # <<>> => Len(P) > 0 /\ S[Len(S) - 1] = Last(P))
<1>1. PICK P \in Seq(X), f \in X : S = Append(P, f)
  BY SequenceEmptyOrAppend
<1>2. /\ Len(S) = Len(P) + 1 /\ Len(P) \in Nat /\ S[Len(P) + 1] = f
      /\ \A j \in 1..Len(P) : S[j] = P[j]
  BY <1>1
<1>3. Last(S) = f
  BY <1>2 DEF Last
<1>4. Front(S) = P
  <2>1. \A j \in 1..Len(P) : S[j] \in X
    BY <1>2
  <2>2. 1 \in Int /\ Len(P) \in Int /\ Len(S) - 1 = Len(P)
    BY <1>2
  <2>3. /\ SubSeq(S, 1, Len(P)) \in Seq(X)
        /\ Len(SubSeq(S, 1, Len(P))) = IF 1 <= Len(P) THEN Len(P) - 1 + 1 ELSE 0
        /\ \A j \in 1..(Len(P) - 1 + 1) : SubSeq(S, 1, Len(P))[j] = S[1 + j - 1]
    BY <2>1, <2>2, SubSeqProperties
  <2>4. Len(SubSeq(S, 1, Len(P))) = Len(P) /\ \A j \in 1..Len(P) : SubSeq(S, 1, Len(P))[j] = P[j]
    BY <1>2, <2>3
  <2>5. SubSeq(S, 1, Len(P)) = P
    BY <2>3, <2>4, SeqEqual
  <2> QED BY <2>2, <2>5 DEF Front
<1>5. P # <<>> => Len(P) > 0 /\ S[Len(S) - 1] = Last(P)
  BY <1>2 DEF Last
<1> QED BY <1>1, <1>2, <1>3, <1>4, <1>5

\* The nesting of a stack whose top is put on, taken off or turned.
LEMMA NestedPush ==
    ASSUME NEW X, NEW P \in Seq(X), NEW f \in X, Nested(P), Len(P) < MaxStack,
           Steady(f), Within(f, Last(P))
    PROVE  Nested(Append(P, f))
<1>1. /\ Len(P) \in 1..MaxStack /\ Len(Append(P, f)) = Len(P) + 1 /\ Append(P, f)[Len(P) + 1] = f
      /\ \A j \in 1..Len(P) : Append(P, f)[j] = P[j]
  BY DEF Nested
<1>2. MaxStack \in Nat
  BY NodesAssumption
<1>3. Append(P, f)[Len(P)] = Last(P)
  BY <1>1, <1>2 DEF Last
<1> DEFINE S == Append(P, f)
<1> HIDE DEF S
<1>4. \A j \in 1..Len(S) : Steady(S[j])
  BY <1>1, <1>2 DEF Nested, S
<1>5. \A j \in 2..Len(S) : Within(S[j], S[j - 1])
  <2> TAKE j \in 2..Len(S)
  <2>1. CASE j = Len(P) + 1
    BY <1>1, <1>2, <1>3, <2>1 DEF S
  <2>2. CASE j \in 2..Len(P)
    <3>1. S[j] = P[j] /\ S[j - 1] = P[j - 1]
      BY <1>1, <1>2, <2>2 DEF S
    <3> QED BY <2>2, <3>1 DEF Nested
  <2> QED BY <1>1, <1>2, <2>1, <2>2 DEF S
<1>6. Len(S) \in 1..MaxStack /\ S[1].kind = "globals"
  BY <1>1, <1>2 DEF Nested, S
<1> QED BY <1>4, <1>5, <1>6 DEF Nested, S

LEMMA NestedTop ==
    ASSUME NEW X, NEW P \in Seq(X), NEW f \in X, Nested(Append(P, f))
    PROVE  /\ Steady(f)
           /\ P = <<>> => f.kind = "globals"
           /\ P # <<>> => Nested(P) /\ Within(f, Last(P)) /\ Len(P) < MaxStack
<1>1. /\ Len(P) \in Nat /\ Len(Append(P, f)) = Len(P) + 1 /\ Append(P, f)[Len(P) + 1] = f
      /\ \A j \in 1..Len(P) : Append(P, f)[j] = P[j]
  OBVIOUS
<1> DEFINE S == Append(P, f)
<1> HIDE DEF S
<1>2. /\ Len(S) \in 1..MaxStack /\ S[1].kind = "globals"
      /\ \A j \in 1..Len(S) : Steady(S[j])
      /\ \A j \in 2..Len(S) : Within(S[j], S[j - 1])
  BY DEF Nested, S
<1>3. /\ Len(S) = Len(P) + 1 /\ S[Len(P) + 1] = f /\ \A j \in 1..Len(P) : S[j] = P[j]
      /\ MaxStack \in Nat
  BY <1>1, NodesAssumption DEF S
<1>4. Steady(f)
  BY <1>1, <1>2, <1>3
<1>5. P = <<>> => f.kind = "globals"
  BY <1>2, <1>3
<1>6. ASSUME P # <<>> PROVE Nested(P) /\ Within(f, Last(P)) /\ Len(P) < MaxStack
  <2>1. Len(P) > 0
    BY <1>6
  <2>2. Len(P) < MaxStack /\ Len(P) \in 1..MaxStack /\ P[1].kind = "globals"
    BY <1>1, <1>2, <1>3, <2>1
  <2>3. \A j \in 1..Len(P) : Steady(P[j])
    BY <1>1, <1>2, <1>3
  <2>4. \A j \in 2..Len(P) : Within(P[j], P[j - 1])
    <3> TAKE j \in 2..Len(P)
    <3>1. j \in 2..Len(S) /\ S[j] = P[j] /\ S[j - 1] = P[j - 1]
      BY <1>1, <1>3
    <3> QED BY <1>2, <3>1
  <2>5. Within(f, Last(P))
    <3>1. Len(S) \in 2..Len(S) /\ S[Len(S)] = f /\ S[Len(S) - 1] = P[Len(P)]
      BY <1>1, <1>3, <2>1
    <3> QED BY <1>2, <3>1 DEF Last
  <2> QED BY <2>2, <2>3, <2>4, <2>5 DEF Nested
<1> QED BY <1>4, <1>5, <1>6

LEMMA NestedTurn ==
    ASSUME NEW X, NEW P \in Seq(X), NEW f \in X, Nested(Append(P, f)),
           NEW Y, NEW g \in Y, Steady(g), P \in Seq(Y),
           P = <<>> => g.kind = "globals", P # <<>> => Within(g, Last(P))
    PROVE  Nested(Append(P, g))
<1>1. CASE P # <<>>
  BY <1>1, NestedTop, NestedPush
<1>2. CASE P = <<>>
  <2>1. Len(Append(P, g)) = 1 /\ Append(P, g)[1] = g
    BY <1>2
  <2>2. 1 \in 1..MaxStack
    BY NodesAssumption
  <2> QED BY <1>2, <2>1, <2>2 DEF Nested
<1> QED BY <1>1, <1>2

\* The types of the variables of a stack whose top is put on or taken off, and
\* of the lists that are finished.
LEMMA TypesPush ==
    ASSUME NEW X, NEW P \in Seq(X), NEW f \in X, NEW C, NEW ty, NEW as
    PROVE  AllTypesFit(Append(P, f), C, ty, as) <=> AllTypesFit(P, C, ty, as) /\ TypeFits(f, ty, as)
<1>1. /\ Len(P) \in Nat /\ Len(Append(P, f)) = Len(P) + 1 /\ Append(P, f)[Len(P) + 1] = f
      /\ \A j \in 1..Len(P) : Append(P, f)[j] = P[j]
  OBVIOUS
<1>2. 1..(Len(P) + 1) = 1..Len(P) \cup {Len(P) + 1}
  BY <1>1
<1> QED BY <1>1, <1>2 DEF AllTypesFit

LEMMA TypesClose ==
    ASSUME NEW P, NEW C, NEW f, NEW ty, NEW as, AllTypesFit(P, C, ty, as), TypeFits(f, ty, as)
    PROVE  AllTypesFit(P, C \cup {f}, ty, as)
BY DEF AllTypesFit

\* Only types of nodes that are in no list are changed.
LEMMA TypesGrow ==
    ASSUME NEW u \in Nat, u <= MaxNodes, NEW P, NEW C, NEW nxt, Sound(P, C, nxt, u),
           NEW ty, NEW as, AllTypesFit(P, C, ty, as),
           NEW ty2, NEW as2, \A n \in 1..u : ty2[n] = ty[n] /\ as2[n] = as[n]
    PROVE  AllTypesFit(P, C, ty2, as2)
<1>1. ASSUME NEW f \in Frame(u), TypeFits(f, ty, as) PROVE TypeFits(f, ty2, as2)
  <2>1. DOMAIN f.src = 1..Len(f.src) /\ \A j \in 1..Len(f.src) : f.src[j] \in 1..u
    <3>1. f.src \in Seq(1..u)
      BY <1>1, FrameParts
    <3> QED BY <3>1
  <2>2. ASSUME f.kind = "vars", NEW j \in DOMAIN f.src
        PROVE  ty2[f.src[j]] = IF f.owner = "global" /\ j > 1 THEN "int" ELSE as2[f.src[j]]
    <3>1. PICK n : n = f.src[j]
      OBVIOUS
    <3>2. ty[n] = IF f.owner = "global" /\ j > 1 THEN "int" ELSE as[n]
      BY <1>1, <2>2, <3>1 DEF TypeFits
    <3>3. ty2[n] = ty[n] /\ as2[n] = as[n]
      BY <2>1, <2>2, <3>1
    <3> QED BY <3>1, <3>2, <3>3
  <2> QED BY <2>2 DEF TypeFits
<1>2. ASSUME NEW j \in 1..Len(P) PROVE P[j] \in Frame(u)
  BY <1>2 DEF Sound
<1>3. ASSUME NEW f \in C PROVE f \in Frame(u)
  <2>1. Slot(0, f) \in Slots(P, C) /\ Slot(0, f).list = f
    BY <1>3 DEF Slots, Slot
  <2> QED BY <2>1 DEF Sound, Good, Fits
<1> QED BY <1>1, <1>2, <1>3 DEF AllTypesFit
-----------------------------------------------------------------------------
\* How all this survives what is done to the stack.

LEMMA WholeTop ==
    ASSUME NEW u \in Nat, NEW P \in Seq(Frame(u)), NEW f \in Frame(u), NEW C, NEW nxt, NEW ty, NEW as,
           Whole(Append(P, f), C, nxt, u, ty, as)
    PROVE  /\ Sound(Append(P, f), C, nxt, u) /\ AllTypesFit(P, C, ty, as) /\ TypeFits(f, ty, as)
           /\ Nested(Append(P, f)) /\ Steady(f)
           /\ P = <<>> => f.kind = "globals"
           /\ P # <<>> => Nested(P) /\ Within(f, Last(P)) /\ Len(P) < MaxStack
<1>1. Nested(Append(P, f)) /\ Sound(Append(P, f), C, nxt, u)
  BY DEF Whole
<1>2. AllTypesFit(P, C, ty, as) /\ TypeFits(f, ty, as)
  BY TypesPush DEF Whole
<1> QED BY <1>1, <1>2, NestedTop

LEMMA WholeGrows ==
    ASSUME NEW u \in Nat, NEW v \in Nat, u <= v, NEW P, NEW C, NEW nxt, NEW ty, NEW as,
           Whole(P, C, nxt, u, ty, as)
    PROVE  Whole(P, C, nxt, v, ty, as)
BY SoundGrows DEF Whole

LEMMA WholePush ==
    ASSUME NEW u \in Nat, NEW P \in Seq(Frame(u)), NEW f, Void(f, u), NEW C, NEW nxt, NEW ty, NEW as,
           Whole(P, C, nxt, u, ty, as), Len(P) < MaxStack, Steady(f), Within(f, Last(P)),
           TypeFits(f, ty, as)
    PROVE  Whole(Append(P, f), C, nxt, u, ty, as)
<1>1. f \in Frame(u) /\ Sound(P, C, nxt, u) /\ Nested(P) /\ AllTypesFit(P, C, ty, as)
  BY DEF Void, Whole
<1>2. Sound(Append(P, f), C, nxt, u)
  BY <1>1, SoundPush
<1>3. Nested(Append(P, f))
  BY <1>1, NestedPush
<1>4. AllTypesFit(Append(P, f), C, ty, as)
  BY <1>1, TypesPush
<1> QED BY <1>2, <1>3, <1>4 DEF Whole

\* The list at the top is turned into another that has the same nodes.
LEMMA WholeTurn ==
    ASSUME NEW u \in Nat, NEW P \in Seq(Frame(u)), NEW f \in Frame(u), NEW C, NEW nxt, NEW ty, NEW as,
           Whole(Append(P, f), C, nxt, u, ty, as), NEW g, Alike(f, g, u), Steady(g),
           P = <<>> => g.kind = "globals", P # <<>> => Within(g, Last(P)),
           TypeFits(g, ty, as)
    PROVE  Whole(Append(P, g), C, nxt, u, ty, as)
<1>1. /\ g \in Frame(u) /\ Sound(Append(P, f), C, nxt, u) /\ Nested(Append(P, f))
      /\ AllTypesFit(P, C, ty, as)
  BY WholeTop DEF Alike
<1>2. Sound(Append(P, g), C, nxt, u)
  BY <1>1, SoundTurn
<1>3. Nested(Append(P, g))
  BY <1>1, NestedTurn
<1>4. AllTypesFit(Append(P, g), C, ty, as)
  BY <1>1, TypesPush
<1> QED BY <1>2, <1>3, <1>4 DEF Whole

\* It is taken off, finished or without nodes.
LEMMA WholeClose ==
    ASSUME NEW u \in Nat, NEW P \in Seq(Frame(u)), P # <<>>, NEW f \in Frame(u), NEW C,
           NEW nxt, NEW ty, NEW as, Whole(Append(P, f), C, nxt, u, ty, as)
    PROVE  /\ Whole(P, C \cup {f}, nxt, u, ty, as)
           /\ f.src = <<>> => Whole(P, C, nxt, u, ty, as)
<1>1. /\ Sound(Append(P, f), C, nxt, u) /\ Nested(P)
      /\ AllTypesFit(P, C, ty, as) /\ TypeFits(f, ty, as)
  BY WholeTop
<1>2. Sound(P, C \cup {f}, nxt, u) /\ AllTypesFit(P, C \cup {f}, ty, as)
  BY <1>1, SoundClose, TypesClose
<1>3. f.src = <<>> => Sound(P, C, nxt, u)
  BY <1>1, SoundPop
<1> QED BY <1>1, <1>2, <1>3 DEF Whole

\* It gets k nodes.
LEMMA WholeExtend ==
    ASSUME NEW u \in Nat, NEW k \in Nat \ {0}, u + k <= MaxNodes,
           NEW P \in Seq(Frame(u)), NEW f \in Frame(u), NEW C, NEW nxt, NEW ty, NEW as,
           Whole(Append(P, f), C, nxt, u, ty, as),
           NEW g, Longer(f, g, u, k), g.kind = f.kind, g.owner = f.owner,
           NEW nxt2, Links(f.head, nxt, nxt2, u, k), Steady(g), TypeFits(g, ty, as)
    PROVE  Whole(Append(P, g), C, nxt2, u + k, ty, as)
<1>1. /\ Sound(Append(P, f), C, nxt, u) /\ Nested(Append(P, f)) /\ AllTypesFit(P, C, ty, as)
      /\ P = <<>> => f.kind = "globals"
      /\ P # <<>> => Within(f, Last(P))
  BY WholeTop
<1>2. Sound(Append(P, g), C, nxt2, u + k)
  BY <1>1, SoundExtend
<1>3. P \in Seq(Frame(u + k)) /\ g \in Frame(u + k)
  <2>1. Frame(u) \subseteq Frame(u + k)
    BY FrameGrows
  <2> QED BY <2>1, SeqMonotonic DEF Longer
<1>4. Nested(Append(P, g))
  <2>1. P # <<>> => Within(g, Last(P))
    BY <1>1 DEF Within
  <2> QED BY <1>1, <1>3, <2>1, NestedTurn
<1>5. AllTypesFit(Append(P, g), C, ty, as)
  BY <1>1, <1>3, TypesPush
<1> QED BY <1>2, <1>4, <1>5 DEF Whole

LEMMA WholeBare ==
    ASSUME NEW u \in Nat, u + 1 <= MaxNodes,
           NEW P \in Seq(Frame(u)), NEW f \in Frame(u), NEW C, NEW nxt, NEW ty, NEW as,
           Whole(Append(P, f), C, nxt, u, ty, as),
           NEW g, GoesBare(f, g, u), g.kind = f.kind, g.owner = f.owner
    PROVE  Whole(Append(P, g), C, nxt, u + 1, ty, as)
<1>1. /\ Sound(Append(P, f), C, nxt, u) /\ Nested(Append(P, f)) /\ AllTypesFit(P, C, ty, as)
      /\ P = <<>> => f.kind = "globals"
      /\ P # <<>> => Within(f, Last(P))
      /\ Steady(f)
  BY WholeTop
<1>2. Sound(Append(P, g), C, nxt, u + 1)
  BY <1>1, SoundBare
<1>3. P \in Seq(Frame(u + 1)) /\ g \in Frame(u + 1)
  <2>1. Frame(u) \subseteq Frame(u + 1)
    BY FrameGrows
  <2> QED BY <2>1, SeqMonotonic DEF GoesBare
<1>4. Steady(g) /\ TypeFits(g, ty, as)
  BY <1>1 DEF GoesBare, Steady, TypeFits
<1>5. Nested(Append(P, g))
  <2>1. P # <<>> => Within(g, Last(P))
    BY <1>1 DEF Within
  <2> QED BY <1>1, <1>3, <1>4, <2>1, NestedTurn
<1>6. AllTypesFit(Append(P, g), C, ty, as)
  BY <1>1, <1>3, <1>4, TypesPush
<1> QED BY <1>2, <1>5, <1>6 DEF Whole
-----------------------------------------------------------------------------
\* A command c: the empty one, or one that has just got its node, the v-th.
Made(c, u, v) == (c = NULL /\ v = u) \/ (c = u + 1 /\ v = u + 1)

LEMMA MadeIs ==
    ASSUME NEW u \in Nat, NEW v \in Nat, v <= MaxNodes, NEW c, Made(c, u, v)
    PROVE  /\ u <= v /\ u <= MaxNodes /\ c \in 1..v \cup {NULL}
           /\ c = NULL => v = u
           /\ c # NULL => c = u + 1 /\ v = u + 1
<1>1. u <= MaxNodes
  BY NodesAssumption DEF Made
<1>2. NULL \notin 1..MaxNodes /\ MaxNodes \in Nat
  BY NodesAssumption
<1>3. CASE c = NULL /\ v = u
  <2>1. NULL # u + 1 \/ u = MaxNodes
    BY <1>1, <1>2
  <2> QED BY <1>1, <1>3
<1>4. CASE c = u + 1 /\ v = u + 1
  <2>1. c \in 1..v /\ c \in 1..MaxNodes
    BY <1>2, <1>4
  <2> QED BY <1>1, <1>2, <1>4, <2>1
<1> QED BY <1>3, <1>4 DEF Made

\* The command that a se or an enquanto governs is in no list.
LEMMA Governs ==
    ASSUME NEW u \in Nat, NEW v \in Nat, v <= MaxNodes, NEW c, Made(c, u, v),
           NEW P \in Seq(Frame(u)), NEW f \in Frame(u), NEW C, NEW nxt, NEW ty, NEW as,
           Whole(Append(P, f), C, nxt, u, ty, as), f.kind = "control",
           NEW g, g = [f EXCEPT !.kind = "governed", !.kids = Append(@, c)]
    PROVE  Whole(Append(P, g), C, nxt, v, ty, as)
<1>1. u <= v /\ c \in 1..v \cup {NULL}
  BY MadeIs
<1>2. P \in Seq(Frame(v)) /\ f \in Frame(v)
  <2>1. Frame(u) \subseteq Frame(v)
    BY <1>1, FrameGrows
  <2> QED BY <2>1, SeqMonotonic
<1>3. Whole(Append(P, f), C, nxt, v, ty, as)
  BY <1>1, WholeGrows
<1>4. /\ f.kids \in Seq(1..v \cup {NULL}) /\ Append(f.kids, c) \in Seq(1..v \cup {NULL})
  <2>1. f.kids \in Seq(1..v \cup {NULL})
    BY <1>2, FrameParts
  <2> QED BY <1>1, <2>1, AppendProperties
<1>5. g \in Frame(v) /\ g.kind = "governed"
  BY <1>2, <1>4 DEF Frame, Kinds
<1>6. g.src = f.src /\ g.head = f.head /\ g.bare = f.bare /\ g.owner = f.owner
  BY <1>2 DEF Frame
<1>7. Alike(f, g, v)
  BY <1>5, <1>6 DEF Alike
<1>8. Steady(f) /\ (P # <<>> => Within(f, Last(P))) /\ P # <<>>
  BY <1>2, <1>3, WholeTop
<1>9. Steady(g) /\ Within(g, Last(P)) /\ TypeFits(g, ty, as)
  BY <1>5, <1>6, <1>8 DEF Steady, Within, TypeFits
<1> QED BY <1>2, <1>3, <1>7, <1>8, <1>9, WholeTurn

\* The next command of a block is linked to those before it, or to nothing if the
\* block began with the empty command.
LEMMA NextCommand ==
    ASSUME NEW u \in Nat, NEW v \in Nat, v <= MaxNodes, NEW c, Made(c, u, v),
           NEW P \in Seq(Frame(u)), NEW f \in Frame(u), NEW C, NEW nxt, NEW ty, NEW as,
           Whole(Append(P, f), C, nxt, u, ty, as), f.kind = "cmds",
           NEW nxt2, nxt2 = Extend(f.head, nxt, c)
    PROVE  Whole(Append(P, WithCommand(f, c)), C, nxt2, v, ty, as)
<1> DEFINE g == WithCommand(f, c)
<1>1. u <= v /\ c \in 1..v \cup {NULL} /\ (c = NULL => v = u) /\ (c # NULL => c = u + 1 /\ v = u + 1)
      /\ u <= MaxNodes
  BY MadeIs
<1>2. /\ g = [f EXCEPT !.src = @ \o Written(c)] /\ g.src = f.src \o Written(c)
      /\ g.kind = "cmds" /\ g.head = f.head /\ g.bare = f.bare /\ g.owner = f.owner
  BY DEF WithCommand, Frame
<1>3. /\ f.src \in Seq(1..u) /\ f.src \in Seq(Node) /\ f.bare \in BOOLEAN
      /\ f.head \in 1..u \cup {NULL} /\ f.kids \in Seq(1..u \cup {NULL})
  BY <1>1, FrameParts
<1>4. /\ Steady(f) /\ Good(Slots(P, C) \cup {Slot(Len(P) + 1, f)}, nxt, u)
      /\ Slot(Len(P) + 1, f).list = f
  <2>1. Steady(f) /\ Sound(Append(P, f), C, nxt, u)
    BY WholeTop
  <2> QED BY <2>1, SoundTop
<1>5. Fits(f, nxt, u) /\ nxt \in [Node -> Node \cup {NULL}]
  BY <1>4 DEF Good
<1>6. CASE c = NULL
  <2>1. g.src = f.src
    BY <1>2, <1>3, <1>6, ConcatEmptySeq DEF Written
  <2>2. g = f
    <3>1. f = [f EXCEPT !.src = f.src]
      BY DEF Frame
    <3> QED BY <1>2, <2>1, <3>1
  <2>3. nxt2 = nxt
    <3>1. CASE f.head = NULL
      BY <3>1 DEF Extend
    <3>2. CASE f.head # NULL
      <4>1. ~f.bare /\ f.src # <<>>
        BY <1>5, <3>2 DEF Fits
      <4>2. Chain(f.head, nxt) = f.src
        <5> DEFINE x == Slot(Len(P) + 1, f)
        <5>1. Good(Slots(P, C) \cup {x}, nxt, u) /\ x.list = f /\ x \in Slots(P, C) \cup {x}
          BY <1>4
        <5> HIDE DEF x
        <5> QED BY <1>1, <4>1, <5>1, ChainOf
      <4>3. Len(f.src) \in 1..Len(f.src) /\ nxt[f.src[Len(f.src)]] = NULL
        <5>1. Len(f.src) \in Nat /\ Len(f.src) > 0
          BY <1>1, <4>1, FrameParts
        <5>2. Len(f.src) \in 1..Len(f.src) /\ ~(Len(f.src) < Len(f.src))
          BY <5>1
        <5> QED BY <1>5, <4>1, <5>2 DEF Fits
      <4> QED BY <1>5, <1>6, <3>2, <4>2, <4>3 DEF Extend, Last
    <3> QED BY <3>1, <3>2
  <2> QED BY <1>1, <1>6, <2>2, <2>3
<1>7. CASE c # NULL
  <2>1. /\ Written(c) = <<u + 1>> /\ v = u + 1 /\ c = u + 1 /\ v \in Nat
        /\ 1..u \subseteq 1..v /\ 1..u \cup {NULL} \subseteq 1..v \cup {NULL}
    BY <1>1, <1>7 DEF Written
  <2>2. g \in Frame(v)
    <3>1. f \in Frame(v)
      BY <1>1, FrameGrows
    <3>2. f.src \in Seq(1..v) /\ <<u + 1>> \in Seq(1..v)
      <4>1. f.src \in Seq(1..v)
        BY <1>3, <2>1, SeqMonotonic
      <4>2. u + 1 \in 1..v
        BY <2>1
      <4> QED BY <4>1, <4>2
    <3>3. f.src \o <<u + 1>> \in Seq(1..v)
      BY <3>2, ConcatProperties
    <3> QED BY <1>2, <2>1, <3>1, <3>3 DEF Frame
  <2>3. CASE f.bare
    <3>1. nxt2 = nxt /\ f.head = NULL
      BY <1>5, <2>3 DEF Fits, Extend
    <3>2. GoesBare(f, g, u)
      BY <1>2, <2>1, <2>2, <2>3, <3>1 DEF GoesBare
    <3> HIDE DEF g
    <3>3. Whole(Append(P, g), C, nxt, u + 1, ty, as)
      BY <1>2, <2>1, <3>2, WholeBare
    <3> QED BY <2>1, <3>1, <3>3 DEF g
  <2>4. CASE ~f.bare
    <3>1. f.src # <<>> /\ f.head # NULL
      <4>1. f.src # <<>>
        BY <1>4, <2>4 DEF Steady
      <4> QED BY <1>1, <1>5, <2>4, <4>1, FrameParts DEF Fits
    <3>2. [j \in 1..1 |-> u + j] = <<u + 1>>
      OBVIOUS
    <3>3. Longer(f, g, u, 1)
      BY <1>2, <2>1, <2>2, <2>4, <3>1, <3>2 DEF Longer
    <3>4. Run(nxt, u, 1) = nxt
      BY <1>5 DEF Run
    <3>5. Links(f.head, nxt, nxt2, u, 1)
      BY <2>1, <3>4 DEF Links
    <3>6. Steady(g) /\ TypeFits(g, ty, as)
      <4>1. g.src # <<>>
        <5>1. Len(f.src \o <<u + 1>>) = Len(f.src) + 1 /\ Len(f.src) \in Nat
          BY <1>3
        <5> QED BY <1>2, <2>1, <5>1
      <4> QED BY <1>2, <1>4, <4>1 DEF Steady, TypeFits
    <3> HIDE DEF g
    <3>7. 1 \in Nat \ {0} /\ u + 1 <= MaxNodes /\ g.kind = f.kind /\ g.owner = f.owner
      BY <1>2, <2>1
    <3>8. Whole(Append(P, g), C, nxt2, u + 1, ty, as)
      BY <3>3, <3>5, <3>6, <3>7, WholeExtend
    <3> QED BY <2>1, <3>8 DEF g
  <2> QED BY <2>3, <2>4
<1> QED BY <1>6, <1>7

\* The first command of a block ends the list of its variables.
LEMMA FirstCommand ==
    ASSUME NEW u \in Nat, NEW v \in Nat, v <= MaxNodes, NEW c, Made(c, u, v),
           NEW P \in Seq(Frame(u)), NEW f \in Frame(u), NEW C, NEW nxt, NEW ty, NEW as,
           Whole(Append(P, f), C, nxt, u, ty, as), f.kind = "vars"
    PROVE  Whole(Append(P, WithCommand(f, c)), C \cup {f}, nxt, v, ty, as)
<1> DEFINE g == WithCommand(f, c)
<1>1. u <= v /\ c \in 1..v \cup {NULL} /\ (c = NULL => v = u) /\ (c # NULL => c = u + 1 /\ v = u + 1)
      /\ u <= MaxNodes
  BY MadeIs
<1>2. /\ g = [f EXCEPT !.kind = "cmds", !.head = c, !.src = Written(c), !.bare = (c = NULL),
                       !.kids = Append(@, f.head)]
      /\ g.src = Written(c) /\ g.kind = "cmds" /\ g.head = c /\ g.bare = (c = NULL) /\ g.owner = f.owner
      /\ g.kids = Append(f.kids, f.head) /\ g.from = f.from
  BY DEF WithCommand, Frame
<1>3. /\ f.head \in 1..u \cup {NULL} /\ f.kids \in Seq(1..u \cup {NULL})
      /\ f.owner \in Owners /\ f.from \in 1..(u + 1)
  BY <1>1, FrameParts
<1>4. Steady(f) /\ P # <<>> /\ Within(f, Last(P)) /\ Len(P) < MaxStack
  BY WholeTop
<1>5. Whole(P, C \cup {f}, nxt, u, ty, as)
  BY <1>4, WholeClose
<1>6. nxt \in [Node -> Node \cup {NULL}]
  BY <1>5 DEF Whole, Sound, Good
<1>7. Append(f.kids, f.head) \in Seq(1..u \cup {NULL})
  BY <1>3, AppendProperties
<1>8. <<>> \in Seq(1..u) /\ FALSE \in BOOLEAN /\ TRUE \in BOOLEAN /\ NULL \in {NULL}
  OBVIOUS
<1>11. CASE c = NULL
  <2>1. g = [kind |-> "cmds", owner |-> f.owner, head |-> NULL, src |-> <<>>,
             bare |-> TRUE, kids |-> Append(f.kids, f.head), from |-> f.from]
    BY <1>2, <1>11 DEF Frame, Written
  <2>2. Void(g, u)
    <3>1. "cmds" \in Kinds
      BY DEF Kinds
    <3> HIDE DEF g
    <3> QED BY <1>3, <1>7, <1>8, <2>1, <3>1 DEF Void, Frame
  <2>3. Steady(g) /\ Within(g, Last(P)) /\ TypeFits(g, ty, as)
    BY <1>2, <1>4, <1>11 DEF Steady, Within, TypeFits
  <2> HIDE DEF g
  <2>4. Whole(Append(P, g), C \cup {f}, nxt, u, ty, as)
    BY <1>4, <1>5, <2>2, <2>3, WholePush
  <2> QED BY <1>1, <1>11, <2>4 DEF g
<1>12. CASE c # NULL
  <2>1. /\ Written(c) = <<u + 1>> /\ v = u + 1 /\ c = u + 1 /\ v \in Nat /\ u + 1 \in 1..v
        /\ 1..u \cup {NULL} \subseteq 1..v \cup {NULL} /\ 1..(u + 1) \subseteq 1..(v + 1)
    BY <1>1, <1>12 DEF Written
  <2>2. g \in Frame(v)
    <3>1. <<u + 1>> \in Seq(1..v)
      BY <2>1
    <3>2. Append(f.kids, f.head) \in Seq(1..v \cup {NULL})
      BY <1>7, <2>1, SeqMonotonic
    <3>3. g = [kind |-> "cmds", owner |-> f.owner, head |-> c, src |-> <<u + 1>>,
               bare |-> FALSE, kids |-> Append(f.kids, f.head), from |-> f.from]
      BY <1>2, <1>12, <2>1 DEF Frame
    <3>4. "cmds" \in Kinds /\ c \in 1..v \cup {NULL} /\ f.from \in 1..(v + 1) /\ f.owner \in Owners
      BY <1>1, <1>3, <2>1 DEF Kinds
    <3> HIDE DEF g
    <3> QED BY <1>8, <3>1, <3>2, <3>3, <3>4 DEF Frame
  \* For a moment of the proof the list is empty.
  <2> DEFINE d == [kind |-> "vars", owner |-> f.owner, head |-> NULL, src |-> <<>>,
                   bare |-> FALSE, kids |-> Append(f.kids, f.head), from |-> f.from]
  <2>4. /\ d.kind = "vars" /\ d.owner = f.owner /\ d.src = <<>> /\ d.head = NULL /\ ~d.bare
        /\ d \in Frame(u)
    BY <1>3, <1>7, <1>8 DEF Frame, Kinds
  <2>5. Void(d, u)
    BY <2>4 DEF Void
  <2> HIDE DEF d, g
  <2>7. Sound(Append(P, d), C \cup {f}, nxt, u)
    BY <1>5, <2>5, SoundPush DEF Whole
  <2>8. [j \in 1..1 |-> u + j] = <<u + 1>> /\ <<>> \o <<u + 1>> = <<u + 1>>
    OBVIOUS
  <2>9. Longer(d, g, u, 1)
    BY <1>2, <1>12, <2>1, <2>2, <2>4, <2>8 DEF Longer
  <2>10. Run(nxt, u, 1) = nxt
    BY <1>6 DEF Run
  <2>11. Links(d.head, nxt, nxt, u, 1)
    BY <2>4, <2>10 DEF Links, Extend
  <2>12. Sound(Append(P, g), C \cup {f}, nxt, u + 1)
    <3>1. 1 \in Nat \ {0} /\ u + 1 <= MaxNodes
      BY <2>1
    <3> QED BY <2>7, <2>9, <2>11, <3>1, SoundExtend
  <2>13. Steady(g) /\ Within(g, Last(P)) /\ TypeFits(g, ty, as)
    BY <1>2, <1>4, <1>12, <2>1 DEF Steady, Within, TypeFits
  <2>14. Nested(Append(P, g)) /\ AllTypesFit(Append(P, g), C \cup {f}, ty, as)
    <3>1. P \in Seq(Frame(v))
      <4>1. Frame(u) \subseteq Frame(v)
        BY <1>1, FrameGrows
      <4> QED BY <4>1, SeqMonotonic
    <3>2. Nested(P) /\ AllTypesFit(P, C \cup {f}, ty, as)
      BY <1>5 DEF Whole
    <3>3. Nested(Append(P, g))
      BY <1>4, <2>2, <2>13, <3>1, <3>2, NestedPush
    <3>4. AllTypesFit(Append(P, g), C \cup {f}, ty, as)
      BY <2>2, <2>13, <3>1, <3>2, TypesPush
    <3> QED BY <3>3, <3>4
  <2> QED BY <2>1, <2>12, <2>14 DEF Whole, g
<1> QED BY <1>11, <1>12

\* What ReduceCommand does with the innermost list f.
Started == {"vars", "cmds", "control"}
Reduced(f, c) == IF f.kind = "control" THEN [f EXCEPT !.kind = "governed", !.kids = Append(@, c)]
                 ELSE WithCommand(f, c)
Relinked(f, c, nxt) == IF f.kind = "cmds" THEN Extend(f.head, nxt, c) ELSE nxt
Ended(f) == IF f.kind = "vars" THEN {f} ELSE {}

LEMMA WholeReduce ==
    ASSUME NEW u \in Nat, NEW v \in Nat, v <= MaxNodes, NEW c, Made(c, u, v),
           NEW P \in Seq(Frame(u)), NEW f \in Frame(u), NEW C, NEW nxt, NEW ty, NEW as,
           Whole(Append(P, f), C, nxt, u, ty, as), f.kind \in Started
    PROVE  Whole(Append(P, Reduced(f, c)), C \cup Ended(f), Relinked(f, c, nxt), v, ty, as)
<1>1. CASE f.kind = "control"
  <2>1. /\ Reduced(f, c) = [f EXCEPT !.kind = "governed", !.kids = Append(@, c)]
        /\ Relinked(f, c, nxt) = nxt /\ C \cup Ended(f) = C
    BY <1>1 DEF Reduced, Relinked, Ended
  <2>2. Whole(Append(P, Reduced(f, c)), C, nxt, v, ty, as)
    <3> HIDE DEF Reduced
    <3> QED BY <1>1, <2>1, Governs
  <2> QED BY <2>1, <2>2
<1>2. CASE f.kind = "cmds"
  <2>1. /\ Reduced(f, c) = WithCommand(f, c) /\ Relinked(f, c, nxt) = Extend(f.head, nxt, c)
        /\ C \cup Ended(f) = C
    BY <1>2 DEF Reduced, Relinked, Ended
  <2> QED BY <1>2, <2>1, NextCommand
<1>3. CASE f.kind = "vars"
  <2>1. /\ Reduced(f, c) = WithCommand(f, c) /\ Relinked(f, c, nxt) = nxt
        /\ C \cup Ended(f) = C \cup {f}
    BY <1>3 DEF Reduced, Relinked, Ended
  <2>2. Whole(Append(P, WithCommand(f, c)), C \cup {f}, nxt, v, ty, as)
    BY <1>3, FirstCommand
  <2> QED BY <2>1, <2>2
<1> QED BY <1>1, <1>2, <1>3 DEF Started

\* A node that the globals, the parameters of a function or the arguments of a
\* call are given.
LEMMA WholeAdd ==
    ASSUME NEW u \in Nat, u + 1 <= MaxNodes,
           NEW P \in Seq(Frame(u)), NEW f \in Frame(u), NEW C, NEW nxt, NEW ty, NEW as,
           Whole(Append(P, f), C, nxt, u, ty, as), f.kind \in {"globals", "params", "args"},
           NEW nxt2, nxt2 = Extend(f.head, nxt, u + 1)
    PROVE  Whole(Append(P, Added(f, u + 1)), C, nxt2, u + 1, ty, as)
<1> DEFINE g == Added(f, u + 1)
<1>1. u <= MaxNodes /\ u + 1 \in Nat /\ u <= u + 1 /\ 1 \in Nat \ {0}
  BY NodesAssumption
<1>2. /\ f.src \in Seq(1..u) /\ f.head \in 1..u \cup {NULL} /\ f.kids \in Seq(1..u \cup {NULL})
      /\ f.from \in 1..(u + 1) /\ f.owner \in Owners /\ f.kind \in Kinds
  BY <1>1, FrameParts
<1>3. Steady(f) /\ Sound(Append(P, f), C, nxt, u)
  BY WholeTop
<1>4. ~f.bare /\ f.bare = FALSE
  <2>1. f.bare \in BOOLEAN
    BY <1>1, FrameParts
  <2> QED BY <1>3, <2>1 DEF Steady
<1>5. nxt \in [Node -> Node \cup {NULL}]
  BY <1>3 DEF Sound, Good
<1>6. f.src \o <<u + 1>> \in Seq(1..(u + 1)) /\ Append(f.src, u + 1) = f.src \o <<u + 1>>
  <2>1. f.src \in Seq(1..(u + 1))
    <3>1. 1..u \subseteq 1..(u + 1)
      OBVIOUS
    <3> QED BY <1>2, <3>1, SeqMonotonic
  <2>2. u + 1 \in 1..(u + 1)
    BY <1>1
  <2>3. <<u + 1>> \in Seq(1..(u + 1))
    BY <2>2
  <2> QED BY <2>1, <2>2, <2>3, ConcatProperties, AppendIsConcat
<1>7. /\ g.kind = f.kind /\ g.owner = f.owner /\ g.bare = f.bare
      /\ g.head = (IF f.head = NULL THEN u + 1 ELSE f.head) /\ g.src = f.src \o <<u + 1>>
  BY <1>6 DEF Frame, Added
<1>8. g \in Frame(u + 1)
  <2>1. f \in Frame(u + 1)
    BY <1>1, FrameGrows
  <2>2. (IF f.head = NULL THEN u + 1 ELSE f.head) \in 1..(u + 1) \cup {NULL}
    BY <1>2
  <2>3. /\ g.kids = f.kids /\ g.from = f.from
        /\ g = [kind |-> g.kind, owner |-> g.owner, head |-> g.head, src |-> g.src,
                bare |-> g.bare, kids |-> g.kids, from |-> g.from]
    <3>1. PICK h, s : g = [f EXCEPT !.head = h, !.src = s]
      BY DEF Added
    <3> HIDE DEF g
    <3> QED BY <3>1 DEF Frame
  <2>4. /\ f.kids \in Seq(1..(u + 1) \cup {NULL}) /\ f.from \in 1..(u + 1 + 1)
    BY <2>1 DEF Frame
  <2> HIDE DEF g
  <2>5. g.head \in 1..(u + 1) \cup {NULL} /\ g.src \in Seq(1..(u + 1)) /\ g.bare \in BOOLEAN
    BY <1>4, <1>6, <1>7, <2>2
  <2>6. /\ g.kind \in Kinds /\ g.owner \in Owners /\ g.kids \in Seq(1..(u + 1) \cup {NULL})
        /\ g.from \in 1..(u + 1 + 1)
    BY <1>2, <1>7, <2>3, <2>4
  <2> QED BY <2>3, <2>5, <2>6 DEF Frame
<1>9. [j \in 1..1 |-> u + j] = <<u + 1>>
  OBVIOUS
<1> HIDE DEF g
<1>10. Longer(f, g, u, 1)
  BY <1>4, <1>7, <1>8, <1>9 DEF Longer
<1>11. Run(nxt, u, 1) = nxt
  BY <1>5 DEF Run
<1>12. Links(f.head, nxt, nxt2, u, 1)
  BY <1>11 DEF Links
<1>13. Steady(g) /\ TypeFits(g, ty, as)
  BY <1>3, <1>4, <1>7 DEF Steady, TypeFits
<1>14. Whole(Append(P, g), C, nxt2, u + 1, ty, as)
  BY <1>1, <1>7, <1>10, <1>12, <1>13, WholeExtend
<1> QED BY <1>14 DEF g
-----------------------------------------------------------------------------
\* The stack of a state, taken apart.
LEMMA Opened ==
    ASSUME IInv
    PROVE  /\ used \in Nat /\ used <= MaxNodes /\ MaxNodes \in Nat
           /\ \E P \in Seq(Frame(used)), f \in Frame(used) :
                /\ stack = Append(P, f) /\ Top = f /\ Front(stack) = P
                /\ Len(stack) = Len(P) + 1 /\ Len(P) \in Nat
                /\ P # <<>> => Len(P) > 0 /\ stack[Len(stack) - 1] = Last(P)
                /\ Whole(Append(P, f), closed, next, used, type, asked)
                /\ f.kind # "globals" => P # <<>>
<1>1. /\ used \in Nat /\ used <= MaxNodes /\ MaxNodes \in Nat
      /\ Whole(stack, closed, next, used, type, asked)
  BY NodesAssumption DEF IInv, Typed
<1>2. stack \in Seq(Frame(used)) /\ stack # <<>>
  BY <1>1 DEF Whole, Sound, Nested
<1>3. PICK P \in Seq(Frame(used)), f \in Frame(used) :
          /\ stack = Append(P, f) /\ Front(stack) = P /\ Last(stack) = f
          /\ Len(stack) = Len(P) + 1 /\ Len(P) \in Nat
          /\ (P # <<>> => Len(P) > 0 /\ stack[Len(stack) - 1] = Last(P))
  BY <1>2, StackIs
<1>4. Whole(Append(P, f), closed, next, used, type, asked)
  BY <1>1, <1>3
<1>5. f.kind # "globals" => P # <<>>
  BY <1>1, <1>4, WholeTop
<1> QED BY <1>1, <1>3, <1>4, <1>5 DEF Top

\* A list that has just been opened.
LEMMA ListIs ==
    ASSUME used \in Nat, NEW k \in Kinds, NEW o \in Owners
    PROVE  /\ Void(List(k, o), used) /\ List(k, o).kind = k /\ List(k, o).owner = o
           /\ List(k, o).src = <<>> /\ List(k, o).head = NULL /\ ~List(k, o).bare
<1>1. /\ <<>> \in Seq(1..used) /\ <<>> \in Seq(1..used \cup {NULL}) /\ FALSE \in BOOLEAN
      /\ used + 1 \in 1..(used + 1)
  OBVIOUS
<1>2. List(k, o) \in Frame(used)
  BY <1>1 DEF List, Frame
<1> QED BY <1>2 DEF List, Void

\* The actions that open a list.
LEMMA PushKeeps ==
    ASSUME IInv, NEW k \in Kinds \ {"cmds"}, NEW o \in Owners \ {"global"},
           Within(List(k, o), Top), Push(List(k, o))
    PROVE  Whole(stack', closed, next, used, type, asked)
<1> DEFINE f == List(k, o)
<1>1. used \in Nat /\ Whole(stack, closed, next, used, type, asked)
  BY Opened DEF IInv
<1>2. stack \in Seq(Frame(used))
  BY <1>1 DEF Whole, Sound
<1>3. /\ Void(f, used) /\ f.kind = k /\ f.owner = o /\ f.src = <<>> /\ ~f.bare
  BY <1>1, ListIs
<1>4. Len(stack) < MaxStack /\ stack' = Append(stack, f)
  BY DEF Push
<1>5. Within(f, Last(stack))
  BY DEF Top
<1> HIDE DEF f
<1>6. Steady(f)
  BY <1>3 DEF Steady
<1>7. TypeFits(f, type, asked)
  <2>1. DOMAIN f.src = {}
    BY <1>3
  <2> QED BY <2>1 DEF TypeFits
<1>8. Whole(Append(stack, f), closed, next, used, type, asked)
  BY <1>1, <1>2, <1>3, <1>4, <1>5, <1>6, <1>7, WholePush
<1> QED BY <1>4, <1>8

\* The actions that end with a command.
LEMMA ReduceKeeps ==
    ASSUME NEW u \in Nat, NEW v \in Nat, v <= MaxNodes, NEW c, Made(c, u, v),
           NEW s \in Seq(Frame(u)), s # <<>>, Last(s).kind \in Started, NEW done,
           Whole(s, closed \cup done, next, u, type, asked), ReduceCommand(s, c, done)
    PROVE  Whole(stack', closed', next', v, type, asked)
<1>1. PICK P \in Seq(Frame(u)), f \in Frame(u) : s = Append(P, f) /\ Front(s) = P /\ Last(s) = f
  BY StackIs
<1>2. /\ stack' = P \o <<Reduced(f, c)>> /\ next' = Relinked(f, c, next)
      /\ closed' = (closed \cup done) \cup Ended(f)
  BY <1>1 DEF ReduceCommand, Reduced, Relinked, Ended
<1>3. Whole(Append(P, f), closed \cup done, next, u, type, asked) /\ f.kind \in Started
  BY <1>1
<1>4. Whole(Append(P, Reduced(f, c)), (closed \cup done) \cup Ended(f), Relinked(f, c, next),
            v, type, asked)
  BY <1>3, WholeReduce
<1>5. P \o <<Reduced(f, c)>> = Append(P, Reduced(f, c))
  BY AppendIsConcat
<1> QED BY <1>2, <1>4, <1>5
-----------------------------------------------------------------------------
\* The lists after each action.
WholeNext == Whole(stack', closed', next', used', type', asked')

LEMMA OpenKeeps ==
    ASSUME IInv, BeginFunction \/ ProgramBlock \/ CommandBlock \/ BeginControl \/ BeginCall
    PROVE  WholeNext
<1>1. PICK k \in Kinds \ {"cmds"}, o \in Owners \ {"global"} : Push(List(k, o)) /\ Within(List(k, o), Top)
  <2>1. used \in Nat
    BY Opened
  <2>2. CASE BeginFunction
    <3>1. "params" \in Kinds \ {"cmds"} /\ "function" \in Owners \ {"global"}
      BY DEF Kinds, Owners
    <3>2. Push(List("params", "function")) /\ Top.kind = "globals"
      BY <2>2 DEF BeginFunction, Reading
    <3> QED BY <2>1, <3>1, <3>2, ListIs DEF Within
  <2>3. CASE ProgramBlock
    <3>1. "vars" \in Kinds \ {"cmds"} /\ "program" \in Owners \ {"global"}
      BY DEF Kinds, Owners
    <3>2. Push(List("vars", "program")) /\ Top.kind = "globals"
      BY <2>3 DEF ProgramBlock, Reading
    <3> QED BY <2>1, <3>1, <3>2, ListIs DEF Within
  <2>4. CASE CommandBlock
    <3>1. "vars" \in Kinds \ {"cmds"} /\ "command" \in Owners \ {"global"}
      BY DEF Kinds, Owners
    <3>2. Push(List("vars", "command")) /\ Top.kind \in {"vars", "cmds", "control"}
      BY <2>4 DEF CommandBlock, Reading
    <3> QED BY <2>1, <3>1, <3>2, ListIs DEF Within
  <2>5. CASE BeginControl
    <3>1. PICK k \in {"se", "enquanto"} : Push(List("control", k))
      BY <2>5 DEF BeginControl
    <3>2. "control" \in Kinds \ {"cmds"} /\ k \in Owners \ {"global"}
      BY DEF Kinds, Owners
    <3>3. Top.kind \in {"vars", "cmds", "control"}
      BY <2>5 DEF BeginControl, Reading
    <3> QED BY <2>1, <3>1, <3>2, <3>3, ListIs DEF Within
  <2>6. CASE BeginCall
    <3>1. "args" \in Kinds \ {"cmds"} /\ "call" \in Owners \ {"global"}
      BY DEF Kinds, Owners
    <3>2. Push(List("args", "call")) /\ Top.kind \in {"vars", "cmds", "control", "args"}
      BY <2>6 DEF BeginCall, Reading
    <3> QED BY <2>1, <3>1, <3>2, ListIs DEF Within
  <2> QED BY <2>2, <2>3, <2>4, <2>5, <2>6
<1>2. UNCHANGED <<used, next, type, closed, asked>>
  BY DEF BeginFunction, ProgramBlock, CommandBlock, BeginControl, BeginCall
<1>3. Whole(stack', closed, next, used, type, asked)
  BY <1>1, PushKeeps
<1> QED BY <1>2, <1>3 DEF WholeNext

LEMMA AddKeeps ==
    ASSUME IInv, Param \/ Arg
    PROVE  WholeNext
<1>1. PICK P \in Seq(Frame(used)), f \in Frame(used) :
          /\ stack = Append(P, f) /\ Top = f /\ Front(stack) = P
          /\ Whole(Append(P, f), closed, next, used, type, asked)
  BY Opened
<1>2. /\ f.kind \in {"globals", "params", "args"}
      /\ used + 1 <= MaxNodes /\ used' = used + 1
      /\ next' = Extend(f.head, next, used + 1)
      /\ stack' = P \o <<Added(f, used + 1)>>
      /\ UNCHANGED <<type, closed, asked>>
  BY <1>1 DEF Param, Arg, Reading, Allocate
<1>3. used \in Nat
  BY Opened
<1>4. Whole(Append(P, Added(f, used + 1)), closed, next', used + 1, type, asked)
  BY <1>1, <1>2, <1>3, WholeAdd
<1>5. stack' = Append(P, Added(f, used + 1))
  BY <1>2, AppendIsConcat
<1> QED BY <1>2, <1>4, <1>5 DEF WholeNext

LEMMA FunctionBlockKeeps ==
    ASSUME IInv, FunctionBlock
    PROVE  WholeNext
<1>1. PICK P \in Seq(Frame(used)), f \in Frame(used) :
          /\ stack = Append(P, f) /\ Top = f /\ Front(stack) = P
          /\ Whole(Append(P, f), closed, next, used, type, asked)
          /\ (f.kind # "globals" => P # <<>>)
  BY Opened
<1> DEFINE g == [f EXCEPT !.kind = "vars", !.head = NULL, !.src = <<>>, !.kids = <<f.head>>]
<1>2. /\ f.kind = "params" /\ closed' = closed \cup {f} /\ stack' = P \o <<g>>
      /\ UNCHANGED <<used, next, type, asked>>
  BY <1>1 DEF FunctionBlock, Reading
<1>3. used \in Nat /\ used <= MaxNodes
  BY Opened
<1>4. /\ P # <<>> /\ Steady(f) /\ Within(f, Last(P)) /\ Len(P) < MaxStack
  BY <1>1, <1>2, <1>3, WholeTop
<1>5. Whole(P, closed \cup {f}, next, used, type, asked)
  BY <1>1, <1>3, <1>4, WholeClose
<1>6. /\ g.kind = "vars" /\ g.owner = f.owner /\ g.src = <<>> /\ g.head = NULL /\ g.bare = f.bare
      /\ g \in Frame(used)
  <2>1. f.head \in 1..used \cup {NULL}
    BY <1>3, FrameParts
  <2>2. <<f.head>> \in Seq(1..used \cup {NULL}) /\ <<>> \in Seq(1..used)
    BY <2>1
  <2> QED BY <2>2 DEF Frame, Kinds
<1>7. f.owner = "function" /\ Last(P).kind = "globals" /\ ~f.bare
  BY <1>2, <1>4 DEF Within, Steady
<1> HIDE DEF g
<1>8. Void(g, used) /\ Steady(g) /\ Within(g, Last(P))
  BY <1>6, <1>7 DEF Void, Steady, Within
<1>9. TypeFits(g, type, asked)
  <2>1. DOMAIN g.src = {}
    BY <1>6
  <2> QED BY <2>1 DEF TypeFits
<1>10. Whole(Append(P, g), closed \cup {f}, next, used, type, asked)
  BY <1>3, <1>4, <1>5, <1>8, <1>9, WholePush
<1>11. stack' = Append(P, g)
  BY <1>2, AppendIsConcat
<1> QED BY <1>2, <1>10, <1>11 DEF WholeNext

LEMMA CommandKeeps ==
    ASSUME IInv, EmptyCommand \/ SimpleCommand
    PROVE  WholeNext
<1>1. /\ used \in Nat /\ used <= MaxNodes /\ used + 1 \in Nat
      /\ Whole(stack, closed, next, used, type, asked)
  BY Opened DEF IInv
<1>2. stack \in Seq(Frame(used)) /\ stack # <<>> /\ closed \cup {} = closed
  BY <1>1 DEF Whole, Sound, Nested
<1>3. Last(stack).kind \in Started /\ UNCHANGED <<type, asked>>
  BY DEF EmptyCommand, SimpleCommand, Reading, Started, Top
<1>4. CASE EmptyCommand
  <2>1. ReduceCommand(stack, NULL, {}) /\ used' = used
    BY <1>4 DEF EmptyCommand
  <2>2. Made(NULL, used, used)
    BY DEF Made
  <2>3. Whole(stack', closed', next', used, type, asked)
    BY <1>1, <1>2, <1>3, <2>1, <2>2, ReduceKeeps
  <2> QED BY <1>3, <2>1, <2>3 DEF WholeNext
<1>5. CASE SimpleCommand
  <2>1. ReduceCommand(stack, used + 1, {}) /\ used' = used + 1 /\ used + 1 <= MaxNodes
    BY <1>5 DEF SimpleCommand, Allocate
  <2>2. Made(used + 1, used, used + 1)
    BY DEF Made
  <2>3. Whole(stack', closed', next', used + 1, type, asked)
    BY <1>1, <1>2, <1>3, <2>1, <2>2, ReduceKeeps
  <2> QED BY <1>3, <2>1, <2>3 DEF WholeNext
<1> QED BY <1>4, <1>5

LEMMA SenaoKeeps ==
    ASSUME IInv, Senao
    PROVE  WholeNext
<1>1. PICK P \in Seq(Frame(used)), f \in Frame(used) :
          /\ stack = Append(P, f) /\ Top = f /\ Front(stack) = P
          /\ Whole(Append(P, f), closed, next, used, type, asked)
          /\ (f.kind # "globals" => P # <<>>)
  BY Opened
<1> DEFINE g == [f EXCEPT !.kind = "control", !.owner = "senao"]
<1>2. /\ f.kind = "governed" /\ stack' = P \o <<g>>
      /\ UNCHANGED <<used, next, closed, type, asked>>
  BY <1>1 DEF Senao, Reading
<1>3. used \in Nat
  BY Opened
<1>4. P # <<>> /\ Steady(f) /\ Within(f, Last(P))
  BY <1>1, <1>2, <1>3, WholeTop
<1>5. /\ g.kind = "control" /\ g.owner = "senao" /\ g.src = f.src /\ g.head = f.head
      /\ g.bare = f.bare /\ g \in Frame(used)
  BY DEF Frame, Kinds, Owners
<1> HIDE DEF g
<1>6. Alike(f, g, used) /\ Steady(g) /\ Within(g, Last(P)) /\ TypeFits(g, type, asked)
  BY <1>2, <1>4, <1>5 DEF Alike, Steady, Within, TypeFits
<1>7. Whole(Append(P, g), closed, next, used, type, asked)
  BY <1>1, <1>3, <1>4, <1>6, WholeTurn
<1>8. stack' = Append(P, g)
  BY <1>2, AppendIsConcat
<1> QED BY <1>2, <1>7, <1>8 DEF WholeNext

\* A se without senao leaves its mark on the se or enquanto it is governed by.
LEMMA EndControlKeeps ==
    ASSUME IInv, EndControl
    PROVE  WholeNext
<1>1. PICK P \in Seq(Frame(used)), f \in Frame(used) :
          /\ stack = Append(P, f) /\ Top = f /\ Front(stack) = P
          /\ Whole(Append(P, f), closed, next, used, type, asked)
          /\ (f.kind # "globals" => P # <<>>)
  BY Opened
<1> DEFINE marked == [Last(P) EXCEPT !.owner = "dangling"]
           outer == IF f.owner \in {"se", "dangling"} /\ Last(P).kind = "control"
                    THEN Front(P) \o <<marked>> ELSE P
<1>2. /\ f.kind = "governed" /\ used + 1 <= MaxNodes /\ used' = used + 1
      /\ ReduceCommand(outer, used + 1, {}) /\ UNCHANGED <<type, asked>>
  BY <1>1 DEF EndControl, Reading, Allocate
<1>3. used \in Nat /\ used + 1 \in Nat
  BY Opened
<1>4. P # <<>> /\ f.src = <<>> /\ Last(P).kind \in Started
  BY <1>1, <1>2, <1>3, WholeTop DEF Steady, Within, Started
<1>5. Whole(P, closed, next, used, type, asked)
  BY <1>1, <1>3, <1>4, WholeClose
<1>6. /\ outer \in Seq(Frame(used)) /\ outer # <<>> /\ Last(outer).kind \in Started
      /\ Whole(outer, closed, next, used, type, asked)
  <2>1. CASE outer = P
    BY <1>4, <1>5, <2>1
  <2>2. CASE Last(P).kind = "control" /\ outer = Front(P) \o <<marked>>
    <3>1. PICK Q \in Seq(Frame(used)), h \in Frame(used) :
              P = Append(Q, h) /\ Front(P) = Q /\ Last(P) = h
      BY <1>4, StackIs
    <3> DEFINE g == [h EXCEPT !.owner = "dangling"]
    <3>2. Whole(Append(Q, h), closed, next, used, type, asked) /\ h.kind = "control"
      BY <1>5, <2>2, <3>1
    <3>3. Steady(h) /\ (Q # <<>> => Within(h, Last(Q))) /\ Q # <<>>
      BY <1>3, <3>2, WholeTop
    <3>4. /\ g.kind = "control" /\ g.owner = "dangling" /\ g.src = h.src /\ g.head = h.head
          /\ g.bare = h.bare /\ g \in Frame(used)
      BY <3>2 DEF Frame, Owners
    <3>5. outer = Q \o <<g>>
      BY <2>2, <3>1
    <3> HIDE DEF g, outer
    <3>6. Alike(h, g, used) /\ Steady(g) /\ Within(g, Last(Q)) /\ TypeFits(g, type, asked)
      BY <3>2, <3>3, <3>4 DEF Alike, Steady, Within, TypeFits
    <3>7. Whole(Append(Q, g), closed, next, used, type, asked)
      BY <1>3, <3>2, <3>3, <3>6, WholeTurn
    <3>8. outer = Append(Q, g) /\ Append(Q, g) \in Seq(Frame(used))
      BY <3>4, <3>5, SeqAppend
    <3>9. Last(outer) = g /\ outer # <<>>
      <4>1. Len(outer) = Len(Q) + 1 /\ Len(Q) \in Nat /\ outer[Len(Q) + 1] = g
        BY <3>8
      <4> QED BY <4>1 DEF Last
    <3> QED BY <3>4, <3>7, <3>8, <3>9 DEF Started
  <2> QED BY <2>1, <2>2
<1> HIDE DEF outer
<1>7. closed \cup {} = closed /\ Made(used + 1, used, used + 1)
  BY DEF Made
<1>8. Whole(stack', closed', next', used + 1, type, asked)
  BY <1>2, <1>3, <1>6, <1>7, ReduceKeeps
<1> QED BY <1>2, <1>8 DEF WholeNext

\* The lists that end: the arguments of a call and the commands of a block.
LEMMA EndCallArgKeeps ==
    ASSUME IInv, EndCallArg
    PROVE  WholeNext
<1>1. PICK P \in Seq(Frame(used)), f \in Frame(used) :
          /\ stack = Append(P, f) /\ Top = f /\ Front(stack) = P
          /\ Whole(Append(P, f), closed, next, used, type, asked)
          /\ (P # <<>> => stack[Len(stack) - 1] = Last(P))
          /\ (f.kind # "globals" => P # <<>>)
  BY Opened
<1>2. used \in Nat /\ f.kind = "args" /\ P # <<>>
  BY <1>1, Opened DEF EndCallArg, Reading
<1>3. Whole(P, closed \cup {f}, next, used, type, asked)
  BY <1>1, <1>2, WholeClose
<1>4. PICK Q \in Seq(Frame(used)), h \in Frame(used) : P = Append(Q, h) /\ Front(P) = Q /\ Last(P) = h
  BY <1>2, StackIs
<1>5. /\ used + 1 <= MaxNodes /\ used' = used + 1 /\ h.kind = "args"
      /\ next' = Extend(h.head, next, used + 1) /\ stack' = Q \o <<Added(h, used + 1)>>
      /\ closed' = closed \cup {f} /\ UNCHANGED <<type, asked>>
  BY <1>1, <1>2, <1>4 DEF EndCallArg, Allocate
<1>6. Whole(Append(Q, h), closed \cup {f}, next, used, type, asked)
  BY <1>3, <1>4
<1>7. Whole(Append(Q, Added(h, used + 1)), closed \cup {f}, next', used + 1, type, asked)
  BY <1>2, <1>5, <1>6, WholeAdd
<1>8. stack' = Append(Q, Added(h, used + 1))
  BY <1>5, AppendIsConcat
<1> QED BY <1>5, <1>7, <1>8 DEF WholeNext

\* A list ends, and then a command.
LEMMA EndThenReduce ==
    ASSUME IInv, Top.kind # "globals", used + 1 <= MaxNodes,
           Last(Front(stack)).kind \in Started, ReduceCommand(Front(stack), used + 1, {Top})
    PROVE  Whole(stack', closed', next', used + 1, type, asked)
<1>1. PICK P \in Seq(Frame(used)), f \in Frame(used) :
          /\ stack = Append(P, f) /\ Top = f /\ Front(stack) = P
          /\ Whole(Append(P, f), closed, next, used, type, asked)
          /\ (f.kind # "globals" => P # <<>>)
  BY Opened
<1>2. used \in Nat /\ used + 1 \in Nat /\ P # <<>>
  BY <1>1, Opened
<1>3. Whole(P, closed \cup {f}, next, used, type, asked)
  BY <1>1, <1>2, WholeClose
<1>4. Made(used + 1, used, used + 1)
  BY DEF Made
<1>5. ReduceCommand(P, used + 1, {f}) /\ Last(P).kind \in Started
  BY <1>1
<1> QED BY <1>2, <1>3, <1>4, <1>5, ReduceKeeps

LEMMA EndCallCommandKeeps ==
    ASSUME IInv, EndCallCommand
    PROVE  WholeNext
<1>1. PICK P \in Seq(Frame(used)), f \in Frame(used) :
          /\ stack = Append(P, f) /\ Top = f /\ Front(stack) = P
          /\ Whole(Append(P, f), closed, next, used, type, asked)
          /\ (P # <<>> => stack[Len(stack) - 1] = Last(P))
          /\ (f.kind # "globals" => P # <<>>)
  BY Opened
<1>2. used \in Nat /\ f.kind = "args" /\ P # <<>>
  BY <1>1, Opened DEF EndCallCommand, Reading
<1>3. /\ used + 1 <= MaxNodes /\ used' = used + 1 /\ Last(P).kind # "args"
      /\ ReduceCommand(Front(stack), used + 1, {Top}) /\ UNCHANGED <<type, asked>>
  BY <1>1, <1>2 DEF EndCallCommand, Allocate
<1>4. Within(f, Last(P))
  BY <1>1, <1>2, WholeTop
<1>5. Last(P).kind \in Started
  BY <1>2, <1>3, <1>4 DEF Within, Started
<1>6. Whole(stack', closed', next', used + 1, type, asked)
  BY <1>1, <1>2, <1>3, <1>5, EndThenReduce
<1> QED BY <1>3, <1>6 DEF WholeNext

LEMMA EndBlockKeeps ==
    ASSUME IInv, EndBlock
    PROVE  WholeNext
<1>1. PICK P \in Seq(Frame(used)), f \in Frame(used) :
          /\ stack = Append(P, f) /\ Top = f /\ Front(stack) = P
          /\ Whole(Append(P, f), closed, next, used, type, asked)
          /\ (P # <<>> => stack[Len(stack) - 1] = Last(P))
          /\ (f.kind # "globals" => P # <<>>)
  BY Opened
<1>2. used \in Nat /\ f.kind = "cmds" /\ P # <<>> /\ UNCHANGED <<type, asked>>
  BY <1>1, Opened DEF EndBlock, Reading
<1>3. Whole(P, closed \cup {f}, next, used, type, asked)
  BY <1>1, <1>2, WholeClose
<1>4. Within(f, Last(P))
  BY <1>1, <1>2, WholeTop
<1>5. CASE f.owner = "program"
  <2>1. used' = used /\ next' = next /\ stack' = P /\ closed' = closed \cup {f}
    BY <1>1, <1>5 DEF EndBlock
  <2> QED BY <1>2, <1>3, <2>1 DEF WholeNext
<1>6. CASE f.owner = "function"
  <2>1. PICK Q \in Seq(Frame(used)), h \in Frame(used) :
            P = Append(Q, h) /\ Front(P) = Q /\ Last(P) = h
    BY <1>2, StackIs
  <2>2. h.kind = "globals"
    BY <1>2, <1>4, <1>6, <2>1 DEF Within
  <2>3. /\ used + 1 <= MaxNodes /\ used' = used + 1
        /\ next' = Extend(h.head, next, used + 1) /\ stack' = Q \o <<Added(h, used + 1)>>
        /\ closed' = closed \cup {f}
    BY <1>1, <1>2, <1>6, <2>1 DEF EndBlock, Allocate
  <2>4. Whole(Append(Q, h), closed \cup {f}, next, used, type, asked)
    BY <1>3, <2>1
  <2>5. Whole(Append(Q, Added(h, used + 1)), closed \cup {f}, next', used + 1, type, asked)
    BY <1>2, <2>2, <2>3, <2>4, WholeAdd
  <2>6. stack' = Append(Q, Added(h, used + 1))
    BY <2>3, AppendIsConcat
  <2> QED BY <1>2, <2>3, <2>5, <2>6 DEF WholeNext
<1>7. CASE f.owner = "command"
  <2>1. /\ used + 1 <= MaxNodes /\ used' = used + 1
        /\ ReduceCommand(Front(stack), used + 1, {Top})
    BY <1>1, <1>7 DEF EndBlock, Allocate
  <2>2. Last(P).kind \in Started
    BY <1>2, <1>4, <1>7 DEF Within, Started
  <2>3. Whole(stack', closed', next', used + 1, type, asked)
    BY <1>1, <1>2, <2>1, <2>2, EndThenReduce
  <2> QED BY <1>2, <2>1, <2>3 DEF WholeNext
<1> QED BY <1>1, <1>5, <1>6, <1>7 DEF EndBlock

\* What a declaration does to the types, and how its variables are linked.
LEMMA DeclareIs ==
    ASSUME used \in Nat, NEW k \in Nat \ {0}, used + k <= MaxNodes, NEW t, NEW retype \in BOOLEAN,
           DeclareVars(t, k, retype)
    PROVE  /\ \A n \in 1..used : type'[n] = type[n] /\ asked'[n] = asked[n]
           /\ \A n \in (used + 1)..(used + k) :
                 /\ asked'[n] = t
                 /\ type'[n] = IF retype \/ n = used + 1 THEN t ELSE "int"
<1>1. MaxNodes \in Nat /\ Node = 1..MaxNodes
  BY NodesAssumption DEF Node
<1> QED BY <1>1 DEF DeclareVars, Fresh

LEMMA LinkedIs ==
    ASSUME NEW k PROVE Linked(k) = Run(next, used, k)
BY DEF Linked, Run, Fresh

LEMMA LocalVarsKeeps ==
    ASSUME IInv, NEW t \in VarType, NEW k \in Nat \ {0}, LocalVars(t, k)
    PROVE  WholeNext
<1>1. PICK P \in Seq(Frame(used)), f \in Frame(used) :
          /\ stack = Append(P, f) /\ Top = f /\ Front(stack) = P
          /\ Whole(Append(P, f), closed, next, used, type, asked)
  BY Opened
<1> DEFINE g == [f EXCEPT !.head = IF @ = NULL THEN used + 1 ELSE @,
                          !.src = @ \o [j \in 1..k |-> used + j]]
<1>2. /\ f.kind = "vars" /\ used + k <= MaxNodes /\ used' = used + k
      /\ DeclareVars(t, k, TRUE) /\ next' = Extend(f.head, Linked(k), used + 1)
      /\ stack' = P \o <<g>> /\ closed' = closed
  BY <1>1 DEF LocalVars, AppendVars, Reading, Allocate
<1>3. /\ used \in Nat /\ used <= MaxNodes /\ k \in Nat \ {0} /\ used + k \in Nat
      /\ used <= used + k
  BY Opened
<1>4. Steady(f) /\ Sound(Append(P, f), closed, next, used) /\ Nested(Append(P, f))
      /\ AllTypesFit(Append(P, f), closed, type, asked) /\ TypeFits(f, type, asked)
  BY <1>1, <1>3, WholeTop DEF Whole
<1>5. /\ \A n \in 1..used : type'[n] = type[n] /\ asked'[n] = asked[n]
      /\ \A n \in (used + 1)..(used + k) : type'[n] = asked'[n]
  <2>1. TRUE \in BOOLEAN /\ used + k <= MaxNodes
    BY <1>2
  <2>2. /\ \A n \in 1..used : type'[n] = type[n] /\ asked'[n] = asked[n]
        /\ \A n \in (used + 1)..(used + k) :
              asked'[n] = t /\ type'[n] = IF TRUE \/ n = used + 1 THEN t ELSE "int"
    <3> HIDE DEF g
    <3>1. DeclareVars(t, k, TRUE) /\ k \in Nat \ {0}
      BY <1>2, <1>3
    <3> QED BY <1>3, <2>1, <3>1, DeclareIs
  <2> HIDE DEF g
  <2> QED BY <2>2
<1>6. Whole(Append(P, f), closed, next, used, type', asked')
  <2>1. AllTypesFit(Append(P, f), closed, type', asked')
    BY <1>3, <1>4, <1>5, TypesGrow
  <2> QED BY <1>4, <2>1 DEF Whole
<1>7. /\ f.src \in Seq(1..used) /\ f.head \in 1..used \cup {NULL} /\ f.bare \in BOOLEAN
      /\ Len(f.src) \in Nat
  BY <1>3, FrameParts
<1>8. g.src \in Seq(1..(used + k)) /\ g.src = f.src \o [j \in 1..k |-> used + j]
  <2>1. g.src = f.src \o [j \in 1..k |-> used + j]
    BY DEF Frame
  <2>2. [j \in 1..k |-> used + j] \in Seq(1..(used + k))
    BY <1>3
  <2>3. f.src \in Seq(1..(used + k))
    <3>1. 1..used \subseteq 1..(used + k)
      BY <1>3
    <3> QED BY <1>7, <3>1, SeqMonotonic
  <2>4. f.src \o [j \in 1..k |-> used + j] \in Seq(1..(used + k))
    BY <2>2, <2>3, ConcatProperties
  <2> HIDE DEF g
  <2> QED BY <2>1, <2>4
<1>9. PICK hd, s : g = [f EXCEPT !.head = hd, !.src = s]
                   /\ hd = (IF f.head = NULL THEN used + 1 ELSE f.head)
  OBVIOUS
<1> HIDE DEF g
<1>10. /\ g.kind = f.kind /\ g.owner = f.owner /\ g.bare = f.bare /\ g.head = hd
       /\ g.kids = f.kids /\ g.from = f.from /\ g.src = s
       /\ g = [kind |-> g.kind, owner |-> g.owner, head |-> g.head, src |-> g.src,
               bare |-> g.bare, kids |-> g.kids, from |-> g.from]
  BY <1>9 DEF Frame
<1>11. g \in Frame(used + k)
  <2>1. f \in Frame(used + k)
    BY <1>3, FrameGrows
  <2>2. g.head \in 1..(used + k) \cup {NULL}
    BY <1>3, <1>7, <1>9, <1>10
  <2>3. /\ g.kind \in Kinds /\ g.owner \in Owners /\ g.bare \in BOOLEAN
        /\ g.kids \in Seq(1..(used + k) \cup {NULL}) /\ g.from \in 1..(used + k + 1)
    BY <1>10, <2>1 DEF Frame
  <2> QED BY <1>8, <1>10, <2>2, <2>3 DEF Frame
<1>12. ~f.bare /\ Steady(g) /\ f.owner # "global"
  BY <1>2, <1>4, <1>10 DEF Steady
<1>13. Longer(f, g, used, k)
  <2>1. g.head = IF f.head = NULL THEN used + 1 ELSE f.head
    BY <1>9, <1>10
  <2> QED BY <1>8, <1>10, <1>11, <1>12, <2>1 DEF Longer
<1>14. Links(f.head, next, next', used, k)
  BY <1>2, LinkedIs DEF Links
<1>15. TypeFits(g, type', asked')
  <2>1. Follows(f.src, g.src, used, k)
    BY <1>2, <1>3, <1>13, LongerIs
  <2>2. TypeFits(f, type', asked')
    BY <1>3, <1>6, WholeTop
  <2>3. ASSUME NEW j \in DOMAIN g.src PROVE type'[g.src[j]] = asked'[g.src[j]]
    <3>1. j \in 1..Len(g.src) /\ DOMAIN f.src = 1..Len(f.src)
      BY <1>7, <1>8
    <3>2. CASE j <= Len(f.src)
      <4>1. j \in 1..Len(f.src) /\ g.src[j] = f.src[j]
        BY <1>7, <2>1, <3>1, <3>2 DEF Follows
      <4> QED BY <1>2, <1>12, <2>2, <3>1, <4>1 DEF TypeFits
    <3>3. CASE j > Len(f.src)
      <4>1. g.src[j] = used + (j - Len(f.src)) /\ Len(g.src) = Len(f.src) + k
        BY <2>1, <3>1, <3>3 DEF Follows
      <4>2. g.src[j] \in (used + 1)..(used + k)
        <5>1. PICK a : a = Len(f.src)
          OBVIOUS
        <5>2. a \in Nat /\ j \in 1..(a + k) /\ j > a
          BY <1>7, <3>1, <3>3, <4>1, <5>1
        <5>3. g.src[j] = used + (j - a)
          BY <4>1, <5>1
        <5> QED BY <1>3, <5>2, <5>3
      <4> QED BY <1>5, <4>2
    <3> QED BY <1>7, <3>1, <3>2, <3>3
  <2> QED BY <1>10, <1>12, <2>3 DEF TypeFits
<1>16. Whole(Append(P, g), closed, next', used + k, type', asked')
  BY <1>2, <1>3, <1>6, <1>10, <1>12, <1>13, <1>14, <1>15, WholeExtend
<1>17. stack' = Append(P, g)
  BY <1>2, AppendIsConcat
<1> QED BY <1>2, <1>16, <1>17 DEF WholeNext

\* The variables of a global declaration are a list of their own, and their
\* global_decl_t goes to the end of the globals.
LEMMA GlobalVarsKeeps ==
    ASSUME IInv, NEW t \in VarType, NEW k \in Nat \ {0}, GlobalVars(t, k)
    PROVE  WholeNext
<1>1. PICK P \in Seq(Frame(used)), f \in Frame(used) :
          /\ stack = Append(P, f) /\ Top = f /\ Front(stack) = P
          /\ Whole(Append(P, f), closed, next, used, type, asked)
  BY Opened
<1> DEFINE one == [List("vars", "global") EXCEPT !.head = used + 1,
                                                 !.src = [j \in 1..k |-> used + j]]
           w == used + k
           run == Run(next, used, k)
<1>2. /\ f.kind = "globals" /\ used + (k + 1) <= MaxNodes /\ used' = used + (k + 1)
      /\ DeclareVars(t, k, FALSE) /\ next' = Extend(f.head, Linked(k), used + k + 1)
      /\ stack' = P \o <<Added(f, used + k + 1)>> /\ closed' = closed \cup {one}
  BY <1>1 DEF GlobalVars, Reading, Allocate
<1>3. /\ used \in Nat /\ used <= MaxNodes /\ k \in Nat \ {0} /\ w \in Nat
      /\ used <= w /\ used + k <= MaxNodes /\ w + 1 <= MaxNodes /\ used' = w + 1
      /\ used + k + 1 = w + 1 /\ MaxNodes \in Nat
  <2>1. used \in Nat /\ MaxNodes \in Nat
    BY Opened
  <2>2. used + (k + 1) <= MaxNodes /\ used' = used + (k + 1)
    BY <1>2
  <2> HIDE DEF one, run
  <2> QED BY <2>1, <2>2
<1>4. /\ Steady(f) /\ Sound(Append(P, f), closed, next, used) /\ Nested(Append(P, f))
      /\ AllTypesFit(Append(P, f), closed, type, asked)
  BY <1>1, <1>3, WholeTop DEF Whole
<1>5. /\ \A n \in 1..used : type'[n] = type[n] /\ asked'[n] = asked[n]
      /\ \A n \in (used + 1)..(used + k) :
            type'[n] = IF n = used + 1 THEN asked'[n] ELSE "int"
  <2>1. FALSE \in BOOLEAN /\ DeclareVars(t, k, FALSE)
    BY <1>2
  <2>2. /\ \A n \in 1..used : type'[n] = type[n] /\ asked'[n] = asked[n]
        /\ \A n \in (used + 1)..(used + k) :
              asked'[n] = t /\ type'[n] = IF FALSE \/ n = used + 1 THEN t ELSE "int"
    BY <1>3, <2>1, DeclareIs
  <2> QED BY <2>2
<1>6. AllTypesFit(Append(P, f), closed, type', asked')
  BY <1>3, <1>4, <1>5, TypesGrow
<1>7. PICK e : e = List("vars", "global")
  OBVIOUS
<1>8. /\ Void(e, used) /\ e.kind = "vars" /\ e.owner = "global" /\ e.src = <<>> /\ e.head = NULL
      /\ ~e.bare
  BY <1>3, <1>7, ListIs DEF Kinds, Owners
<1>9. e \in Frame(used) /\ e.kids \in Seq(1..used \cup {NULL}) /\ e.bare \in BOOLEAN
      /\ e.from \in 1..(used + 1)
  BY <1>3, <1>8, FrameParts DEF Void
<1>10. [j \in 1..k |-> used + j] \in Seq(1..w) /\ Len([j \in 1..k |-> used + j]) = k
       /\ \A j \in 1..k : [i \in 1..k |-> used + i][j] = used + j
  BY <1>3
<1>11. PICK s : s = [j \in 1..k |-> used + j]
  OBVIOUS
<1>12. /\ one.kind = "vars" /\ one.owner = "global" /\ one.src = s /\ one.head = used + 1
       /\ one.bare = e.bare /\ one.kids = e.kids /\ one.from = e.from
       /\ one = [kind |-> one.kind, owner |-> one.owner, head |-> one.head, src |-> one.src,
                 bare |-> one.bare, kids |-> one.kids, from |-> one.from]
  <2>1. one = [e EXCEPT !.head = used + 1, !.src = s]
    BY <1>7, <1>11
  <2> HIDE DEF one
  <2> QED BY <1>8, <1>9, <2>1 DEF Frame
<1> HIDE DEF one
<1>13. one \in Frame(w)
  <2>1. e \in Frame(w)
    BY <1>3, <1>9, FrameGrows
  <2>2. e.kids \in Seq(1..w \cup {NULL}) /\ e.from \in 1..(w + 1)
    BY <2>1 DEF Frame
  <2>3. "vars" \in Kinds /\ "global" \in Owners /\ used + 1 \in 1..w \cup {NULL} /\ s \in Seq(1..w)
    BY <1>3, <1>10, <1>11 DEF Kinds, Owners
  <2> QED BY <1>9, <1>12, <2>2, <2>3 DEF Frame
<1>14. Longer(e, one, used, k)
  <2>1. <<>> \o s = s
    BY <1>10, <1>11, ConcatEmptySeq
  <2> QED BY <1>8, <1>11, <1>12, <1>13, <2>1 DEF Longer
<1>15. Links(e.head, next, run, used, k)
  BY <1>8 DEF Links, Extend
<1> HIDE DEF w, run
<1>16. PICK S : S = Append(P, f) /\ S \in Seq(Frame(used))
  BY SeqAppend
<1>17. Sound(S, closed \cup {one}, run, w)
  <2>1. Sound(Append(S, e), closed, next, used)
    BY <1>3, <1>4, <1>8, <1>16, SoundPush
  <2>2. Sound(Append(S, one), closed, run, used + k)
    BY <1>3, <1>14, <1>15, <1>16, <2>1, SoundExtend
  <2>3. S \in Seq(Frame(w))
    <3>1. Frame(used) \subseteq Frame(w)
      BY <1>3, FrameGrows
    <3> QED BY <1>16, <3>1, SeqMonotonic
  <2> QED BY <1>3, <2>2, <2>3, SoundClose DEF w
<1>18. TypeFits(one, type', asked')
  <2>1. ASSUME NEW j \in DOMAIN one.src
        PROVE  type'[one.src[j]] = IF j > 1 THEN "int" ELSE asked'[one.src[j]]
    <3>1. j \in 1..k /\ one.src[j] = used + j
      BY <1>10, <1>11, <1>12
    <3>2. used + j \in (used + 1)..(used + k) /\ (j > 1 <=> used + j # used + 1)
      BY <1>3, <3>1
    <3> QED BY <1>5, <3>1, <3>2
  <2> QED BY <1>12, <2>1 DEF TypeFits
<1>19. Whole(Append(P, f), closed \cup {one}, run, w, type', asked')
  <2>1. AllTypesFit(S, closed \cup {one}, type', asked')
    BY <1>6, <1>16, <1>18, TypesClose
  <2> QED BY <1>4, <1>16, <1>17, <2>1 DEF Whole
<1>20. P \in Seq(Frame(w)) /\ f \in Frame(w)
  <2>1. Frame(used) \subseteq Frame(w)
    BY <1>3, FrameGrows
  <2> QED BY <2>1, SeqMonotonic
<1>21. next' = Extend(f.head, run, w + 1)
  BY <1>2, <1>3, LinkedIs DEF run
<1>22. f.kind \in {"globals", "params", "args"}
  BY <1>2
<1>23. Whole(Append(P, Added(f, w + 1)), closed \cup {one}, next', w + 1, type', asked')
  BY <1>3, <1>19, <1>20, <1>21, <1>22, WholeAdd
<1>24. stack' = Append(P, Added(f, w + 1))
  BY <1>2, <1>3, AppendIsConcat
<1> QED BY <1>2, <1>3, <1>23, <1>24 DEF WholeNext

\* A tree of which there is nothing yet, or nothing any more.
Nothing == [kind |-> "globals", owner |-> "program", head |-> NULL, src |-> <<>>,
            bare |-> FALSE, kids |-> <<>>, from |-> 1]

LEMMA Beginning ==
    ASSUME NEW nxt, nxt = [n \in Node |-> NULL], NEW ty, NEW as
    PROVE  Whole(<<Nothing>>, {}, nxt, 0, ty, as)
<1>1. /\ <<>> \in Seq(1..0) /\ <<>> \in Seq(1..0 \cup {NULL}) /\ FALSE \in BOOLEAN
      /\ 1 \in 1..(0 + 1) /\ 0 \in Nat
  OBVIOUS
<1>2. Nothing \in Frame(0)
  BY <1>1 DEF Frame, Nothing, Kinds, Owners
<1>3. /\ Nothing.kind = "globals" /\ Nothing.owner = "program" /\ Nothing.src = <<>>
      /\ Nothing.head = NULL /\ ~Nothing.bare
  BY DEF Nothing
<1>4. Void(Nothing, 0) /\ Steady(Nothing) /\ TypeFits(Nothing, ty, as)
  BY <1>2, <1>3 DEF Void, Steady, TypeFits
<1>5. Sound(<<>>, {}, nxt, 0)
  <2>1. Slots(<<>>, {}) = {}
    BY DEF Slots
  <2>2. Good({}, nxt, 0)
    BY DEF Good
  <2>3. <<>> \in Seq(Frame(0))
    OBVIOUS
  <2> QED BY <2>1, <2>2, <2>3 DEF Sound
<1>6. Append(<<>>, Nothing) = <<Nothing>> /\ Len(<<Nothing>>) = 1 /\ <<Nothing>>[1] = Nothing
  OBVIOUS
<1>7. Sound(<<Nothing>>, {}, nxt, 0)
  BY <1>1, <1>4, <1>5, <1>6, SoundPush
<1>8. Nested(<<Nothing>>)
  <2>1. 1 \in 1..MaxStack
    BY NodesAssumption
  <2>2. \A j \in 1..1 : Steady(<<Nothing>>[j])
    BY <1>4, <1>6
  <2> QED BY <1>3, <1>6, <2>1, <2>2 DEF Nested
<1>9. AllTypesFit(<<Nothing>>, {}, ty, as)
  <2>1. ASSUME NEW j \in 1..1 PROVE TypeFits(<<Nothing>>[j], ty, as)
    <3>1. <<Nothing>>[j] = Nothing
      OBVIOUS
    <3> QED BY <1>4, <3>1, Zenon
  <2> QED BY <1>6, <2>1 DEF AllTypesFit
<1> QED BY <1>7, <1>8, <1>9 DEF Whole

LEMMA GiveUpKeeps ==
    ASSUME GiveUp
    PROVE  WholeNext /\ Typed'
<1>1. /\ used' = 0 /\ next' = [n \in Node |-> NULL] /\ closed' = {} /\ stack' = <<Nothing>>
  <2>1. [List("globals", "program") EXCEPT !.from = 1] = Nothing
    <3>1. PICK b : b = FALSE
      OBVIOUS
    <3>2. List("globals", "program") = [kind |-> "globals", owner |-> "program", head |-> NULL,
              src |-> <<>>, bare |-> b, kids |-> <<>>, from |-> used + 1]
      BY <3>1 DEF List
    <3>3. PICK l : l = List("globals", "program")
      OBVIOUS
    <3>4. [l EXCEPT !.from = 1] = [kind |-> "globals", owner |-> "program", head |-> NULL,
              src |-> <<>>, bare |-> b, kids |-> <<>>, from |-> 1]
      BY <3>2, <3>3
    <3> QED BY <3>1, <3>3, <3>4 DEF Nothing
  <2> QED BY <2>1 DEF GiveUp, NoTree
<1>2. Whole(<<Nothing>>, {}, next', 0, type', asked')
  BY <1>1, Beginning
<1>3. Typed'
  <2>1. /\ 0 \in 0..MaxNodes /\ 0 \in 0..MaxEmpty /\ <<>> \in Seq(1..0 \cup {NULL})
    BY NodesAssumption
  <2>2. Leaf \in [kind : Parted, kids : Seq(1..0 \cup {NULL})]
    BY <2>1 DEF Leaf, Parted
  <2> QED BY <2>1, <2>2 DEF GiveUp, NoTree, Typed, VarType
<1> QED BY <1>1, <1>2, <1>3 DEF WholeNext

LEMMA InitKeeps ==
    ASSUME Init
    PROVE  IInv
<1>1. /\ used = 0 /\ next = [n \in Node |-> NULL] /\ closed = {} /\ stack = <<Nothing>>
  BY DEF Init, List, Nothing
<1>2. Whole(<<Nothing>>, {}, next, 0, type, asked)
  BY <1>1, Beginning
<1>3. Typed
  <2>1. /\ 0 \in 0..MaxNodes /\ 0 \in 0..MaxEmpty /\ <<>> \in Seq(1..0 \cup {NULL})
    BY NodesAssumption
  <2>2. Leaf \in [kind : Parted, kids : Seq(1..0 \cup {NULL})]
    BY <2>1 DEF Leaf, Parted
  <2> QED BY <2>1, <2>2 DEF Init, Typed, VarType
<1> QED BY <1>1, <1>2, <1>3 DEF IInv

\* The rest of the tree: its nodes stay what they are when more are allocated.
LEMMA TreeGrows ==
    ASSUME Typed, used' \in 0..MaxNodes, used <= used'
    PROVE  /\ root \in Seq(1..used' \cup {NULL})
           /\ tree \in [Node -> [kind : Parted, kids : Seq(1..used' \cup {NULL})]]
<1>1. 1..used \cup {NULL} \subseteq 1..used' \cup {NULL}
  BY DEF Typed
<1>2. Seq(1..used \cup {NULL}) \subseteq Seq(1..used' \cup {NULL})
  BY <1>1, SeqMonotonic
<1> QED BY <1>2 DEF Typed

LEMMA LeavesTyped ==
    ASSUME Typed, Leaves, used' \in 0..MaxNodes, used <= used', UNCHANGED phase,
           type' \in [Node -> VarType], asked' \in [Node -> VarType]
    PROVE  Typed'
<1>1. first' \in [Node -> Node]
  BY DEF Leaves, Typed
<1> QED BY <1>1, TreeGrows DEF Leaves, Typed

LEMMA BuiltTyped ==
    ASSUME Typed, NEW kind \in Parted, NEW kids \in Seq(1..used \cup {NULL}),
           NEW from \in 1..(used + 1), Built(kind, kids, from),
           used + 1 <= MaxNodes, used' = used + 1, UNCHANGED <<type, asked, phase>>
    PROVE  Typed'
<1>1. used \in Nat /\ used' \in 0..MaxNodes /\ used <= used' /\ used' \in Node /\ from \in Node
  BY NodesAssumption DEF Typed, Node
<1>2. kids \in Seq(1..used' \cup {NULL})
  <2>1. 1..used \cup {NULL} \subseteq 1..used' \cup {NULL}
    BY <1>1
  <2> QED BY <2>1, SeqMonotonic
<1>3. tree' \in [Node -> [kind : Parted, kids : Seq(1..used' \cup {NULL})]]
  <2>1. tree \in [Node -> [kind : Parted, kids : Seq(1..used' \cup {NULL})]]
    BY <1>1, TreeGrows
  <2>2. [kind |-> kind, kids |-> kids] \in [kind : Parted, kids : Seq(1..used' \cup {NULL})]
    BY <1>2
  <2> QED BY <2>1, <2>2 DEF Built
<1>4. first' \in [Node -> Node]
  BY <1>1 DEF Built, Typed
<1> QED BY <1>1, <1>3, <1>4, TreeGrows DEF Built, Typed

\* What a list that ends gives its construct.
LEMMA PartsIs ==
    ASSUME NEW u \in Nat, u <= MaxNodes, NEW f \in Frame(u)
    PROVE  /\ f.kids \in Seq(1..u \cup {NULL}) /\ f.from \in 1..(u + 1)
           /\ <<f.head>> \in Seq(1..u \cup {NULL})
           /\ Append(f.kids, f.head) \in Seq(1..u \cup {NULL})
<1>1. f.kids \in Seq(1..u \cup {NULL}) /\ f.from \in 1..(u + 1) /\ f.head \in 1..u \cup {NULL}
  BY FrameParts
<1>2. <<f.head>> \in Seq(1..u \cup {NULL})
  BY <1>1
<1> QED BY <1>1, <1>2, AppendProperties

\* What the actions do besides the lists leaves a state well typed.
LEMMA TypedNext ==
    ASSUME IInv, Next
    PROVE  Typed'
<1>1. /\ Typed /\ used \in Nat /\ used <= MaxNodes /\ MaxNodes \in Nat
      /\ type \in [Node -> VarType] /\ asked \in [Node -> VarType]
  BY Opened DEF IInv, Typed
<1>2. PICK P \in Seq(Frame(used)), f \in Frame(used) :
          /\ stack = Append(P, f) /\ Top = f
          /\ Whole(Append(P, f), closed, next, used, type, asked)
  BY Opened
<1>3. /\ Top.kids \in Seq(1..used \cup {NULL}) /\ Top.from \in 1..(used + 1)
      /\ <<Top.head>> \in Seq(1..used \cup {NULL})
      /\ Append(Top.kids, Top.head) \in Seq(1..used \cup {NULL})
  BY <1>1, <1>2, PartsIs
<1>4. CASE BeginFunction \/ FunctionBlock \/ ProgramBlock \/ CommandBlock \/ BeginControl
           \/ Senao \/ BeginCall
  <2>1. UNCHANGED <<used, built, type, asked, phase>>
    BY <1>4 DEF BeginFunction, FunctionBlock, ProgramBlock, CommandBlock, BeginControl,
                Senao, BeginCall, built
  <2> QED BY <1>1, <2>1 DEF Typed, built
<1>5. CASE Param \/ Arg \/ SimpleCommand
  <2>1. Leaves /\ used + 1 <= MaxNodes /\ used' = used + 1 /\ UNCHANGED <<type, asked, phase>>
    BY <1>5 DEF Param, Arg, SimpleCommand, Allocate
  <2>2. used' \in 0..MaxNodes /\ used <= used'
    BY <1>1, <2>1
  <2> QED BY <1>1, <2>1, <2>2, LeavesTyped
<1>6. CASE EmptyCommand
  <2>1. empty' \in 0..MaxEmpty
    BY <1>1, <1>6, NodesAssumption DEF EmptyCommand, Typed
  <2> QED BY <1>1, <1>6, <2>1 DEF EmptyCommand, Typed
<1>7. ASSUME NEW t \in VarType, NEW k \in Node, LocalVars(t, k) PROVE Typed'
  <2>1. /\ Leaves /\ used + k <= MaxNodes /\ used' = used + k /\ UNCHANGED phase
        /\ DeclareVars(t, k, TRUE)
    BY <1>7 DEF LocalVars, AppendVars, Allocate
  <2>2. used' \in 0..MaxNodes /\ used <= used'
    BY <1>1, <2>1
  <2>3. type' \in [Node -> VarType] /\ asked' \in [Node -> VarType]
    BY <1>1, <2>1 DEF DeclareVars, VarType
  <2> QED BY <1>1, <2>1, <2>2, <2>3, LeavesTyped
<1>8. ASSUME NEW t \in VarType, NEW k \in Node, GlobalVars(t, k) PROVE Typed'
  <2>1. /\ used + (k + 1) <= MaxNodes /\ used' = used + (k + 1)
        /\ DeclareVars(t, k, FALSE) /\ UNCHANGED <<root, empty, phase>>
        /\ tree' = [tree EXCEPT ![used'] = [kind |-> "gvar", kids |-> <<used + 1>>]]
        /\ first' = [n \in Node |-> IF n \in Fresh(k) THEN n
                                    ELSE IF n = used' THEN used + 1 ELSE first[n]]
    BY <1>8 DEF GlobalVars, Allocate
  <2>2. used' \in 0..MaxNodes /\ used <= used' /\ used + 1 \in Node /\ used + 1 \in 1..used'
    BY <1>1, <2>1 DEF Node
  <2>3. type' \in [Node -> VarType] /\ asked' \in [Node -> VarType]
    BY <1>1, <2>1 DEF DeclareVars, VarType
  <2>4. first' \in [Node -> Node]
    BY <1>1, <2>1, <2>2 DEF Typed
  <2>5. tree' \in [Node -> [kind : Parted, kids : Seq(1..used' \cup {NULL})]]
    <3>1. <<used + 1>> \in Seq(1..used' \cup {NULL}) /\ "gvar" \in Parted
      BY <2>2 DEF Parted
    <3>2. [kind |-> "gvar", kids |-> <<used + 1>>] \in [kind : Parted, kids : Seq(1..used' \cup {NULL})]
      BY <3>1
    <3> QED BY <1>1, <2>1, <2>2, <3>2, TreeGrows
  <2> QED BY <1>1, <2>1, <2>2, <2>3, <2>4, <2>5, TreeGrows DEF Typed
<1>9. CASE EndControl
  <2>1. /\ used + 1 <= MaxNodes /\ used' = used + 1 /\ UNCHANGED <<type, asked, phase>>
        /\ Built("control", Top.kids, Top.from) /\ "control" \in Parted
    BY <1>9 DEF EndControl, Allocate, Parted
  <2> QED BY <1>1, <1>3, <2>1, BuiltTyped
<1>10. CASE EndCallArg \/ EndCallCommand
  <2>1. /\ used + 1 <= MaxNodes /\ used' = used + 1 /\ UNCHANGED <<type, asked, phase>>
        /\ Built("call", <<Top.head>>, Top.from) /\ "call" \in Parted
    BY <1>10 DEF EndCallArg, EndCallCommand, Allocate, Parted
  <2> QED BY <1>1, <1>3, <2>1, BuiltTyped
<1>11. CASE EndBlock
  <2>1. CASE Top.owner = "program"
    <3>1. /\ UNCHANGED <<used, tree, first, empty, type, asked>> /\ phase' = "parsed"
          /\ root' = <<stack[1].head>> \o Append(Top.kids, Top.head)
      BY <1>11, <2>1 DEF EndBlock
    <3>2. <<stack[1].head>> \in Seq(1..used \cup {NULL})
      <4>1. stack[1] \in Frame(used)
        <5>1. stack \in Seq(Frame(used)) /\ Len(stack) \in 1..MaxStack
          BY <1>2 DEF Whole, Sound, Nested
        <5> QED BY <5>1
      <4>2. stack[1].head \in 1..used \cup {NULL}
        BY <1>1, <4>1, FrameParts
      <4> QED BY <4>2
    <3>3. root' \in Seq(1..used \cup {NULL})
      BY <1>3, <3>1, <3>2, ConcatProperties
    <3> QED BY <1>1, <3>1, <3>3 DEF Typed
  <2>2. CASE Top.owner # "program"
    <3>1. PICK kind \in Parted : Built(kind, Append(Top.kids, Top.head), Top.from)
      BY <1>11, <2>2 DEF EndBlock, Parted
    <3>2. used + 1 <= MaxNodes /\ used' = used + 1 /\ UNCHANGED <<type, asked, phase>>
      BY <1>11, <2>2 DEF EndBlock, Allocate
    <3> QED BY <1>1, <1>3, <3>1, <3>2, BuiltTyped
  <2> QED BY <2>1, <2>2
<1>12. CASE GiveUp
  BY <1>12, GiveUpKeeps
<1> QED BY <1>4, <1>5, <1>6, <1>7, <1>8, <1>9, <1>10, <1>11, <1>12 DEF Next
-----------------------------------------------------------------------------
\* After every action of the grammar each list, open or finished, is linked as the
\* source has it, by links of its own, and the open lists are nested as the grammar
\* nests them.
THEOREM Inductive == Spec => []IInv
<1>1. Init => IInv
  BY InitKeeps
<1>2. ASSUME IInv, [Next]_vars PROVE IInv'
  <2>1. CASE Next
    <3>1. WholeNext
      <4>1. CASE BeginFunction \/ ProgramBlock \/ CommandBlock \/ BeginControl \/ BeginCall
        BY <1>2, <4>1, OpenKeeps
      <4>2. CASE Param \/ Arg
        BY <1>2, <4>2, AddKeeps
      <4>3. CASE FunctionBlock
        BY <1>2, <4>3, FunctionBlockKeeps
      <4>4. CASE EmptyCommand \/ SimpleCommand
        BY <1>2, <4>4, CommandKeeps
      <4>5. CASE Senao
        BY <1>2, <4>5, SenaoKeeps
      <4>6. CASE EndControl
        BY <1>2, <4>6, EndControlKeeps
      <4>7. CASE EndCallArg
        BY <1>2, <4>7, EndCallArgKeeps
      <4>8. CASE EndCallCommand
        BY <1>2, <4>8, EndCallCommandKeeps
      <4>9. CASE EndBlock
        BY <1>2, <4>9, EndBlockKeeps
      <4>10. ASSUME NEW t \in VarType, NEW k \in Node, GlobalVars(t, k) \/ LocalVars(t, k)
             PROVE  WholeNext
        BY <1>2, <4>10, NodesArePositive, GlobalVarsKeeps, LocalVarsKeeps
      <4>11. CASE GiveUp
        BY <4>11, GiveUpKeeps
      <4> QED BY <2>1, <4>1, <4>2, <4>3, <4>4, <4>5, <4>6, <4>7, <4>8, <4>9, <4>10, <4>11 DEF Next
    <3>2. Typed'
      BY <1>2, <2>1, TypedNext
    <3> QED BY <3>1, <3>2 DEF IInv, WholeNext
  <2>2. CASE UNCHANGED vars
    BY <1>2, <2>2 DEF IInv, Typed, vars, built
  <2> QED BY <1>2, <2>1, <2>2
<1> QED BY <1>1, <1>2, PTL DEF Spec

\* Each list of the tree has its place.
LEMMA Placed ==
    ASSUME IInv, NEW f \in Lists
    PROVE  /\ f \in Frame(used) /\ Fits(f, next, used) /\ TypeFits(f, type, asked)
           /\ \E a \in Slots(stack, closed) : a.list = f
<1>1. /\ Good(Slots(stack, closed), next, used) /\ stack \in Seq(Frame(used))
      /\ AllTypesFit(stack, closed, type, asked)
  BY DEF IInv, Whole, Sound
<1>2. CASE f \in closed
  <2>1. Slot(0, f) \in Slots(stack, closed) /\ Slot(0, f).list = f
    BY <1>2 DEF Slots, Slot
  <2>2. Fits(f, next, used)
    BY <1>1, <2>1 DEF Good
  <2> QED BY <1>1, <1>2, <2>1, <2>2 DEF AllTypesFit, Fits
<1>3. CASE f \in Range(stack)
  <2>1. PICK j \in 1..Len(stack) : f = stack[j]
    BY <1>1, <1>3 DEF Range
  <2>2. Slot(j, f) \in Slots(stack, closed) /\ Slot(j, f).list = f
    BY <2>1 DEF Slots, Slot
  <2>3. Fits(f, next, used)
    BY <1>1, <2>2 DEF Good
  <2> QED BY <1>1, <2>1, <2>2, <2>3 DEF AllTypesFit, Fits
<1> QED BY <1>2, <1>3 DEF Lists

\* Nodes, lists and what the tree holds stay within what has been allocated, and no
\* more lists are open than the parser's stack has room for.
THEOREM ParserTypeCorrect == Spec => []TypeOK
<1>1. IInv => TypeOK
  <2> SUFFICES ASSUME IInv PROVE TypeOK
    OBVIOUS
  <2>1. Typed /\ used \in Nat /\ used <= MaxNodes
    BY Opened DEF IInv
  <2>2. next \in [Node -> Node \cup {NULL}] /\ Len(stack) \in 1..MaxStack
    BY DEF IInv, Whole, Sound, Good, Nested
  <2>3. Range(root) \subseteq 1..used \cup {NULL}
    BY <2>1 DEF Typed, Range
  <2>4. ASSUME NEW n \in Node PROVE Range(tree[n].kids) \subseteq 1..used \cup {NULL}
    <3>1. tree[n].kids \in Seq(1..used \cup {NULL})
      BY <2>1 DEF Typed
    <3> QED BY <3>1 DEF Range
  <2>5. ASSUME NEW f \in Lists
        PROVE  f.kind \in Kinds /\ f.head \in 1..used \cup {NULL} /\ Range(f.src) \subseteq 1..used
    <3>1. /\ f.kind \in Kinds /\ f.head \in 1..used \cup {NULL} /\ f.src \in Seq(1..used)
      BY <2>1, Placed, FrameParts
    <3>2. Range(f.src) \subseteq 1..used
      <4>1. PICK s : s = f.src
        OBVIOUS
      <4>2. s \in Seq(1..used)
        BY <3>1, <4>1
      <4>3. Range(s) \subseteq 1..used
        <5>1. \A j \in DOMAIN s : s[j] \in 1..used
          <6>1. PICK X : X = 1..used
            OBVIOUS
          <6>2. s \in Seq(X)
            BY <4>2, <6>1, Zenon
          <6>3. \A j \in DOMAIN s : s[j] \in X
            BY <6>2
          <6> QED BY <6>1, <6>3, Zenon
        <5> QED BY <5>1, Zenon DEF Range
      <4> QED BY <4>1, <4>3
    <3> QED BY <3>1, <3>2
  <2> QED BY <2>1, <2>2, <2>3, <2>4, <2>5 DEF TypeOK, Typed
<1> QED BY <1>1, Inductive, PTL

\* The loops of goianinha.y and ast.c that walk to the last node of a list add each
\* node after those the source has before it, so that whatever is built around it
\* later the chain of a list is what was read, in that order; but for the commands
\* of a block that begins with the empty one.
THEOREM ListsFollowTheSource == Spec => []ListsFollowSource
<1>1. IInv => ListsFollowSource
  <2> SUFFICES ASSUME IInv, NEW f \in Lists PROVE f.bare \/ Chain(f.head, next) = f.src
    BY DEF ListsFollowSource
  <2>1. PICK a \in Slots(stack, closed) : a.list = f
    BY Placed
  <2>2. Good(Slots(stack, closed), next, used) /\ used \in Nat /\ used <= MaxNodes
    BY Opened DEF IInv, Whole, Sound
  <2>3. a.list.bare \/ Chain(a.list.head, next) = a.list.src
    BY <2>2, ChainOf
  <2> QED BY <2>1, <2>3
<1> QED BY <1>1, Inductive, PTL

\* A node is linked from one place at most: no two lists share one, no list comes
\* back to one it has been at, and none is entered in the middle of another.
THEOREM NothingIsShared == Spec => []NothingShared
<1>1. IInv => NothingShared
  <2> SUFFICES ASSUME IInv PROVE NothingShared
    OBVIOUS
  <2> DEFINE A == Slots(stack, closed)
  <2>1. Good(A, next, used) /\ used \in Nat /\ used <= MaxNodes /\ 1..used \subseteq Node
    BY Opened DEF IInv, Whole, Sound, Node
  <2> HIDE DEF A
  <2>2. /\ \A m \in Node : next[m] # NULL =>
              \E a \in A : ~a.list.bare /\ \E j \in 1..(Len(a.list.src) - 1) : a.list.src[j] = m
        /\ \A a, b \in A : \A j \in 1..Len(a.list.src), k \in 1..Len(b.list.src) :
              a.list.src[j] = b.list.src[k] => a = b /\ j = k
        /\ \A a \in A : Fits(a.list, next, used) /\ a.list \in Frame(used)
    BY <2>1 DEF Good, Fits
  <2>3. ASSUME NEW m \in 1..used, next[m] # NULL
        PROVE  \E a \in A : \E j \in 1..(Len(a.list.src) - 1) :
                  /\ a.list.src[j] = m /\ next[m] = a.list.src[j + 1]
                  /\ Len(a.list.src) \in Nat
    <3>1. PICK a \in A : ~a.list.bare /\ \E j \in 1..(Len(a.list.src) - 1) : a.list.src[j] = m
      BY <2>1, <2>2, <2>3
    <3>2. PICK j \in 1..(Len(a.list.src) - 1) : a.list.src[j] = m
      BY <3>1
    <3>3. Fits(a.list, next, used) /\ Len(a.list.src) \in Nat
      BY <2>1, <2>2, FrameParts
    <3>4. a.list.src # <<>> /\ j \in 1..Len(a.list.src) /\ j < Len(a.list.src)
      BY <3>2, <3>3
    <3>5. next[a.list.src[j]] = a.list.src[j + 1]
      BY <3>1, <3>3, <3>4 DEF Fits
    <3> QED BY <3>2, <3>3, <3>5
  <2>4. ASSUME NEW m \in 1..used, NEW n \in 1..used, next[m] = next[n], next[m] # NULL
        PROVE  m = n
    <3>1. PICK a \in A : \E j \in 1..(Len(a.list.src) - 1) :
              /\ a.list.src[j] = m /\ next[m] = a.list.src[j + 1] /\ Len(a.list.src) \in Nat
      BY <2>3, <2>4
    <3>2. PICK j \in 1..(Len(a.list.src) - 1) :
              /\ a.list.src[j] = m /\ next[m] = a.list.src[j + 1] /\ Len(a.list.src) \in Nat
      BY <3>1
    <3>3. PICK b \in A : \E k \in 1..(Len(b.list.src) - 1) :
              /\ b.list.src[k] = n /\ next[n] = b.list.src[k + 1] /\ Len(b.list.src) \in Nat
      BY <2>3, <2>4
    <3>4. PICK k \in 1..(Len(b.list.src) - 1) :
              /\ b.list.src[k] = n /\ next[n] = b.list.src[k + 1] /\ Len(b.list.src) \in Nat
      BY <3>3
    <3>5. j + 1 \in 1..Len(a.list.src) /\ k + 1 \in 1..Len(b.list.src)
      BY <3>2, <3>4
    <3>6. a.list.src[j + 1] = b.list.src[k + 1]
      BY <2>4, <3>2, <3>4
    <3>7. a = b /\ j + 1 = k + 1
      BY <2>2, <3>5, <3>6
    <3>8. j = k
      BY <3>2, <3>4, <3>7
    <3> QED BY <3>2, <3>4, <3>7, <3>8
  <2>5. ASSUME NEW f \in Lists, NEW n \in 1..used, f.head # NULL, next[n] = f.head
        PROVE  FALSE
    <3>1. PICK a \in A : \E j \in 1..(Len(a.list.src) - 1) :
              /\ a.list.src[j] = n /\ next[n] = a.list.src[j + 1] /\ Len(a.list.src) \in Nat
      BY <2>3, <2>5
    <3>2. PICK j \in 1..(Len(a.list.src) - 1) :
              /\ a.list.src[j] = n /\ next[n] = a.list.src[j + 1] /\ Len(a.list.src) \in Nat
      BY <3>1
    <3>3. PICK b \in A : b.list = f
      BY Placed DEF A
    <3>4. Fits(f, next, used) /\ f \in Frame(used)
      BY Placed
    <3>5. f.src # <<>> /\ f.head = f.src[1]
      BY <2>5, <3>4 DEF Fits
    <3>6. 1 \in 1..Len(f.src)
      BY <2>1, <3>4, <3>5, FrameParts
    <3>7. j + 1 \in 1..Len(a.list.src) /\ j + 1 # 1
      BY <3>2
    <3>8. a.list.src[j + 1] = b.list.src[1] /\ 1 \in 1..Len(b.list.src)
      BY <2>5, <3>2, <3>3, <3>5, <3>6
    <3>9. j + 1 = 1
      BY <2>2, <3>7, <3>8
    <3> QED BY <3>7, <3>9
  <2> QED BY <2>4, <2>5 DEF NothingShared
<1> QED BY <1>1, Inductive, PTL

\* However many variables a declaration has, each has the type that is written
\* before it; but in a global one those after the first are int.
THEOREM TypesAreOfTheSource == Spec => []TypesFollowSource
<1>1. IInv => TypesFollowSource
  BY Placed DEF TypesFollowSource, TypeFits
<1> QED BY <1>1, Inductive, PTL

\* print_ast.c only reads the tree: a program that prints while it parses does
\* nothing to it that the parser does not.
THEOREM PrintingIsNoStep == PrintSpec => Spec
<1>1. PrintInit => Init
  BY DEF PrintInit
<1>2. [PrintNext]_<<vars, printVars>> => [Next]_vars
  BY DEF PrintNext, PrintProgram, PrintNothing, PrintNode, PrintEnd
<1> QED BY <1>1, <1>2, PTL DEF PrintSpec, Spec
-----------------------------------------------------------------------------
\* Node h, or the list from h on when it is walked, ends with node e.
Ends(C, walk, h, e) ==
    IF walk THEN \E f \in C : ~f.bare /\ f.src # <<>> /\ f.src[1] = h /\ f.src[Len(f.src)] = e
    ELSE e = h
\* A block that begins with an empty command has lost others.
Lost(C) == \E f \in C : f.bare /\ f.src # <<>>

\* What hangs on the links K lies in a..b, link after link, and but for what is lost
\* it is all that lies there.
Row(K, walk, a, b, C, fs) ==
    /\ a <= b + 1
    /\ \A i \in 1..Len(K) : K[i] # NULL =>
          a <= fs[K[i]] /\ \E e \in 1..b : Ends(C, walk, K[i], e)
    /\ \A i, j \in 1..Len(K) : i < j /\ K[i] # NULL /\ K[j] # NULL =>
          \E e \in 1..b : Ends(C, walk, K[i], e) /\ e < fs[K[j]]
    /\ Lost(C) \/ \A q \in a..b : \E i \in 1..Len(K) :
          K[i] # NULL /\ fs[K[i]] <= q /\ \E e \in 1..b : Ends(C, walk, K[i], e) /\ q <= e

\* The first node of each construct is not after it.
Firsts(u, fs) ==
    u \in Nat /\ u <= MaxNodes /\ fs \in [Node -> Node] /\ \A n \in 1..u : fs[n] <= n

LEMMA FirstIs ==
    ASSUME NEW u \in Nat, NEW fs, Firsts(u, fs)
    PROVE  \A n \in 1..u : n \in Node /\ fs[n] \in Nat \ {0} /\ fs[n] <= n /\ n # NULL
BY NodesAssumption DEF Firsts, Node

LEMMA RowEmpty ==
    ASSUME NEW walk, NEW a \in Nat \ {0}, NEW C, NEW fs
    PROVE  Row(<<>>, walk, a, a - 1, C, fs)
BY DEF Row

LEMMA RowOne ==
    ASSUME NEW u \in Nat, NEW fs, Firsts(u, fs), NEW h \in 1..u \cup {NULL}, NEW walk,
           NEW a \in Nat \ {0}, NEW b \in Nat, a <= b + 1, NEW C,
           h = NULL => Lost(C) \/ b = a - 1,
           h # NULL => fs[h] = a /\ b # 0 /\ Ends(C, walk, h, b)
    PROVE  Row(<<h>>, walk, a, b, C, fs)
<1>1. Len(<<h>>) = 1 /\ <<h>>[1] = h
  OBVIOUS
<1>2. h # NULL => fs[h] \in Nat \ {0} /\ b \in 1..b
  BY FirstIs
<1> QED BY <1>1, <1>2 DEF Row

LEMMA RowConcat ==
    ASSUME NEW u \in Nat, NEW fs, Firsts(u, fs), NEW K \in Seq(1..u \cup {NULL}),
           NEW L \in Seq(1..u \cup {NULL}), NEW walk, NEW a \in Nat \ {0}, NEW b \in Nat, NEW c \in Nat,
           NEW C, Row(K, walk, a, b, C, fs), Row(L, walk, b + 1, c, C, fs)
    PROVE  Row(K \o L, walk, a, c, C, fs)
<1> DEFINE S == K \o L
           k == Len(K)
           l == Len(L)
<1>1. /\ k \in Nat /\ l \in Nat /\ Len(S) = k + l
      /\ \A i \in 1..k : S[i] = K[i] /\ K[i] \in 1..u \cup {NULL}
      /\ \A i \in 1..l : S[k + i] = L[i] /\ L[i] \in 1..u \cup {NULL}
  OBVIOUS
<1>2. \A n \in 1..u \cup {NULL} : n # NULL => fs[n] \in Nat \ {0}
  BY FirstIs
<1> DEFINE En(h, e) == Ends(C, walk, h, e)
<1>3. /\ a <= b + 1 /\ b <= c
      /\ \A i \in 1..k : K[i] # NULL => a <= fs[K[i]] /\ \E e \in 1..b : En(K[i], e)
      /\ \A i, j \in 1..k : i < j /\ K[i] # NULL /\ K[j] # NULL =>
            \E e \in 1..b : En(K[i], e) /\ e < fs[K[j]]
      /\ Lost(C) \/ \A q \in a..b : \E i \in 1..k :
            K[i] # NULL /\ fs[K[i]] <= q /\ \E e \in 1..b : En(K[i], e) /\ q <= e
      /\ \A i \in 1..l : L[i] # NULL => b + 1 <= fs[L[i]] /\ \E e \in 1..c : En(L[i], e)
      /\ \A i, j \in 1..l : i < j /\ L[i] # NULL /\ L[j] # NULL =>
            \E e \in 1..c : En(L[i], e) /\ e < fs[L[j]]
      /\ Lost(C) \/ \A q \in (b + 1)..c : \E i \in 1..l :
            L[i] # NULL /\ fs[L[i]] <= q /\ \E e \in 1..c : En(L[i], e) /\ q <= e
  BY DEF Row
<1>4. \A i \in 1..(k + l) : i \in 1..k \/ (\E j \in 1..l : i = k + j)
  <2> TAKE i \in 1..(k + l)
  <2>1. i \in 1..k \/ (i - k \in 1..l /\ i = k + (i - k))
    BY <1>1
  <2> QED BY <2>1
<1> HIDE DEF S, k, l, En
<1>5. ASSUME NEW i \in 1..(k + l), S[i] # NULL
      PROVE  a <= fs[S[i]] /\ \E e \in 1..c : En(S[i], e)
  <2>1. CASE i \in 1..k
    BY <1>1, <1>3, <1>5, <2>1
  <2>2. ASSUME NEW j \in 1..l, i = k + j PROVE a <= fs[S[i]] /\ \E e \in 1..c : En(S[i], e)
    <3>1. S[i] = L[j] /\ L[j] # NULL /\ fs[L[j]] \in Nat
      BY <1>1, <1>2, <1>5, <2>2
    <3>2. b + 1 <= fs[L[j]] /\ \E e \in 1..c : En(L[j], e)
      BY <1>3, <3>1
    <3> QED BY <1>3, <3>1, <3>2
  <2> QED BY <1>4, <2>1, <2>2
<1>6. ASSUME NEW i \in 1..(k + l), NEW j \in 1..(k + l), i < j, S[i] # NULL, S[j] # NULL
      PROVE  \E e \in 1..c : En(S[i], e) /\ e < fs[S[j]]
  <2>1. CASE i \in 1..k /\ j \in 1..k
    <3>1. S[i] = K[i] /\ S[j] = K[j]
      BY <1>1, <2>1
    <3>2. PICK e \in 1..b : En(K[i], e) /\ e < fs[K[j]]
      BY <1>3, <1>6, <2>1, <3>1
    <3>3. e \in 1..c
      BY <1>3
    <3> QED BY <3>1, <3>2, <3>3
  <2>2. ASSUME i \in 1..k, NEW p \in 1..l, j = k + p PROVE \E e \in 1..c : En(S[i], e) /\ e < fs[S[j]]
    <3>1. S[i] = K[i] /\ S[j] = L[p] /\ fs[L[p]] \in Nat /\ b + 1 <= fs[L[p]]
      BY <1>1, <1>2, <1>3, <1>6, <2>2
    <3>2. PICK e \in 1..b : En(K[i], e)
      BY <1>3, <1>6, <2>2, <3>1
    <3>3. e \in 1..c /\ e < fs[L[p]]
      BY <1>3, <3>1
    <3> QED BY <3>1, <3>2, <3>3
  <2>3. ASSUME NEW m \in 1..l, i = k + m, NEW p \in 1..l, j = k + p
        PROVE  \E e \in 1..c : En(S[i], e) /\ e < fs[S[j]]
    <3>1. S[i] = L[m] /\ S[j] = L[p] /\ m < p
      BY <1>1, <1>6, <2>3
    <3> QED BY <1>3, <1>6, <3>1
  <2>4. j \in 1..k => i \in 1..k
    BY <1>1, <1>6
  <2> QED BY <1>4, <2>1, <2>2, <2>3, <2>4
<1>7. ASSUME ~Lost(C), NEW q \in a..c
      PROVE  \E i \in 1..(k + l) : S[i] # NULL /\ fs[S[i]] <= q /\ \E e \in 1..c : En(S[i], e) /\ q <= e
  <2>1. CASE q <= b
    <3>1. q \in a..b
      BY <2>1
    <3>2. PICK i \in 1..k : K[i] # NULL /\ fs[K[i]] <= q /\ \E e \in 1..b : En(K[i], e) /\ q <= e
      BY <1>3, <1>7, <3>1
    <3>3. i \in 1..(k + l) /\ S[i] = K[i]
      BY <1>1
    <3>4. PICK e \in 1..b : En(K[i], e) /\ q <= e
      BY <3>2
    <3>5. e \in 1..c
      BY <1>3
    <3> QED BY <3>2, <3>3, <3>4, <3>5
  <2>2. CASE q > b
    <3>1. q \in (b + 1)..c
      BY <1>3, <2>2
    <3>2. PICK i \in 1..l : L[i] # NULL /\ fs[L[i]] <= q /\ \E e \in 1..c : En(L[i], e) /\ q <= e
      BY <1>3, <1>7, <3>1
    <3>3. k + i \in 1..(k + l) /\ S[k + i] = L[i]
      BY <1>1
    <3> QED BY <3>2, <3>3
  <2> QED BY <2>1, <2>2
<1>8. a <= c + 1 /\ Len(S) = k + l
  BY <1>1, <1>3
<1> QED BY <1>5, <1>6, <1>7, <1>8 DEF Row, S, En

\* More nodes and finished lists change nothing that is said of those there were.
Later(u, C, fs, C2, fs2) == C \subseteq C2 /\ \A n \in 1..u : fs2[n] = fs[n]

LEMMA RowGrows ==
    ASSUME NEW u \in Nat, NEW fs, NEW K \in Seq(1..u \cup {NULL}), NEW walk, NEW a, NEW b, NEW C,
           Row(K, walk, a, b, C, fs), NEW C2, NEW fs2, Later(u, C, fs, C2, fs2)
    PROVE  Row(K, walk, a, b, C2, fs2)
<1>1. \A h, e : Ends(C, walk, h, e) => Ends(C2, walk, h, e)
  BY DEF Ends, Later
<1>2. Lost(C) => Lost(C2)
  BY DEF Lost, Later
<1>3. \A i \in 1..Len(K) : K[i] # NULL => fs2[K[i]] = fs[K[i]]
  BY DEF Later
<1> QED BY <1>1, <1>2, <1>3 DEF Row
-----------------------------------------------------------------------------
\* The constructs s of a list follow each other, each from its first node on.
Spread(s, fs) ==
    /\ \A j \in 1..(Len(s) - 1) : fs[s[j + 1]] = s[j] + 1
    /\ \A i, j \in 1..Len(s) : i < j => s[i] < fs[s[j]]
    /\ \A j \in 1..Len(s) : \A q \in fs[s[j]]..s[Len(s)] : fs[s[j]] <= fs[q]

LEMMA SpreadEmpty == ASSUME NEW fs PROVE Spread(<<>>, fs)
BY DEF Spread

LEMMA SpreadOne ==
    ASSUME NEW fs, NEW n \in Nat, fs[n] <= n, \A q \in fs[n]..n : fs[n] <= fs[q]
    PROVE  Spread(<<n>>, fs)
BY DEF Spread

LEMMA SpreadRun ==
    ASSUME NEW v \in Nat, NEW k \in Nat, NEW fs, \A n \in (v + 1)..(v + k) : fs[n] = n
    PROVE  Spread([j \in 1..k |-> v + j], fs)
<1> DEFINE s == [j \in 1..k |-> v + j]
<1>1. Len(s) = k /\ \A j \in 1..k : s[j] = v + j /\ fs[s[j]] = s[j]
  OBVIOUS
<1> HIDE DEF s
<1>2. \A j \in 1..(k - 1) : fs[s[j + 1]] = s[j] + 1
  BY <1>1
<1>3. \A i, j \in 1..k : i < j => s[i] < fs[s[j]]
  BY <1>1
<1>4. ASSUME NEW j \in 1..k, NEW q \in fs[s[j]]..s[k] PROVE fs[s[j]] <= fs[q]
  <2>1. fs[s[j]] = v + j /\ s[k] = v + k
    BY <1>1
  <2>2. q \in (v + 1)..(v + k) /\ v + j <= q
    BY <2>1
  <2> QED BY <2>1, <2>2
<1> QED BY <1>1, <1>2, <1>3, <1>4 DEF Spread, s

LEMMA SpreadConcat ==
    ASSUME NEW u \in Nat, NEW fs, Firsts(u, fs), NEW s \in Seq(1..u), NEW t \in Seq(1..u), t # <<>>,
           Spread(s, fs), Spread(t, fs), s # <<>> => fs[t[1]] = s[Len(s)] + 1
    PROVE  Spread(s \o t, fs)
<1> DEFINE S == s \o t
           k == Len(s)
           l == Len(t)
<1>1. /\ k \in Nat /\ l \in Nat /\ l > 0 /\ Len(S) = k + l
      /\ \A i \in 1..k : S[i] = s[i] /\ s[i] \in 1..u
      /\ \A i \in 1..l : S[k + i] = t[i] /\ t[i] \in 1..u
      /\ (k > 0 => s # <<>>) /\ S[k + l] = t[l]
  <2>1. k \in Nat /\ l \in Nat /\ l > 0 /\ (k > 0 => s # <<>>)
    OBVIOUS
  <2>2. Len(S) = k + l
    OBVIOUS
  <2>3. \A i \in 1..k : S[i] = s[i] /\ s[i] \in 1..u
    OBVIOUS
  <2>4. \A i \in 1..l : S[k + i] = t[i] /\ t[i] \in 1..u
    OBVIOUS
  <2>5. l \in 1..l
    BY <2>1
  <2> HIDE DEF S, k, l
  <2> QED BY <2>1, <2>2, <2>3, <2>4, <2>5
<1>2. u \in Nat /\ \A n \in 1..u : fs[n] \in Nat \ {0} /\ fs[n] <= n
  BY FirstIs DEF Firsts
<1>3. /\ \A j \in 1..(k - 1) : fs[s[j + 1]] = s[j] + 1
      /\ \A i, j \in 1..k : i < j => s[i] < fs[s[j]]
      /\ \A j \in 1..k : \A q \in fs[s[j]]..s[k] : fs[s[j]] <= fs[q]
      /\ \A j \in 1..(l - 1) : fs[t[j + 1]] = t[j] + 1
      /\ \A i, j \in 1..l : i < j => t[i] < fs[t[j]]
      /\ \A j \in 1..l : \A q \in fs[t[j]]..t[l] : fs[t[j]] <= fs[q]
      /\ k > 0 => fs[t[1]] = s[k] + 1
  BY <1>1 DEF Spread
<1>4. \A i \in 1..(k + l) : i \in 1..k \/ (\E j \in 1..l : i = k + j)
  <2> TAKE i \in 1..(k + l)
  <2>1. i \in 1..k \/ (i - k \in 1..l /\ i = k + (i - k))
    BY <1>1
  <2> QED BY <2>1
<1> HIDE DEF S, k, l
<1>5. \A i \in 1..k : s[i] <= s[k] /\ s[k] \in 1..u
  <2> TAKE i \in 1..k
  <2>1. k \in 1..k
    BY <1>1
  <2>2. CASE i < k
    <3>1. s[i] < fs[s[k]] /\ s[i] \in 1..u /\ s[k] \in 1..u
      BY <1>1, <1>3, <2>1, <2>2
    <3>2. fs[s[k]] \in Nat /\ fs[s[k]] <= s[k]
      BY <1>2, <3>1
    <3> QED BY <1>2, <3>1, <3>2
  <2>3. CASE i = k
    BY <1>1, <2>1, <2>3
  <2> QED BY <1>1, <2>2, <2>3
<1>6. ASSUME NEW j \in 1..(Len(S) - 1) PROVE fs[S[j + 1]] = S[j] + 1
  <2>1. j \in Nat /\ j >= 1 /\ j < k + l
    BY <1>1
  <2>2. CASE j < k
    <3>1. j \in 1..(k - 1) /\ j + 1 \in 1..k /\ j \in 1..k
      BY <1>1, <2>1, <2>2
    <3> QED BY <1>1, <1>3, <3>1
  <2>3. CASE j = k
    <3>1. S[j + 1] = t[1] /\ S[j] = s[k] /\ k > 0
      <4>1. 1 \in 1..l /\ k \in 1..k
        BY <1>1, <2>3
      <4> QED BY <1>1, <2>3, <4>1
    <3> QED BY <1>3, <3>1
  <2>4. CASE j > k
    <3>1. j - k \in 1..(l - 1) /\ j - k \in 1..l /\ (j - k) + 1 \in 1..l
          /\ k + (j - k) = j /\ k + ((j - k) + 1) = j + 1
      BY <1>1, <2>1, <2>4
    <3>2. S[j] = t[j - k] /\ S[j + 1] = t[(j - k) + 1]
      BY <1>1, <3>1
    <3> QED BY <1>3, <3>1, <3>2
  <2> QED BY <1>1, <2>1, <2>2, <2>3, <2>4
<1>7. ASSUME NEW j \in 1..l, k > 0 PROVE s[k] < fs[t[j]]
  <2>1. 1 \in 1..l /\ k \in 1..k /\ fs[t[1]] = s[k] + 1 /\ t[1] \in 1..u
    BY <1>1, <1>3, <1>7
  <2>2. CASE j = 1
    BY <1>1, <2>1, <2>2
  <2>3. CASE j > 1
    <3>1. t[1] < fs[t[j]] /\ t[j] \in 1..u
      BY <1>1, <1>3, <2>1, <2>3
    <3>2. fs[t[1]] \in Nat /\ fs[t[1]] <= t[1] /\ fs[t[j]] \in Nat
      BY <1>2, <2>1, <3>1
    <3>3. s[k] \in 1..u
      BY <1>1, <2>1
    <3>4. PICK x, y, z, w : x = s[k] /\ y = fs[t[1]] /\ z = t[1] /\ w = fs[t[j]]
      OBVIOUS
    <3>5. x \in 1..u /\ y = x + 1 /\ y <= z /\ z < w /\ z \in 1..u /\ w \in Nat
      BY <2>1, <3>1, <3>2, <3>3, <3>4
    <3>6. x < w
      BY <1>2, <3>5
    <3> QED BY <3>4, <3>6
  <2> QED BY <1>1, <2>2, <2>3
<1>8. ASSUME NEW i \in 1..(k + l), NEW j \in 1..(k + l), i < j PROVE S[i] < fs[S[j]]
  <2>1. CASE i \in 1..k /\ j \in 1..k
    BY <1>1, <1>3, <1>8, <2>1
  <2>2. ASSUME i \in 1..k, NEW p \in 1..l, j = k + p PROVE S[i] < fs[S[j]]
    <3>1. S[i] = s[i] /\ S[j] = t[p] /\ s[i] \in 1..u /\ t[p] \in 1..u
      BY <1>1, <2>2
    <3>2. s[i] <= s[k] /\ s[k] \in 1..u /\ k > 0
      BY <1>1, <1>5, <2>2
    <3>3. s[k] < fs[t[p]] /\ fs[t[p]] \in Nat
      BY <1>2, <1>7, <3>1, <3>2
    <3>4. PICK x, y, z : x = s[i] /\ y = s[k] /\ z = fs[t[p]]
      OBVIOUS
    <3>5. x \in 1..u /\ y \in 1..u /\ z \in Nat /\ x <= y /\ y < z
      BY <3>1, <3>2, <3>3, <3>4
    <3>6. x < z
      BY <1>2, <3>5
    <3> QED BY <3>1, <3>4, <3>6
  <2>3. ASSUME NEW m \in 1..l, i = k + m, NEW p \in 1..l, j = k + p PROVE S[i] < fs[S[j]]
    <3>1. S[i] = t[m] /\ S[j] = t[p] /\ m < p
      BY <1>1, <1>8, <2>3
    <3> QED BY <1>3, <3>1
  <2>4. j \in 1..k => i \in 1..k
    BY <1>1, <1>8
  <2> QED BY <1>4, <2>1, <2>2, <2>3, <2>4
<1>9. ASSUME NEW j \in 1..(k + l), NEW q \in fs[S[j]]..S[k + l] PROVE fs[S[j]] <= fs[q]
  <2>1. l \in 1..l /\ S[k + l] = t[l] /\ t[l] \in 1..u
    BY <1>1
  <2>2. ASSUME j \in 1..k PROVE fs[S[j]] <= fs[q]
    <3>1. S[j] = s[j] /\ s[j] \in 1..u /\ k > 0 /\ s[j] <= s[k] /\ s[k] \in 1..u
      BY <1>1, <1>5, <2>2
    <3>2. S[j] = s[j] /\ s[j] \in 1..u /\ fs[s[j]] \in Nat \ {0} /\ k > 0 /\ s[j] <= s[k] /\ s[k] \in 1..u
          /\ fs[s[j]] <= s[j]
      BY <1>2, <3>1
    <3>3. CASE q <= s[k]
      <4>1. q \in fs[s[j]]..s[k]
        BY <2>1, <3>2, <3>3
      <4> QED BY <1>3, <2>2, <3>2, <4>1
    <3>4. CASE q > s[k]
      <4>1. fs[t[1]] = s[k] + 1 /\ 1 \in 1..l
        BY <1>1, <1>3, <3>2
      <4>2. q \in fs[t[1]]..t[l] /\ q \in 1..u
        <5>1. PICK x, y, z : x = s[k] /\ y = t[l] /\ z = fs[s[j]]
          OBVIOUS
        <5>2. x \in 1..u /\ y \in 1..u /\ z \in Nat \ {0} /\ q \in z..y
          BY <2>1, <3>2, <5>1
        <5>3. q \in Nat /\ q <= y /\ x + 1 <= q
          <6>1. q > x
            BY <3>4, <5>1
          <6> QED BY <1>2, <5>2, <6>1
        <5>4. q \in (x + 1)..y /\ q \in 1..u
          BY <5>2, <5>3
        <5> QED BY <4>1, <5>1, <5>4
      <4>3. fs[t[1]] <= fs[q] /\ fs[q] \in Nat
        BY <1>2, <1>3, <4>1, <4>2
      <4>4. PICK x, y, z, v, w :
                x = fs[s[j]] /\ y = s[j] /\ z = s[k] /\ v = fs[t[1]] /\ w = fs[q]
        OBVIOUS
      <4>5. /\ x \in Nat /\ y \in 1..u /\ z \in 1..u /\ w \in Nat
            /\ x <= y /\ y <= z /\ v = z + 1 /\ v <= w
        BY <3>2, <4>1, <4>3, <4>4
      <4>6. x <= w
        BY <1>2, <4>5
      <4> QED BY <3>2, <4>4, <4>6
    <3> QED BY <1>2, <2>1, <3>2, <3>3, <3>4
  <2>3. ASSUME NEW p \in 1..l, j = k + p PROVE fs[S[j]] <= fs[q]
    <3>1. S[j] = t[p]
      BY <1>1, <2>3
    <3> QED BY <1>3, <2>1, <3>1
  <2> QED BY <1>4, <2>2, <2>3
<1>10. Len(S) = k + l
  BY <1>1
<1>11. \A j \in 1..(Len(S) - 1) : fs[S[j + 1]] = S[j] + 1
  BY <1>6
<1>12. \A i, j \in 1..Len(S) : i < j => S[i] < fs[S[j]]
  BY <1>8, <1>10
<1>13. \A j \in 1..Len(S) : \A q \in fs[S[j]]..S[Len(S)] : fs[S[j]] <= fs[q]
  BY <1>9, <1>10, Zenon
<1> QED BY <1>11, <1>12, <1>13, Zenon DEF Spread, S

LEMMA SpreadGrows ==
    ASSUME NEW u \in Nat, NEW fs, Firsts(u, fs), NEW s \in Seq(1..u), Spread(s, fs),
           NEW C, NEW C2, NEW fs2, Later(u, C, fs, C2, fs2)
    PROVE  Spread(s, fs2)
<1>1. /\ Len(s) \in Nat /\ \A j \in 1..Len(s) : s[j] \in 1..u /\ s[Len(s)] \in 1..u
      /\ \A n \in 1..u : fs2[n] = fs[n] /\ fs[n] \in Nat \ {0} /\ fs[n] <= n
  BY FirstIs DEF Later
<1>2. \A j \in 1..(Len(s) - 1) : fs2[s[j + 1]] = s[j] + 1
  BY <1>1 DEF Spread
<1>3. \A i, j \in 1..Len(s) : i < j => s[i] < fs2[s[j]]
  BY <1>1 DEF Spread
<1>4. ASSUME NEW j \in 1..Len(s), NEW q \in fs2[s[j]]..s[Len(s)] PROVE fs2[s[j]] <= fs2[q]
  <2>1. q \in fs[s[j]]..s[Len(s)] /\ q \in 1..u
    BY <1>1
  <2> QED BY <1>1, <2>1 DEF Spread
<1> QED BY <1>2, <1>3, <1>4 DEF Spread
-----------------------------------------------------------------------------
\* List f: the finished parts of its construct lie from its first node on, and what
\* it holds itself follows them, up to node b.
Walks(f) == f.kind \notin {"control", "governed"}
Alone == {"globals", "params", "args"}
Holds(f, m, b, fs) == IF f.src = <<>> THEN m = b ELSE fs[f.src[1]] = m + 1 /\ f.src[Len(f.src)] = b
Tiled(f, b, C, fs) ==
    /\ Spread(f.src, fs)
    /\ f.kind \in Alone => f.kids = <<>>
    /\ \E m \in 0..b : Row(f.kids, Walks(f), f.from, m, C, fs) /\ Holds(f, m, b, fs)
Headed(f) ==
    /\ f.bare \/ f.src = <<>> => f.head = NULL
    /\ ~f.bare /\ f.src # <<>> => f.head = f.src[1]

LEMMA TiledNew ==
    ASSUME NEW f, f.src = <<>>, f.kids = <<>>, NEW a \in Nat, f.from = a + 1, NEW C, NEW fs
    PROVE  Tiled(f, a, C, fs)
<1>1. Spread(f.src, fs)
  BY SpreadEmpty
<1>2. a + 1 \in Nat \ {0} /\ (a + 1) - 1 = a /\ a \in 0..a
  OBVIOUS
<1>3. Row(<<>>, Walks(f), a + 1, (a + 1) - 1, C, fs)
  BY <1>2, RowEmpty
<1>4. Row(f.kids, Walks(f), f.from, a, C, fs)
  BY <1>2, <1>3
<1>5. Holds(f, a, a, fs)
  BY DEF Holds
<1> QED BY <1>1, <1>2, <1>4, <1>5 DEF Tiled

LEMMA TiledGrows ==
    ASSUME NEW u \in Nat, NEW fs, Firsts(u, fs), NEW f \in Frame(u), NEW b, NEW C, Tiled(f, b, C, fs),
           NEW C2, NEW fs2, Later(u, C, fs, C2, fs2)
    PROVE  Tiled(f, b, C2, fs2)
<1>1. f.src \in Seq(1..u) /\ f.kids \in Seq(1..u \cup {NULL})
  BY DEF Frame
<1>2. Spread(f.src, fs2)
  BY <1>1, SpreadGrows DEF Tiled
<1>3. PICK m \in 0..b : Row(f.kids, Walks(f), f.from, m, C, fs) /\ Holds(f, m, b, fs)
  BY DEF Tiled
<1>4. Row(f.kids, Walks(f), f.from, m, C2, fs2)
  BY <1>1, <1>3, RowGrows
<1>5. Holds(f, m, b, fs2)
  <2>1. f.src # <<>> => f.src[1] \in 1..u
    BY <1>1
  <2> QED BY <1>3, <2>1 DEF Holds, Later
<1> QED BY <1>2, <1>4, <1>5 DEF Tiled

LEMMA TiledAdd ==
    ASSUME NEW u \in Nat, NEW fs, Firsts(u, fs), NEW f \in Frame(u), NEW g,
           NEW t \in Seq(1..u), t # <<>>, Spread(t, fs), NEW x \in Nat \ {0}, fs[t[1]] = x,
           NEW C, Tiled(f, x - 1, C, fs),
           g.src = f.src \o t, g.kids = f.kids, g.from = f.from, g.kind = f.kind
    PROVE  Tiled(g, t[Len(t)], C, fs)
<1>1. f.src \in Seq(1..u)
  BY DEF Frame
<1>2. PICK s : s = f.src
  OBVIOUS
<1>3. PICK m \in 0..(x - 1) : Row(f.kids, Walks(f), f.from, m, C, fs) /\ Holds(f, m, x - 1, fs)
  BY DEF Tiled
<1>4. /\ s \in Seq(1..u) /\ Len(t) \in Nat /\ Len(t) > 0 /\ Len(s) \in Nat /\ (s = <<>> <=> Len(s) = 0)
      /\ t[1] \in 1..u /\ t[Len(t)] \in 1..u
      /\ Len(s \o t) = Len(s) + Len(t) /\ (s \o t)[Len(s) + Len(t)] = t[Len(t)]
      /\ (s = <<>> => (s \o t)[1] = t[1])
      /\ (s # <<>> => (s \o t)[1] = s[1])
  <2>1. s \in Seq(1..u)
    BY <1>1, <1>2
  <2>2. Len(t) \in Nat /\ Len(t) > 0 /\ Len(s) \in Nat /\ (s = <<>> <=> Len(s) = 0)
    BY <2>1
  <2>3. t[1] \in 1..u /\ t[Len(t)] \in 1..u
    BY <2>2
  <2>4. /\ Len(s \o t) = Len(s) + Len(t)
        /\ \A j \in 1..(Len(s) + Len(t)) :
              (s \o t)[j] = IF j <= Len(s) THEN s[j] ELSE t[j - Len(s)]
    BY <2>1, ConcatProperties
  <2>5. (s \o t)[Len(s) + Len(t)] = t[Len(t)]
    <3>1. /\ Len(s) + Len(t) \in 1..(Len(s) + Len(t)) /\ ~(Len(s) + Len(t) <= Len(s))
          /\ (Len(s) + Len(t)) - Len(s) = Len(t)
      BY <2>2
    <3> QED BY <2>4, <3>1
  <2>6. (s \o t)[1] = IF 1 <= Len(s) THEN s[1] ELSE t[1 - Len(s)]
    BY <2>2, <2>4
  <2>7. s = <<>> => (s \o t)[1] = t[1]
    BY <2>2, <2>6
  <2>8. s # <<>> => (s \o t)[1] = s[1]
    BY <2>2, <2>6
  <2> QED BY <2>1, <2>2, <2>3, <2>4, <2>5, <2>7, <2>8
<1>5. x - 1 <= t[Len(t)]
  <2>1. x <= t[1]
    <3>1. fs[t[1]] <= t[1]
      BY <1>4, FirstIs
    <3> QED BY <3>1
  <2>2. CASE Len(t) = 1
    <3>1. t[1] = t[Len(t)] /\ t[1] \in 1..u
      BY <1>4, <2>2
    <3> QED BY <2>1, <3>1
  <2>3. CASE Len(t) > 1
    <3>1. t[1] < fs[t[Len(t)]]
      <4>1. 1 \in 1..Len(t) /\ Len(t) \in 1..Len(t) /\ 1 < Len(t)
        BY <1>4, <2>3
      <4> QED BY <4>1 DEF Spread
    <3>2. fs[t[Len(t)]] <= t[Len(t)] /\ fs[t[Len(t)]] \in Nat
      BY <1>4, FirstIs
    <3> QED BY <1>4, <2>1, <3>1, <3>2
  <2>4. Len(t) = 1 \/ Len(t) > 1
    <3>1. PICK l : l = Len(t)
      OBVIOUS
    <3>2. l \in Nat /\ l > 0
      BY <1>4, <3>1
    <3>3. l = 1 \/ l > 1
      BY <3>2
    <3> QED BY <3>1, <3>3
  <2> QED BY <2>2, <2>3, <2>4
<1>6. Spread(g.src, fs)
  <2>1. Spread(s, fs) /\ g.src = s \o t
    BY <1>2 DEF Tiled
  <2>2. s # <<>> => fs[t[1]] = s[Len(s)] + 1
    BY <1>2, <1>3, <1>4 DEF Holds
  <2> QED BY <1>4, <2>1, <2>2, SpreadConcat
<1>7. m \in 0..t[Len(t)]
  BY <1>4, <1>5
<1>8. Holds(g, m, t[Len(t)], fs)
  <2>1. g.src = s \o t /\ g.src # <<>>
    <3>1. g.src = s \o t /\ Len(s \o t) # 0
      BY <1>2, <1>4
    <3> QED BY <3>1
  <2>2. fs[g.src[1]] = m + 1
    <3>1. CASE s = <<>>
      <4>1. m = x - 1
        BY <1>2, <1>3, <3>1 DEF Holds
      <4> QED BY <1>4, <2>1, <3>1, <4>1
    <3>2. CASE s # <<>>
      <4>1. fs[s[1]] = m + 1
        BY <1>2, <1>3, <3>2 DEF Holds
      <4> QED BY <1>4, <2>1, <3>2, <4>1
    <3> QED BY <3>1, <3>2
  <2> QED BY <1>4, <2>1, <2>2 DEF Holds
<1>9. Walks(g) = Walks(f) /\ (g.kind \in Alone => g.kids = <<>>)
  BY DEF Walks, Tiled
<1>10. Row(g.kids, Walks(g), g.from, m, C, fs)
  BY <1>3, <1>9
<1> QED BY <1>6, <1>7, <1>8, <1>9, <1>10 DEF Tiled

\* When the list ends it is one more part of its construct.
LEMMA TiledEnds ==
    ASSUME NEW u \in Nat, NEW fs, Firsts(u, fs), NEW f \in Frame(u), NEW b \in Nat, NEW C,
           Tiled(f, b, C, fs), Walks(f), Headed(f), NEW C2, C \subseteq C2, f \in C2
    PROVE  /\ Row(Append(f.kids, f.head), TRUE, f.from, b, C2, fs)
           /\ f.kind \in Alone => Row(<<f.head>>, TRUE, f.from, b, C2, fs)
<1>1. /\ f.kids \in Seq(1..u \cup {NULL}) /\ f.head \in 1..u \cup {NULL} /\ f.from \in Nat \ {0}
      /\ f.src \in Seq(1..u)
  BY DEF Frame
<1>2. PICK m \in 0..b : Row(f.kids, Walks(f), f.from, m, C, fs) /\ Holds(f, m, b, fs)
  BY DEF Tiled
<1>3. Walks(f) = TRUE
  BY DEF Walks
<1>4. Row(f.kids, TRUE, f.from, m, C2, fs)
  <2>1. Row(f.kids, TRUE, f.from, m, C, fs)
    BY <1>2, <1>3
  <2>2. Later(u, C, fs, C2, fs)
    BY DEF Later
  <2> QED BY <1>1, <2>1, <2>2, RowGrows
<1>5. Row(<<f.head>>, TRUE, m + 1, b, C2, fs)
  <2>1. m + 1 \in Nat \ {0} /\ m + 1 <= b + 1 /\ m \in Nat
    OBVIOUS
  <2>2. f.head = NULL => Lost(C2) \/ b = (m + 1) - 1
    <3>1. CASE f.src = <<>>
      BY <1>2, <2>1, <3>1 DEF Holds
    <3>2. CASE f.src # <<>> /\ f.bare
      BY <3>2 DEF Lost
    <3>3. CASE f.src # <<>> /\ ~f.bare
      <4>1. f.src[1] \in 1..u /\ f.head = f.src[1]
        BY <1>1, <3>3 DEF Headed
      <4> QED BY <4>1, FirstIs
    <3> QED BY <3>1, <3>2, <3>3
  <2>3. f.head # NULL => fs[f.head] = m + 1 /\ b # 0 /\ Ends(C2, TRUE, f.head, b)
    <3>1. SUFFICES ASSUME f.head # NULL PROVE fs[f.head] = m + 1 /\ b # 0 /\ Ends(C2, TRUE, f.head, b)
      OBVIOUS
    <3>2. f.src # <<>> /\ ~f.bare /\ f.head = f.src[1]
      BY <3>1 DEF Headed
    <3>3. fs[f.src[1]] = m + 1 /\ f.src[Len(f.src)] = b
      BY <1>2, <3>2 DEF Holds
    <3>4. b # 0
      <4>1. f.src[Len(f.src)] \in 1..u
        BY <1>1, <3>2
      <4> QED BY <3>3, <4>1
    <3> QED BY <3>2, <3>3, <3>4 DEF Ends
  <2> QED BY <1>1, <2>1, <2>2, <2>3, RowOne
<1>6. <<f.head>> \in Seq(1..u \cup {NULL}) /\ m \in Nat
  BY <1>1
<1>7. Row(f.kids \o <<f.head>>, TRUE, f.from, b, C2, fs)
  BY <1>1, <1>4, <1>5, <1>6, RowConcat
<1>8. f.kids \o <<f.head>> = Append(f.kids, f.head)
  BY <1>1, AppendIsConcat
<1>9. f.kind \in Alone => f.kids \o <<f.head>> = <<f.head>>
  BY <1>6, ConcatEmptySeq DEF Tiled
<1> QED BY <1>7, <1>8, <1>9
-----------------------------------------------------------------------------
\* What a command does to the list it is put in, or to the construct it is part of.
LEMMA ReducedIs ==
    ASSUME NEW u \in Nat, NEW f \in Frame(u), NEW c
    PROVE  /\ Reduced(f, c).from = f.from
           /\ f.kind = "control" => /\ Reduced(f, c).kind = "governed" /\ Reduced(f, c).src = f.src
                                    /\ Reduced(f, c).kids = Append(f.kids, c)
           /\ f.kind = "vars" => /\ Reduced(f, c).kind = "cmds" /\ Reduced(f, c).src = Written(c)
                                 /\ Reduced(f, c).kids = Append(f.kids, f.head)
           /\ f.kind = "cmds" => /\ Reduced(f, c).kind = "cmds" /\ Reduced(f, c).src = f.src \o Written(c)
                                 /\ Reduced(f, c).kids = f.kids
<1>1. CASE f.kind = "control"
  BY <1>1 DEF Reduced, Frame
<1>2. CASE f.kind = "vars"
  <2>1. PICK b : b = (c = NULL)
    OBVIOUS
  <2>2. Reduced(f, c) = [f EXCEPT !.kind = "cmds", !.head = c, !.src = Written(c), !.bare = b,
                                  !.kids = Append(f.kids, f.head)]
    BY <1>2, <2>1 DEF Reduced, WithCommand, Frame
  <2>3. PICK g : g = Reduced(f, c)
    OBVIOUS
  <2>4. /\ g.kind = "cmds" /\ g.src = Written(c) /\ g.kids = Append(f.kids, f.head)
        /\ g.from = f.from
    BY <2>2, <2>3 DEF Frame
  <2> QED BY <1>2, <2>3, <2>4
<1>3. CASE f.kind \notin {"control", "vars"}
  <2>1. Reduced(f, c) = [f EXCEPT !.src = f.src \o Written(c)]
    BY <1>3 DEF Reduced, WithCommand
  <2>2. PICK g : g = Reduced(f, c)
    OBVIOUS
  <2>3. g.kind = f.kind /\ g.src = f.src \o Written(c) /\ g.kids = f.kids /\ g.from = f.from
    BY <2>1, <2>2 DEF Frame
  <2> QED BY <1>3, <2>2, <2>3
<1> QED BY <1>1, <1>2, <1>3

\* Command c is the empty one, or is what was read from node x on, up to node v.
Reads(c, x, v, fs) ==
    /\ c = NULL => v = x - 1
    /\ c # NULL => c = v /\ fs[v] = x /\ \A q \in x..v : x <= fs[q]

LEMMA TiledReduce ==
    ASSUME NEW u \in Nat, NEW fs, Firsts(u, fs), NEW f \in Frame(u), f.kind \in Started,
           Steady(f), Headed(f), NEW x \in Nat \ {0}, NEW C, Tiled(f, x - 1, C, fs),
           NEW v \in 0..u, NEW c \in 1..u \cup {NULL}, Reads(c, x, v, fs),
           NEW C2, C \cup Ended(f) \subseteq C2
    PROVE  Tiled(Reduced(f, c), v, C2, fs)
<1>1. /\ f.kids \in Seq(1..u \cup {NULL}) /\ f.head \in 1..u \cup {NULL} /\ f.from \in Nat \ {0}
      /\ f.src \in Seq(1..u)
  BY DEF Frame
<1>2. PICK g : g = Reduced(f, c)
  OBVIOUS
<1>3. /\ c = NULL => v = x - 1
      /\ c # NULL => c = v /\ fs[v] = x /\ (\A q \in x..v : x <= fs[q]) /\ v \in 1..u /\ x <= v
      /\ x - 1 \in Nat /\ x - 1 <= v
  <2>1. c # NULL => v \in 1..u /\ fs[v] <= v
    BY FirstIs DEF Reads
  <2> QED BY <2>1 DEF Reads
<1>4. Later(u, C, fs, C2, fs)
  BY DEF Later
<1>5. g.from = f.from
  BY <1>2, ReducedIs
<1>6. CASE f.kind = "control"
  <2>1. g.kind = "governed" /\ g.src = f.src /\ g.kids = Append(f.kids, c)
    BY <1>2, <1>6, ReducedIs
  <2>2. f.src = <<>> /\ Walks(f) = FALSE /\ Walks(g) = FALSE
    BY <1>6, <2>1 DEF Steady, Walks
  <2>3. Row(f.kids, FALSE, f.from, x - 1, C2, fs)
    <3>1. PICK m \in 0..(x - 1) : Row(f.kids, Walks(f), f.from, m, C, fs) /\ Holds(f, m, x - 1, fs)
      BY DEF Tiled
    <3>2. Row(f.kids, FALSE, f.from, x - 1, C, fs)
      BY <2>2, <3>1 DEF Holds
    <3> QED BY <1>1, <1>4, <3>2, RowGrows
  <2>4. Row(<<c>>, FALSE, (x - 1) + 1, v, C2, fs)
    <3>1. /\ c = NULL => v = ((x - 1) + 1) - 1
          /\ c # NULL => fs[c] = (x - 1) + 1 /\ v # 0 /\ Ends(C2, FALSE, c, v)
          /\ (x - 1) + 1 \in Nat \ {0} /\ (x - 1) + 1 <= v + 1 /\ v \in Nat
      BY <1>3 DEF Ends
    <3> QED BY <3>1, RowOne
  <2>5. <<c>> \in Seq(1..u \cup {NULL}) /\ v \in Nat
    OBVIOUS
  <2>6. Row(f.kids \o <<c>>, FALSE, f.from, v, C2, fs)
    BY <1>1, <1>3, <2>3, <2>4, <2>5, RowConcat
  <2>7. Row(g.kids, Walks(g), g.from, v, C2, fs)
    <3>1. f.kids \o <<c>> = g.kids
      BY <1>1, <2>1, AppendIsConcat
    <3> QED BY <1>5, <2>2, <2>6, <3>1
  <2>8. Spread(g.src, fs) /\ Holds(g, v, v, fs) /\ v \in 0..v /\ g.kind \notin Alone
    BY <2>1, <2>2, SpreadEmpty DEF Holds, Alone
  <2> QED BY <1>2, <2>7, <2>8 DEF Tiled
<1>7. CASE f.kind = "vars"
  <2>1. g.kind = "cmds" /\ g.src = Written(c) /\ g.kids = Append(f.kids, f.head)
    BY <1>2, <1>7, ReducedIs
  <2>2. Walks(f) /\ Walks(g) = TRUE /\ f \in C2 /\ C \subseteq C2 /\ g.kind \notin Alone
    BY <1>7, <2>1 DEF Walks, Ended, Alone
  <2>3. Row(g.kids, TRUE, g.from, x - 1, C2, fs)
    <3>1. Row(Append(f.kids, f.head), TRUE, f.from, x - 1, C2, fs)
      BY <1>3, <2>2, TiledEnds
    <3> QED BY <1>5, <2>1, <3>1
  <2>4. CASE c = NULL
    <3>1. g.src = <<>> /\ v = x - 1
      BY <1>3, <2>1, <2>4 DEF Written
    <3>2. Spread(g.src, fs) /\ Holds(g, v, v, fs) /\ v \in 0..v
      BY <3>1, SpreadEmpty DEF Holds
    <3> QED BY <1>2, <2>2, <2>3, <3>1, <3>2 DEF Tiled
  <2>5. CASE c # NULL
    <3>1. g.src = <<v>> /\ fs[v] = x /\ v \in 1..u /\ x <= v /\ \A q \in x..v : x <= fs[q]
      BY <1>3, <2>1, <2>5 DEF Written
    <3>2. Spread(g.src, fs)
      <4>1. v \in Nat /\ fs[v] <= v /\ \A q \in fs[v]..v : fs[v] <= fs[q]
        BY <3>1
      <4> QED BY <3>1, <4>1, SpreadOne
    <3>3. Holds(g, x - 1, v, fs) /\ x - 1 \in 0..v
      <4>1. g.src # <<>> /\ g.src[1] = v /\ g.src[Len(g.src)] = v
        BY <3>1
      <4> QED BY <1>3, <3>1, <4>1 DEF Holds
    <3> QED BY <1>2, <2>2, <2>3, <3>2, <3>3 DEF Tiled
  <2> QED BY <2>4, <2>5
<1>8. CASE f.kind = "cmds"
  <2>1. g.kind = f.kind /\ g.src = f.src \o Written(c) /\ g.kids = f.kids
    BY <1>2, <1>8, ReducedIs
  <2>2. Tiled(f, x - 1, C2, fs)
    BY <1>4, TiledGrows
  <2>3. CASE c = NULL
    <3>1. g.src = f.src /\ v = x - 1
      BY <1>1, <1>3, <2>1, <2>3, ConcatEmptySeq DEF Written
    <3> QED BY <1>2, <1>5, <2>1, <2>2, <3>1 DEF Tiled, Holds, Walks
  <2>4. CASE c # NULL
    <3>1. PICK t : t = <<v>>
      OBVIOUS
    <3>2. /\ g.src = f.src \o t /\ fs[v] = x /\ v \in 1..u /\ x <= v /\ \A q \in x..v : x <= fs[q]
      BY <1>3, <2>1, <2>4, <3>1 DEF Written
    <3>3. Spread(t, fs)
      <4>1. v \in Nat /\ fs[v] <= v /\ \A q \in fs[v]..v : fs[v] <= fs[q]
        BY <3>2
      <4> QED BY <3>1, <4>1, SpreadOne
    <3>4. t \in Seq(1..u) /\ t # <<>> /\ t[1] = v /\ t[Len(t)] = v
      BY <3>1, <3>2
    <3>5. Tiled(g, t[Len(t)], C2, fs)
      BY <1>5, <2>1, <2>2, <3>2, <3>3, <3>4, TiledAdd
    <3> QED BY <1>2, <3>4, <3>5
  <2> QED BY <2>3, <2>4
<1> QED BY <1>6, <1>7, <1>8 DEF Started
-----------------------------------------------------------------------------
\* What was read since the construct of an open list began belongs to it.
Inner(f, u, fs) == \A q \in f.from..u : f.from <= fs[q]

\* The open lists follow each other, up to node a.
Upto(P, j, a) == IF j < Len(P) THEN P[j + 1].from - 1 ELSE a - 1
Under(P, a, u, C, fs) ==
    /\ \A j \in 1..Len(P) : P[j].from <= a /\ Inner(P[j], u, fs) /\ Tiled(P[j], Upto(P, j, a), C, fs)
    /\ \A i, j \in 1..Len(P) : i < j => P[i].from <= P[j].from
    /\ P # <<>> => P[1].from = 1

LEMMA UnderTop ==
    ASSUME NEW w \in Nat, NEW P \in Seq(Frame(w)), NEW f \in Frame(w), NEW a \in Nat, NEW u, NEW C, NEW fs
    PROVE  Under(Append(P, f), a, u, C, fs) <=>
              /\ Under(P, f.from, u, C, fs) /\ f.from <= a /\ Inner(f, u, fs) /\ Tiled(f, a - 1, C, fs)
              /\ P = <<>> => f.from = 1
<1> DEFINE S == Append(P, f)
           l == Len(P)
<1>1. /\ l \in Nat /\ Len(S) = l + 1 /\ S[l + 1] = f /\ \A j \in 1..l : S[j] = P[j] /\ P[j] \in Frame(w)
  OBVIOUS
<1>7. S # <<>> /\ (P = <<>> => S[1] = f) /\ (P # <<>> => S[1] = P[1])
  <2>1. CASE P = <<>>
    <3>1. S = <<f>>
      BY <2>1
    <3> QED BY <2>1, <3>1
  <2>2. CASE P # <<>>
    <3>1. 1 \in 1..l
      BY <1>1, <2>2
    <3>2. S[1] = P[1] /\ Len(S) # 0
      BY <1>1, <3>1
    <3> QED BY <2>2, <3>2
  <2> QED BY <2>1, <2>2
<1>2. f.from \in Nat /\ \A j \in 1..l : P[j].from \in Nat
  BY <1>1 DEF Frame
<1>3. /\ \A j \in 1..l : Upto(S, j, a) = Upto(P, j, f.from)
      /\ Upto(S, l + 1, a) = a - 1
  <2>1. ASSUME NEW j \in 1..l PROVE Upto(S, j, a) = Upto(P, j, f.from)
    <3>1. CASE j < l
      <4>1. j + 1 \in 1..l /\ j < Len(S) /\ S[j + 1] = P[j + 1]
        BY <1>1, <3>1
      <4> QED BY <3>1, <4>1 DEF Upto
    <3>2. CASE j = l
      <4>1. j < Len(S) /\ S[j + 1] = f /\ ~(j < Len(P))
        BY <1>1, <3>2
      <4> QED BY <4>1 DEF Upto
    <3> QED BY <1>1, <3>1, <3>2
  <2>2. ~(l + 1 < Len(S))
    BY <1>1
  <2> QED BY <2>1, <2>2 DEF Upto
<1>4. 1..Len(S) = 1..l \cup {l + 1}
  BY <1>1
<1> HIDE DEF S
<1>5. ASSUME Under(S, a, u, C, fs)
      PROVE  /\ Under(P, f.from, u, C, fs) /\ f.from <= a /\ Inner(f, u, fs) /\ Tiled(f, a - 1, C, fs)
             /\ P = <<>> => f.from = 1
  <2>5. (P # <<>> => P[1].from = 1) /\ (P = <<>> => f.from = 1)
    BY <1>5, <1>7 DEF Under
  <2>1. /\ \A j \in 1..Len(S) : S[j].from <= a /\ Inner(S[j], u, fs) /\ Tiled(S[j], Upto(S, j, a), C, fs)
        /\ \A i, j \in 1..Len(S) : i < j => S[i].from <= S[j].from
    BY <1>5 DEF Under
  <2>2. f.from <= a /\ Inner(f, u, fs) /\ Tiled(f, a - 1, C, fs)
    <3>1. l + 1 \in 1..Len(S)
      BY <1>4
    <3> QED BY <1>1, <1>3, <2>1, <3>1
  <2>3. ASSUME NEW j \in 1..l
        PROVE  P[j].from <= f.from /\ Inner(P[j], u, fs) /\ Tiled(P[j], Upto(P, j, f.from), C, fs)
    <3>1. j \in 1..Len(S) /\ l + 1 \in 1..Len(S) /\ j < l + 1
      BY <1>1
    <3> QED BY <1>1, <1>3, <2>1, <3>1
  <2>4. ASSUME NEW i \in 1..l, NEW j \in 1..l, i < j PROVE P[i].from <= P[j].from
    BY <1>1, <1>4, <2>1, <2>4
  <2> QED BY <2>2, <2>3, <2>4, <2>5 DEF Under
<1>6. ASSUME Under(P, f.from, u, C, fs), f.from <= a, Inner(f, u, fs), Tiled(f, a - 1, C, fs),
             P = <<>> => f.from = 1
      PROVE  Under(S, a, u, C, fs)
  <2>1. /\ \A j \in 1..l : P[j].from <= f.from /\ Inner(P[j], u, fs) /\ Tiled(P[j], Upto(P, j, f.from), C, fs)
        /\ \A i, j \in 1..l : i < j => P[i].from <= P[j].from
    BY <1>6 DEF Under
  <2>2. ASSUME NEW j \in 1..Len(S)
        PROVE  S[j].from <= a /\ Inner(S[j], u, fs) /\ Tiled(S[j], Upto(S, j, a), C, fs)
    <3>1. CASE j \in 1..l
      <4>1. S[j] = P[j] /\ P[j].from \in Nat /\ P[j].from <= a
        BY <1>1, <1>2, <1>6, <2>1, <3>1
      <4> QED BY <1>3, <2>1, <3>1, <4>1
    <3>2. CASE j = l + 1
      BY <1>1, <1>3, <1>6, <3>2
    <3> QED BY <1>4, <3>1, <3>2
  <2>3. ASSUME NEW i \in 1..Len(S), NEW j \in 1..Len(S), i < j PROVE S[i].from <= S[j].from
    <3>1. CASE j \in 1..l
      <4>1. i \in 1..l
        BY <1>1, <2>3, <3>1
      <4> QED BY <1>1, <2>1, <2>3, <3>1, <4>1
    <3>2. CASE j = l + 1
      <4>1. i \in 1..l
        BY <1>1, <2>3, <3>2
      <4> QED BY <1>1, <2>1, <3>2, <4>1
    <3> QED BY <1>4, <3>1, <3>2
  <2>4. S # <<>> => S[1].from = 1
    BY <1>6, <1>7 DEF Under
  <2> QED BY <2>2, <2>3, <2>4 DEF Under
<1> QED BY <1>5, <1>6 DEF S

\* Nodes u + 1 to v are of constructs that began at node a or later.
LEMMA UnderGrows ==
    ASSUME NEW u \in Nat, NEW fs, Firsts(u, fs), NEW P \in Seq(Frame(u)), NEW a \in Nat, NEW C,
           Under(P, a, u, C, fs), NEW C2, NEW fs2, Later(u, C, fs, C2, fs2),
           NEW v \in Nat, \A q \in (u + 1)..v : fs2[q] \in Nat /\ a <= fs2[q]
    PROVE  Under(P, a, v, C2, fs2)
<1>1. ASSUME NEW j \in 1..Len(P)
      PROVE  P[j].from <= a /\ Inner(P[j], v, fs2) /\ Tiled(P[j], Upto(P, j, a), C2, fs2)
  <2>1. /\ P[j] \in Frame(u) /\ P[j].from <= a /\ Inner(P[j], u, fs)
        /\ Tiled(P[j], Upto(P, j, a), C, fs)
    BY DEF Under
  <2>2. P[j].from \in Nat \ {0}
    BY <2>1 DEF Frame
  <2>3. Tiled(P[j], Upto(P, j, a), C2, fs2)
    BY <2>1, TiledGrows
  <2>4. ASSUME NEW q \in P[j].from..v PROVE P[j].from <= fs2[q]
    <3>1. CASE q <= u
      <4>1. q \in P[j].from..u /\ q \in 1..u
        BY <2>2, <3>1
      <4>2. fs2[q] = fs[q]
        BY <4>1 DEF Later
      <4> QED BY <2>1, <4>1, <4>2 DEF Inner
    <3>2. CASE q > u
      <4>1. q \in (u + 1)..v
        BY <2>2, <3>2
      <4> QED BY <2>1, <2>2, <4>1
    <3> QED BY <2>2, <3>1, <3>2
  <2> QED BY <2>1, <2>3, <2>4 DEF Inner
<1> QED BY <1>1 DEF Under

\* What is built: every node with what hangs on it, and the finished lists.
NodeFits(n, C, tr, fs) ==
    /\ \A q \in fs[n]..n : fs[n] <= fs[q]
    /\ Row(tr[n].kids, tr[n].kind # "control", fs[n], n - 1, C, fs)
Grown(u, C, tr, fs) ==
    /\ Firsts(u, fs)
    /\ \A n \in 1..u : NodeFits(n, C, tr, fs)
    /\ \A n \in Node : n > u => tr[n].kids = <<>>
    /\ \A f \in C : f \in Frame(u) /\ Spread(f.src, fs)

\* The lists that C2 has more than C.
Settled(C, C2, v, fs) == \A f \in C2 \ C : f \in Frame(v) /\ Spread(f.src, fs)

\* The tree tr2 is tr with the nodes from u + 1 to v, and C2 is C with more lists.
Raised(u, C, tr, v, C2, tr2, fs2) ==
    /\ \A n \in 1..u : tr[n].kids \in Seq(1..u \cup {NULL}) /\ tr2[n] = tr[n]
    /\ \A n \in Node : n > v => tr2[n].kids = tr[n].kids
    /\ \A n \in (u + 1)..v : NodeFits(n, C2, tr2, fs2)
    /\ Settled(C, C2, v, fs2)

LEMMA GrownGrows ==
    ASSUME NEW u \in Nat, NEW C, NEW tr, NEW fs, Grown(u, C, tr, fs),
           NEW v \in Nat, u <= v, NEW C2, NEW tr2, NEW fs2, Firsts(v, fs2), Later(u, C, fs, C2, fs2),
           Raised(u, C, tr, v, C2, tr2, fs2)
    PROVE  Grown(v, C2, tr2, fs2)
<1>1. Firsts(u, fs)
  BY DEF Grown
<1>2. ASSUME NEW n \in 1..v PROVE NodeFits(n, C2, tr2, fs2)
  <2>1. CASE n \in 1..u
    <3>1. NodeFits(n, C, tr, fs) /\ tr2[n] = tr[n] /\ fs2[n] = fs[n] /\ fs[n] \in Nat \ {0}
      BY <1>1, <2>1, FirstIs DEF Grown, Later, Raised
    <3>2. Row(tr2[n].kids, tr2[n].kind # "control", fs2[n], n - 1, C2, fs2)
      <4>1. PICK K, b : K = tr[n].kids /\ b = (tr[n].kind # "control")
        OBVIOUS
      <4>2. Row(K, b, fs[n], n - 1, C, fs) /\ K \in Seq(1..u \cup {NULL})
        BY <2>1, <3>1, <4>1 DEF NodeFits, Raised
      <4>3. Row(K, b, fs[n], n - 1, C2, fs2)
        BY <4>2, RowGrows
      <4> QED BY <3>1, <4>1, <4>3
    <3>3. ASSUME NEW q \in fs2[n]..n PROVE fs2[n] <= fs2[q]
      <4>1. q \in fs[n]..n /\ q \in 1..u
        BY <2>1, <3>1
      <4> QED BY <3>1, <4>1 DEF NodeFits, Later
    <3> QED BY <3>2, <3>3 DEF NodeFits
  <2>2. CASE n \in (u + 1)..v
    BY <2>2 DEF Raised
  <2> QED BY <2>1, <2>2
<1>3. ASSUME NEW f \in C2 PROVE f \in Frame(v) /\ Spread(f.src, fs2)
  <2>1. CASE f \in C
    <3>1. f \in Frame(u) /\ Spread(f.src, fs) /\ f.src \in Seq(1..u)
      BY <2>1 DEF Grown, Frame
    <3>2. f \in Frame(v)
      BY <3>1, FrameGrows
    <3>3. Spread(f.src, fs2)
      BY <1>1, <3>1, SpreadGrows
    <3> QED BY <3>2, <3>3
  <2> QED BY <2>1 DEF Raised, Settled
<1>4. \A n \in Node : n > v => tr2[n].kids = <<>>
  BY DEF Grown, Node, Raised
<1> QED BY <1>2, <1>3, <1>4 DEF Grown
-----------------------------------------------------------------------------
\* What holds while the parser runs: of the nodes, the finished lists and the stack.
Going == Grown(used, closed, tree, first) /\ Under(stack, used + 1, used, closed, first)

\* The stack is list f on the lists P.
OpenAt(P, f, S) ==
    /\ P \in Seq(Frame(used)) /\ f \in Frame(used) /\ S = Append(P, f)
    /\ Front(S) = P /\ Last(S) = f /\ Len(S) = Len(P) + 1 /\ Len(P) \in Nat
    /\ P # <<>> => Len(P) > 0 /\ S[Len(S) - 1] = Last(P)
    /\ Steady(f) /\ Headed(f)

LEMMA OpenedBelow ==
    ASSUME IInv, NEW P \in Seq(Frame(used)), P # <<>>, Len(P) <= Len(stack),
           \A j \in 1..Len(P) : P[j] = stack[j]
    PROVE  \E Q, h : OpenAt(Q, h, P)
<1>1. PICK Q \in Seq(Frame(used)), h \in Frame(used) :
          /\ P = Append(Q, h) /\ Front(P) = Q /\ Last(P) = h
          /\ Len(P) = Len(Q) + 1 /\ Len(Q) \in Nat
          /\ (Q # <<>> => Len(Q) > 0 /\ P[Len(P) - 1] = Last(Q))
  BY StackIs
<1>2. h = stack[Len(P)] /\ Len(P) \in 1..Len(stack)
  <2>1. Len(stack) \in Nat
    BY DEF IInv, Whole, Sound
  <2>2. Len(P) \in 1..Len(P) /\ Len(P) \in 1..Len(stack) /\ P[Len(P)] = h
    BY <1>1, <2>1
  <2> QED BY <2>2
<1>3. Steady(h)
  BY <1>2 DEF IInv, Whole, Nested
<1>4. Headed(h)
  <2>1. h \in Lists
    <3>1. stack \in Seq(Frame(used))
      BY DEF IInv, Whole, Sound
    <3> QED BY <1>2, <3>1 DEF Lists, Range
  <2>2. Fits(h, next, used)
    BY <2>1, Placed
  <2> QED BY <2>2 DEF Fits, Headed
<1> QED BY <1>1, <1>3, <1>4 DEF OpenAt

LEMMA GoingTop ==
    ASSUME IInv, Going
    PROVE  /\ used \in Nat /\ used <= MaxNodes /\ MaxNodes \in Nat /\ used + 1 \in Nat \ {0}
           /\ Firsts(used, first) /\ (used + 1) - 1 = used
           /\ \A n \in 1..used : tree[n].kids \in Seq(1..used \cup {NULL})
           /\ \E P, f : /\ OpenAt(P, f, stack) /\ Top = f
                        /\ f.from \in Nat \ {0} /\ f.from <= used + 1
                        /\ Inner(f, used, first) /\ Tiled(f, used, closed, first)
                        /\ Under(P, f.from, used, closed, first)
                        /\ f.kind # "globals" => P # <<>> /\ Within(f, Last(P)) /\ \E Q, h : OpenAt(Q, h, P)
<1>1. /\ used \in Nat /\ used <= MaxNodes /\ MaxNodes \in Nat /\ used + 1 \in Nat \ {0}
      /\ (used + 1) - 1 = used
  BY Opened
<1>2. Firsts(used, first)
  BY DEF Going, Grown
<1>3. \A n \in 1..used : tree[n].kids \in Seq(1..used \cup {NULL})
  BY <1>1 DEF IInv, Typed, Node
<1>4. stack \in Seq(Frame(used)) /\ stack # <<>>
  BY DEF IInv, Whole, Sound, Nested
<1>5. PICK P, f : OpenAt(P, f, stack)
  <2>1. Len(stack) <= Len(stack)
    BY <1>4
  <2> QED BY <1>4, <2>1, OpenedBelow
<1>6. f.from \in Nat \ {0}
  BY <1>5 DEF OpenAt, Frame
<1>7. /\ Under(P, f.from, used, closed, first) /\ f.from <= used + 1
      /\ Inner(f, used, first) /\ Tiled(f, used, closed, first)
  <2>1. Under(Append(P, f), used + 1, used, closed, first)
    BY <1>5 DEF Going, OpenAt
  <2>2. P \in Seq(Frame(used)) /\ f \in Frame(used)
    BY <1>5 DEF OpenAt
  <2> QED BY <1>1, <2>1, <2>2, UnderTop
<1>8. ASSUME f.kind # "globals" PROVE P # <<>> /\ Within(f, Last(P)) /\ \E Q, h : OpenAt(Q, h, P)
  <2>1. Whole(Append(P, f), closed, next, used, type, asked) /\ P \in Seq(Frame(used)) /\ f \in Frame(used)
    BY <1>5 DEF OpenAt, IInv
  <2>2. P # <<>> /\ Within(f, Last(P))
    BY <1>1, <1>8, <2>1, WholeTop
  <2>3. Len(P) <= Len(stack) /\ \A j \in 1..Len(P) : P[j] = stack[j]
    BY <1>5, <2>1 DEF OpenAt
  <2> QED BY <2>1, <2>2, <2>3, OpenedBelow
<1>9. Top = f
  BY <1>5 DEF OpenAt, Top
<1> QED BY <1>1, <1>2, <1>3, <1>5, <1>6, <1>7, <1>8, <1>9

\* What a step makes of first and tree.
LEMMA LeavesAre ==
    ASSUME IInv, Going, Leaves, used' \in Nat, used <= used', used' <= MaxNodes, closed \subseteq closed'
    PROVE  /\ Firsts(used', first') /\ Later(used, closed, first, closed', first')
           /\ \A n \in (used + 1)..used' : first'[n] = n
           /\ Settled(closed, closed', used', first') =>
                 Grown(used', closed', tree', first')
<1>1. /\ used \in Nat /\ Firsts(used, first) /\ MaxNodes \in Nat
      /\ \A n \in 1..used : tree[n].kids \in Seq(1..used \cup {NULL})
  BY GoingTop
<1>2. /\ \A n \in Node : first'[n] = IF n \in (used + 1)..used' THEN n ELSE first[n]
      /\ first' \in [Node -> Node] /\ tree' = tree
  BY <1>1 DEF Leaves, Firsts
<1>3. \A n \in (used + 1)..used' : n \in Node /\ first'[n] = n
  BY <1>1, <1>2 DEF Node
<1>4. \A n \in 1..used : first'[n] = first[n]
  BY <1>1, <1>2 DEF Node
<1>5. Firsts(used', first')
  <2>1. ASSUME NEW n \in 1..used' PROVE first'[n] <= n
    <3>1. CASE n \in 1..used
      BY <1>1, <1>4, <3>1 DEF Firsts
    <3>2. CASE n \in (used + 1)..used'
      BY <1>3, <3>2
    <3> QED BY <1>1, <3>1, <3>2
  <2> QED BY <1>2, <2>1 DEF Firsts
<1>6. Later(used, closed, first, closed', first')
  BY <1>4 DEF Later
<1>7. ASSUME NEW n \in (used + 1)..used' PROVE NodeFits(n, closed', tree', first')
  <2>1. tree'[n].kids = <<>> /\ first'[n] = n /\ n \in Nat \ {0}
    BY <1>1, <1>2, <1>3 DEF Going, Grown
  <2>2. Row(<<>>, tree'[n].kind # "control", n, n - 1, closed', first')
    BY <2>1, RowEmpty
  <2>3. \A q \in n..n : n <= first'[q]
    BY <2>1
  <2> QED BY <2>1, <2>2, <2>3 DEF NodeFits
<1>8. ASSUME Settled(closed, closed', used', first')
      PROVE  Grown(used', closed', tree', first')
  <2>1. Grown(used, closed, tree, first)
    BY DEF Going
  <2>2. Raised(used, closed, tree, used', closed', tree', first')
    BY <1>1, <1>2, <1>7, <1>8 DEF Raised
  <2> QED BY <1>1, <1>5, <1>6, <2>1, <2>2, GrownGrows
<1> QED BY <1>3, <1>5, <1>6, <1>8

LEMMA BuiltIs ==
    ASSUME IInv, Going, NEW kind, NEW kids, NEW from \in Nat \ {0}, from <= used + 1,
           Built(kind, kids, from), used' = used + 1, used + 1 <= MaxNodes, closed \subseteq closed'
    PROVE  /\ Firsts(used', first') /\ Later(used, closed, first, closed', first')
           /\ first'[used + 1] = from
           /\ /\ Row(kids, kind # "control", from, used, closed', first')
              /\ \A q \in from..used : from <= first[q]
              /\ Settled(closed, closed', used', first')
              => Grown(used', closed', tree', first')
<1>1. /\ used \in Nat /\ Firsts(used, first) /\ MaxNodes \in Nat /\ used + 1 \in Node /\ from \in Node
      /\ \A n \in 1..used : tree[n].kids \in Seq(1..used \cup {NULL})
      /\ used' \in Nat /\ used <= used' /\ used' = used + 1 /\ (used + 1) - 1 = used
  <2>1. used \in Nat /\ MaxNodes \in Nat
    BY GoingTop
  <2> QED BY <2>1, GoingTop DEF Node
<1>2. /\ \A n \in Node : first'[n] = IF n = used + 1 THEN from ELSE first[n]
      /\ first' \in [Node -> Node]
  BY <1>1 DEF Built, Firsts
<1>3. PICK r : r = [kind |-> kind, kids |-> kids]
  OBVIOUS
<1>4. \A n \in Node : tree'[n] = IF n = used + 1 THEN r ELSE tree[n]
  <2>1. DOMAIN tree = Node
    BY DEF IInv, Typed
  <2>2. tree' = [tree EXCEPT ![used + 1] = r]
    BY <1>1, <1>3 DEF Built
  <2> QED BY <1>1, <2>1, <2>2
<1>5. \A n \in 1..used : first'[n] = first[n] /\ tree'[n] = tree[n]
  BY <1>1, <1>2, <1>4 DEF Node
<1>6. Firsts(used', first')
  <2>1. ASSUME NEW n \in 1..used' PROVE first'[n] <= n
    <3>1. CASE n \in 1..used
      BY <1>1, <1>5, <3>1 DEF Firsts
    <3>2. CASE n = used + 1
      BY <1>1, <1>2, <3>2
    <3> QED BY <1>1, <3>1, <3>2
  <2> QED BY <1>1, <1>2, <2>1 DEF Firsts
<1>7. Later(used, closed, first, closed', first')
  BY <1>5 DEF Later
<1>8. first'[used + 1] = from
  BY <1>1, <1>2
<1>9. ASSUME Row(kids, kind # "control", from, used, closed', first'),
             \A q \in from..used : from <= first[q],
             Settled(closed, closed', used', first')
      PROVE  Grown(used', closed', tree', first')
  <2>1. ASSUME NEW n \in (used + 1)..used' PROVE NodeFits(n, closed', tree', first')
    <3>1. n = used + 1 /\ n - 1 = used
      BY <1>1
    <3>2. tree'[n].kids = kids /\ tree'[n].kind = kind /\ first'[n] = from
      BY <1>1, <1>3, <1>4, <1>8, <3>1
    <3>3. ASSUME NEW q \in from..n PROVE from <= first'[q]
      <4>1. CASE q = n
        BY <3>2, <4>1
      <4>2. CASE q # n
        <5>1. q \in from..used /\ q \in 1..used
          BY <1>1, <3>1, <4>2
        <5> QED BY <1>5, <1>9, <5>1
      <4> QED BY <4>1, <4>2
    <3>4. Row(tree'[n].kids, tree'[n].kind # "control", first'[n], n - 1, closed', first')
      BY <1>9, <3>1, <3>2
    <3> QED BY <3>2, <3>3, <3>4 DEF NodeFits
  <2>2. \A n \in Node : n > used' => tree'[n].kids = tree[n].kids
    BY <1>1, <1>4 DEF Node
  <2>3. Grown(used, closed, tree, first) /\ used' \in Nat /\ used <= used'
    BY <1>1 DEF Going
  <2>4. \A n \in 1..used : tree'[n] = tree[n]
    BY <1>5
  <2>5. Settled(closed, closed', used', first')
    BY <1>9
  <2>6. Raised(used, closed, tree, used', closed', tree', first')
    BY <1>1, <2>1, <2>2, <2>4, <2>5 DEF Raised
  <2> QED BY <1>1, <1>6, <1>7, <2>3, <2>6, GrownGrows
<1> QED BY <1>6, <1>7, <1>8, <1>9
-----------------------------------------------------------------------------
\* List h on the lists Q becomes g, with the nodes that were read from x on.
LEMMA UnderStep ==
    ASSUME NEW u \in Nat, NEW fs, Firsts(u, fs), NEW Q \in Seq(Frame(u)), NEW h \in Frame(u),
           NEW x \in Nat \ {0}, NEW C, Under(Append(Q, h), x, u, C, fs),
           NEW v \in Nat, u <= v, x <= v + 1, NEW C2, NEW fs2, Firsts(v, fs2), Later(u, C, fs, C2, fs2),
           \A q \in (u + 1)..v : x <= fs2[q],
           NEW g \in Frame(v), g.from = h.from, Tiled(g, v, C2, fs2)
    PROVE  Under(Append(Q, g), v + 1, v, C2, fs2)
<1>1. /\ Under(Q, h.from, u, C, fs) /\ h.from <= x /\ Inner(h, u, fs) /\ Tiled(h, x - 1, C, fs)
      /\ Q = <<>> => h.from = 1
  BY UnderTop
<1>2. h.from \in Nat \ {0} /\ h.from <= v + 1
  BY <1>1 DEF Frame
<1>3. ASSUME NEW q \in (u + 1)..v PROVE fs2[q] \in Nat /\ h.from <= fs2[q]
  <2>1. q \in 1..v
    OBVIOUS
  <2>2. fs2[q] \in Nat /\ x <= fs2[q]
    BY <2>1, FirstIs
  <2> QED BY <1>1, <1>2, <2>2
<1>4. Under(Q, g.from, v, C2, fs2)
  BY <1>1, <1>2, <1>3, UnderGrows
<1>5. ASSUME NEW q \in g.from..v PROVE g.from <= fs2[q]
  <2>1. CASE q <= u
    <3>1. q \in h.from..u /\ q \in 1..u
      BY <1>2, <2>1
    <3>2. fs2[q] = fs[q]
      BY <3>1 DEF Later
    <3> QED BY <1>1, <3>1, <3>2 DEF Inner
  <2>2. CASE q > u
    <3>1. q \in (u + 1)..v
      BY <1>2, <2>2
    <3> QED BY <1>3, <3>1
  <2> QED BY <1>2, <2>1, <2>2
<1>6. Inner(g, v, fs2)
  BY <1>5 DEF Inner
<1>7. Q \in Seq(Frame(v))
  <2>1. Frame(u) \subseteq Frame(v)
    BY FrameGrows
  <2> QED BY <2>1, SeqMonotonic
<1>8. v + 1 \in Nat /\ (v + 1) - 1 = v
  OBVIOUS
<1> QED BY <1>1, <1>2, <1>4, <1>6, <1>7, <1>8, UnderTop

\* What was finished meanwhile makes one more list.
LEMMA UnderPush ==
    ASSUME NEW u \in Nat, NEW fs, NEW S \in Seq(Frame(u)), S # <<>>, NEW C,
           Under(S, u + 1, u, C, fs), NEW f \in Frame(u), f.src = <<>>, f.kids = <<>>, f.from = u + 1
    PROVE  Under(Append(S, f), u + 1, u, C, fs)
<1>1. Tiled(f, (u + 1) - 1, C, fs)
  BY TiledNew
<1>2. Inner(f, u, fs) /\ u + 1 <= u + 1 /\ u + 1 \in Nat
  BY DEF Inner
<1> QED BY <1>1, <1>2, UnderTop

\* What a command does to the open lists s, the last of which it goes on with.
LEMMA ReduceStep ==
    ASSUME IInv, Going, NEW Q, NEW h, NEW s, OpenAt(Q, h, s), h.kind \in Started,
           NEW x \in Nat \ {0}, Under(s, x, used, closed, first),
           NEW c, NEW done, ReduceCommand(s, c, done), stack' \in Seq(Frame(used')),
           used' \in Nat, used <= used', x <= used' + 1, Firsts(used', first'),
           \A n \in 1..used : first'[n] = first[n], \A q \in (used + 1)..used' : x <= first'[q],
           c \in 1..used' \cup {NULL}, Reads(c, x, used', first')
    PROVE  /\ Under(stack', used' + 1, used', closed', first') /\ closed \subseteq closed'
           /\ Settled(closed \cup done, closed', used', first')
<1>1. /\ used \in Nat /\ Firsts(used, first)
  BY GoingTop
<1>2. /\ Q \in Seq(Frame(used)) /\ h \in Frame(used) /\ s = Append(Q, h) /\ Front(s) = Q /\ Last(s) = h
      /\ Steady(h) /\ Headed(h)
  BY DEF OpenAt
<1>3. /\ stack' = Q \o <<Reduced(h, c)>> /\ closed' = closed \cup done \cup Ended(h)
  BY <1>2 DEF ReduceCommand, Reduced, Ended
<1>4. PICK g : g = Reduced(h, c)
  OBVIOUS
<1>5. stack' = Append(Q, g) /\ g \in Frame(used')
  <2>1. stack' = Append(Q, g)
    BY <1>2, <1>3, <1>4, AppendIsConcat
  <2>2. Len(Q) + 1 \in 1..Len(stack') /\ stack'[Len(Q) + 1] = g
    BY <1>2, <2>1
  <2> QED BY <2>1, <2>2
<1>6. Later(used, closed, first, closed', first')
  BY <1>3 DEF Later
<1>7. h \in Frame(used') /\ Tiled(h, x - 1, closed', first')
  <2>1. Tiled(h, x - 1, closed, first)
    BY <1>1, <1>2, UnderTop
  <2> QED BY <1>1, <1>2, <1>6, <2>1, TiledGrows, FrameGrows
<1>8. Tiled(g, used', closed', first') /\ g.from = h.from
  <2>1. used' \in 0..used' /\ closed' \cup Ended(h) \subseteq closed'
    BY <1>3
  <2>2. Tiled(g, used', closed', first')
    BY <1>2, <1>4, <1>7, <2>1, TiledReduce
  <2>3. g.from = h.from
    BY <1>2, <1>4, <1>1, ReducedIs
  <2> QED BY <2>2, <2>3
<1>9. Under(stack', used' + 1, used', closed', first')
  <2>1. Under(Append(Q, h), x, used, closed, first)
    BY <1>2
  <2> QED BY <1>1, <1>2, <1>5, <1>6, <1>8, <2>1, UnderStep
<1>10. ASSUME NEW f \in closed' \ (closed \cup done) PROVE f \in Frame(used') /\ Spread(f.src, first')
  <2>1. f = h
    BY <1>3 DEF Ended
  <2> QED BY <1>7, <2>1 DEF Tiled
<1> QED BY <1>3, <1>9, <1>10 DEF Settled

\* A step that finishes lists and no node.
LEMMA SameAre ==
    ASSUME IInv, Going, UNCHANGED <<used, tree, first>>, closed \subseteq closed',
           Settled(closed, closed', used, first)
    PROVE  Grown(used', closed', tree', first')
<1>1. /\ used \in Nat /\ Firsts(used, first)
      /\ \A n \in 1..used : tree[n].kids \in Seq(1..used \cup {NULL})
  BY GoingTop
<1>2. Later(used, closed, first, closed', first') /\ Grown(used, closed, tree, first)
  BY DEF Later, Going
<1>3. Raised(used, closed, tree, used, closed', tree, first)
  BY <1>1 DEF Raised
<1>4. used <= used
  BY <1>1
<1> QED BY <1>1, <1>2, <1>3, <1>4, GrownGrows
-----------------------------------------------------------------------------
\* The stack and the nodes after a step, from IInv'.
LEMMA AfterStep ==
    ASSUME IInv'
    PROVE  stack' \in Seq(Frame(used')) /\ used' \in Nat /\ used' <= MaxNodes
BY NodesAssumption DEF IInv, Typed, Whole, Sound

\* The actions that open a list.
LEMMA PushGoes ==
    ASSUME IInv, Going, NEW k \in Kinds, NEW o \in Owners, Push(List(k, o)),
           UNCHANGED <<used, tree, first, closed>>
    PROVE  Going'
<1>1. PICK f : f = List(k, o)
  OBVIOUS
<1>2. /\ used \in Nat /\ Firsts(used, first) /\ stack \in Seq(Frame(used)) /\ stack # <<>>
      /\ Under(stack, used + 1, used, closed, first)
  BY GoingTop DEF IInv, Whole, Sound, Nested, Going
<1>3. /\ f \in Frame(used) /\ f.src = <<>> /\ f.kids = <<>> /\ f.from = used + 1
  BY <1>1, <1>2, ListIs DEF Void, List
<1>4. stack' = Append(stack, f)
  BY <1>1 DEF Push
<1>5. Under(Append(stack, f), used + 1, used, closed, first)
  BY <1>2, <1>3, UnderPush
<1>6. Grown(used', closed', tree', first')
  BY SameAre DEF Settled
<1> QED BY <1>4, <1>5, <1>6 DEF Going

LEMMA OpenGoes ==
    ASSUME IInv, Going, BeginFunction \/ ProgramBlock \/ CommandBlock \/ BeginControl \/ BeginCall
    PROVE  Going'
<1>1. UNCHANGED <<used, tree, first, closed>>
  BY DEF BeginFunction, ProgramBlock, CommandBlock, BeginControl, BeginCall, built
<1>2. \E k \in Kinds, o \in Owners : Push(List(k, o))
  BY DEF BeginFunction, ProgramBlock, CommandBlock, BeginControl, BeginCall, Kinds, Owners
<1> QED BY <1>1, <1>2, PushGoes

\* List h of the open lists s is given the node counted last, which is all that was
\* read from x on.
LEMMA AddedIs ==
    ASSUME NEW u, NEW f \in Frame(u), NEW n
    PROVE  /\ Added(f, n).src = Append(f.src, n) /\ Added(f, n).kids = f.kids
           /\ Added(f, n).from = f.from /\ Added(f, n).kind = f.kind
BY DEF Added, Frame

LEMMA AddStep ==
    ASSUME IInv, Going, NEW Q, NEW h, NEW s, OpenAt(Q, h, s), NEW x \in Nat \ {0},
           Under(s, x, used, closed, first), stack' = Q \o <<Added(h, used')>>, stack' \in Seq(Frame(used')),
           used' \in Nat, used < used', x <= used + 1, Firsts(used', first'), first'[used'] = x,
           \A n \in 1..used : first'[n] = first[n], \A q \in x..used' : x <= first'[q],
           closed \subseteq closed'
    PROVE  Under(stack', used' + 1, used', closed', first')
<1>1. /\ used \in Nat /\ Firsts(used, first)
  BY GoingTop
<1>2. Q \in Seq(Frame(used)) /\ h \in Frame(used) /\ s = Append(Q, h)
  BY DEF OpenAt
<1>3. PICK v : v = used'
  OBVIOUS
<1>4. PICK g, t : g = Added(h, v) /\ t = <<v>>
  OBVIOUS
<1>5. stack' = Append(Q, g) /\ g \in Frame(used')
  <2>1. stack' = Append(Q, g)
    BY <1>2, <1>3, <1>4, AppendIsConcat
  <2>2. Len(Q) + 1 \in 1..Len(stack') /\ stack'[Len(Q) + 1] = g
    BY <1>2, <2>1
  <2> QED BY <2>1, <2>2
<1>6. Later(used, closed, first, closed', first')
  BY DEF Later
<1>7. h \in Frame(used') /\ Tiled(h, x - 1, closed', first')
  <2>1. Tiled(h, x - 1, closed, first)
    BY <1>1, <1>2, UnderTop
  <2>2. used <= used'
    BY <1>1
  <2> QED BY <1>1, <1>2, <1>6, <2>1, <2>2, TiledGrows, FrameGrows
<1>8. g.src = h.src \o t /\ g.kids = h.kids /\ g.from = h.from /\ g.kind = h.kind
  <2>1. h.src \in Seq(1..used')
    BY <1>7 DEF Frame
  <2>2. v \in 1..used'
    BY <1>1, <1>3
  <2>3. h.src \o <<v>> = Append(h.src, v)
    BY <2>1, <2>2, SeqAppend
  <2> QED BY <1>2, <1>4, <2>3, AddedIs
<1>9. /\ t \in Seq(1..used') /\ t # <<>> /\ t[1] = v /\ t[Len(t)] = v /\ Spread(t, first')
      /\ first'[t[1]] = x
  <2>1. v \in 1..used' /\ v \in Nat /\ first'[v] <= v /\ \A q \in first'[v]..v : first'[v] <= first'[q]
    BY <1>1, <1>3, FirstIs
  <2>2. Spread(<<v>>, first')
    BY <2>1, SpreadOne
  <2> QED BY <1>3, <1>4, <2>1, <2>2
<1>10. Tiled(g, v, closed', first')
  BY <1>7, <1>8, <1>9, TiledAdd
<1>11. \A q \in (used + 1)..used' : x <= first'[q]
  <2>1. (used + 1)..used' \subseteq x..used'
    BY <1>1
  <2> QED BY <2>1
<1>12. x <= used' + 1 /\ used <= used'
  <2>1. v \in Nat /\ used < v /\ x <= used + 1 /\ x \in Nat
    BY <1>3
  <2>2. x <= v + 1 /\ used <= v
    BY <1>1, <2>1
  <2> QED BY <1>3, <2>2
<1> QED BY <1>1, <1>2, <1>3, <1>5, <1>6, <1>8, <1>10, <1>11, <1>12, UnderStep

LEMMA AddGoes ==
    ASSUME IInv, IInv', Going, Param \/ Arg
    PROVE  Going'
<1>1. PICK P, f : /\ OpenAt(P, f, stack) /\ Top = f
  BY GoingTop
<1>2. /\ used' = used + 1 /\ stack' = P \o <<Added(f, used')>> /\ closed' = closed /\ Leaves
  BY <1>1 DEF Param, Arg, Allocate, OpenAt
<1>3. /\ used \in Nat /\ used + 1 \in Nat \ {0}
      /\ stack' \in Seq(Frame(used')) /\ used' \in Nat /\ used' <= MaxNodes
  BY GoingTop, AfterStep
<1>4. /\ Firsts(used', first') /\ \A n \in 1..used : first'[n] = first[n]
      /\ first'[used'] = used + 1 /\ \A q \in (used + 1)..used' : used + 1 <= first'[q]
      /\ Grown(used', closed', tree', first')
  <2>1. used <= used' /\ closed \subseteq closed' /\ Settled(closed, closed', used', first')
    BY <1>2, <1>3 DEF Settled
  <2> QED BY <1>2, <1>3, <2>1, LeavesAre DEF Later
<1>5. Under(stack, used + 1, used, closed, first)
  BY DEF Going
<1>6. used < used' /\ used + 1 <= used + 1 /\ closed \subseteq closed'
  BY <1>2, <1>3
<1>7. Under(stack', used' + 1, used', closed', first')
  BY <1>1, <1>2, <1>3, <1>4, <1>5, <1>6, AddStep
<1> QED BY <1>4, <1>7 DEF Going

LEMMA FunctionBlockGoes ==
    ASSUME IInv, IInv', Going, FunctionBlock
    PROVE  Going'
<1>1. PICK P, f : /\ OpenAt(P, f, stack) /\ Top = f /\ Tiled(f, used, closed, first)
  BY GoingTop
<1>2. PICK g : g = [f EXCEPT !.kind = "vars", !.head = NULL, !.src = <<>>, !.kids = <<f.head>>]
  OBVIOUS
<1>3. /\ f.kind = "params" /\ closed' = closed \cup {f} /\ stack' = P \o <<g>>
      /\ used' = used /\ tree' = tree /\ first' = first
  BY <1>1, <1>2 DEF FunctionBlock, Reading, built, OpenAt
<1>4. /\ used \in Nat /\ Firsts(used, first) /\ used + 1 \in Nat \ {0} /\ used <= used
      /\ stack' \in Seq(Frame(used)) /\ (used + 1) - 1 = used
  BY <1>3, GoingTop, AfterStep
<1>5. P \in Seq(Frame(used)) /\ f \in Frame(used) /\ Headed(f) /\ stack = Append(P, f)
  BY <1>1 DEF OpenAt
<1>6. /\ g.kind = "vars" /\ g.src = <<>> /\ g.kids = <<f.head>> /\ g.from = f.from
  BY <1>2, <1>5 DEF Frame
<1>7. stack' = Append(P, g) /\ g \in Frame(used)
  <2>1. stack' = Append(P, g)
    BY <1>3, <1>5, AppendIsConcat
  <2>2. Len(P) + 1 \in 1..Len(stack') /\ stack'[Len(P) + 1] = g
    BY <1>5, <2>1
  <2> QED BY <1>4, <2>1, <2>2
<1>8. Later(used, closed, first, closed', first)
  BY <1>3 DEF Later
<1>9. Tiled(g, used, closed', first)
  <2>1. Walks(f) /\ f.kind \in Alone /\ f \in closed' /\ closed \subseteq closed'
    BY <1>3 DEF Walks, Alone
  <2>2. Row(<<f.head>>, TRUE, f.from, used, closed', first)
    BY <1>1, <1>4, <1>5, <2>1, TiledEnds
  <2>3. Walks(g) = TRUE /\ g.kind \notin Alone /\ Holds(g, used, used, first) /\ used \in 0..used
    BY <1>4, <1>6 DEF Walks, Alone, Holds
  <2> QED BY <1>6, <2>2, <2>3, SpreadEmpty DEF Tiled
<1>10. Under(stack, used + 1, used, closed, first) /\ \A q \in (used + 1)..used : used + 1 <= first[q]
  BY <1>4 DEF Going
<1>11. Under(Append(P, g), used + 1, used, closed', first)
  BY <1>4, <1>5, <1>6, <1>7, <1>8, <1>9, <1>10, UnderStep
<1>12. Grown(used', closed', tree', first')
  <2>1. Settled(closed, closed', used, first)
    BY <1>1, <1>3, <1>5 DEF Settled, Tiled
  <2> QED BY <1>3, <2>1, SameAre
<1> QED BY <1>3, <1>7, <1>11, <1>12 DEF Going
-----------------------------------------------------------------------------
\* A list that only gets another name.
LEMMA UnderAlike ==
    ASSUME NEW u \in Nat, NEW P \in Seq(Frame(u)), NEW f \in Frame(u), NEW x \in Nat, NEW C, NEW fs,
           Under(Append(P, f), x, u, C, fs), NEW g \in Frame(u), g.src = f.src, g.kids = f.kids,
           g.from = f.from, f.kind \in {"control", "governed"}, g.kind = "control"
    PROVE  Under(Append(P, g), x, u, C, fs)
<1>1. /\ Under(P, f.from, u, C, fs) /\ f.from <= x /\ Inner(f, u, fs) /\ Tiled(f, x - 1, C, fs)
      /\ P = <<>> => f.from = 1
  BY UnderTop
<1>2. Walks(g) = Walks(f) /\ g.kind \notin Alone
  BY DEF Walks, Alone
<1>3. Inner(g, u, fs) /\ Tiled(g, x - 1, C, fs)
  BY <1>1, <1>2 DEF Inner, Tiled, Holds
<1> QED BY <1>1, <1>3, UnderTop

LEMMA SenaoGoes ==
    ASSUME IInv, IInv', Going, Senao
    PROVE  Going'
<1>1. PICK P, f : /\ OpenAt(P, f, stack) /\ Top = f
  BY GoingTop
<1>2. PICK g : g = [f EXCEPT !.kind = "control", !.owner = "senao"]
  OBVIOUS
<1>3. /\ f.kind = "governed" /\ closed' = closed /\ stack' = P \o <<g>>
      /\ used' = used /\ tree' = tree /\ first' = first
  BY <1>1, <1>2 DEF Senao, Reading, built, OpenAt
<1>4. /\ used \in Nat /\ used + 1 \in Nat /\ stack' \in Seq(Frame(used))
  BY <1>3, GoingTop, AfterStep
<1>5. P \in Seq(Frame(used)) /\ f \in Frame(used) /\ stack = Append(P, f)
  BY <1>1 DEF OpenAt
<1>6. /\ g.kind = "control" /\ g.src = f.src /\ g.kids = f.kids /\ g.from = f.from
  BY <1>2, <1>5 DEF Frame
<1>7. stack' = Append(P, g) /\ g \in Frame(used)
  <2>1. stack' = Append(P, g)
    BY <1>3, <1>5, AppendIsConcat
  <2>2. Len(P) + 1 \in 1..Len(stack') /\ stack'[Len(P) + 1] = g
    BY <1>5, <2>1
  <2> QED BY <1>4, <2>1, <2>2
<1>8. Under(Append(P, f), used + 1, used, closed, first)
  BY <1>5 DEF Going
<1>9. Under(Append(P, g), used + 1, used, closed, first)
  BY <1>3, <1>4, <1>5, <1>6, <1>7, <1>8, UnderAlike
<1>10. Grown(used', closed', tree', first')
  BY <1>3, SameAre DEF Settled
<1> QED BY <1>3, <1>7, <1>9, <1>10 DEF Going

LEMMA CommandGoes ==
    ASSUME IInv, IInv', Going, EmptyCommand \/ SimpleCommand
    PROVE  Going'
<1>1. PICK P, f : /\ OpenAt(P, f, stack) /\ Top = f
  BY GoingTop
<1>2. /\ used \in Nat /\ Firsts(used, first) /\ used + 1 \in Nat \ {0}
      /\ stack' \in Seq(Frame(used')) /\ used' \in Nat /\ used' <= MaxNodes
      /\ Under(stack, used + 1, used, closed, first) /\ first \in [Node -> Node]
  BY GoingTop, AfterStep DEF Going, Firsts
<1>3. f.kind \in Started
  BY <1>1 DEF EmptyCommand, SimpleCommand, Reading, Started
<1>4. CASE EmptyCommand
  <2>1. ReduceCommand(stack, NULL, {}) /\ used' = used /\ tree' = tree /\ first' = first
    BY <1>4 DEF EmptyCommand
  <2>2. /\ used <= used' /\ used + 1 <= used' + 1 /\ Firsts(used', first')
        /\ \A n \in 1..used : first'[n] = first[n]
        /\ \A q \in (used + 1)..used' : used + 1 <= first'[q]
        /\ NULL \in 1..used' \cup {NULL} /\ Reads(NULL, used + 1, used', first')
    BY <1>2, <2>1 DEF Reads
  <2>3. /\ Under(stack', used' + 1, used', closed', first') /\ closed \subseteq closed'
        /\ Settled(closed \cup {}, closed', used', first')
    BY <1>1, <1>2, <1>3, <2>1, <2>2, ReduceStep
  <2>4. Settled(closed, closed', used, first)
    BY <2>1, <2>3
  <2>5. Grown(used', closed', tree', first')
    BY <2>1, <2>3, <2>4, SameAre
  <2> QED BY <2>3, <2>5 DEF Going
<1>5. CASE SimpleCommand
  <2>1. ReduceCommand(stack, used + 1, {}) /\ used' = used + 1 /\ Leaves
    BY <1>5 DEF SimpleCommand, Allocate
  <2>2. closed \subseteq closed'
    BY <2>1 DEF ReduceCommand
  <2>3. used <= used'
    BY <1>2, <2>1
  <2>4. /\ Firsts(used', first') /\ \A n \in 1..used : first'[n] = first[n]
        /\ \A n \in (used + 1)..used' : first'[n] = n
        /\ Settled(closed, closed', used', first') =>
                 Grown(used', closed', tree', first')
    BY <1>2, <2>1, <2>2, <2>3, LeavesAre DEF Later
  <2>5. /\ used + 1 <= used' + 1 /\ \A q \in (used + 1)..used' : used + 1 <= first'[q]
        /\ used + 1 \in 1..used' \cup {NULL}
    BY <1>2, <2>1, <2>4
  <2>6. Reads(used + 1, used + 1, used', first')
    <3>1. used + 1 # NULL
      BY <1>2, <2>1, NodesAssumption
    <3> QED BY <1>2, <2>1, <2>4, <3>1 DEF Reads
  <2>7. /\ Under(stack', used' + 1, used', closed', first')
        /\ Settled(closed \cup {}, closed', used', first')
    BY <1>1, <1>2, <1>3, <2>1, <2>3, <2>4, <2>5, <2>6, ReduceStep
  <2> QED BY <2>4, <2>7 DEF Going
<1> QED BY <1>4, <1>5

\* A node is made of the parts of list f: what the step says of the lists follows.
LEMMA BuiltReads ==
    ASSUME IInv, Going, NEW P, NEW f, OpenAt(P, f, stack), NEW kind, NEW kids,
           Built(kind, kids, f.from), used' = used + 1, used + 1 <= MaxNodes, closed \subseteq closed'
    PROVE  /\ f.from \in Nat \ {0} /\ f.from <= used + 1 /\ f.from <= used' + 1 /\ used <= used'
           /\ used < used' /\ used' \in Nat
           /\ Firsts(used', first') /\ \A n \in 1..used : first'[n] = first[n]
           /\ first'[used'] = f.from
           /\ \A q \in f.from..used' : f.from <= first'[q]
           /\ \A q \in (used + 1)..used' : f.from <= first'[q]
           /\ used + 1 \in 1..used' \cup {NULL} /\ Reads(used + 1, f.from, used', first')
           /\ (/\ Row(kids, kind # "control", f.from, used, closed', first')
               /\ Settled(closed, closed', used', first')) =>
                    Grown(used', closed', tree', first')
<1>1. /\ used \in Nat /\ f.from \in Nat \ {0} /\ f.from <= used + 1 /\ Inner(f, used, first)
      /\ Under(P, f.from, used, closed, first) /\ f \in Frame(used)
  <2>1. PICK Q, g : /\ OpenAt(Q, g, stack) /\ g.from \in Nat \ {0} /\ g.from <= used + 1
                    /\ Inner(g, used, first) /\ Under(Q, g.from, used, closed, first)
    BY GoingTop
  <2>2. f = g /\ P = Q /\ f \in Frame(used)
    BY <2>1 DEF OpenAt
  <2> QED BY <2>1, <2>2, GoingTop
<1>2. /\ Firsts(used', first') /\ \A n \in 1..used : first'[n] = first[n]
      /\ first'[used + 1] = f.from
      /\ (/\ Row(kids, kind # "control", f.from, used, closed', first')
          /\ \A q \in f.from..used : f.from <= first[q]
          /\ Settled(closed, closed', used', first')) =>
               Grown(used', closed', tree', first')
  BY <1>1, BuiltIs DEF Later
<1>3. \A q \in f.from..used' : f.from <= first'[q]
  <2> TAKE q \in f.from..used'
  <2>1. CASE q = used + 1
    BY <1>1, <1>2, <2>1
  <2>2. CASE q # used + 1
    <3>1. q \in f.from..used /\ q \in 1..used
      BY <1>1, <2>2
    <3> QED BY <1>1, <1>2, <3>1 DEF Inner
  <2> QED BY <2>1, <2>2
<1>4. /\ f.from <= used' + 1 /\ used <= used' /\ used < used' /\ used' \in Nat
      /\ used + 1 \in 1..used' \cup {NULL} /\ (used + 1)..used' \subseteq f.from..used'
  BY <1>1
<1>5. Reads(used + 1, f.from, used', first')
  <2>1. used + 1 # NULL
    BY <1>1, NodesAssumption
  <2> QED BY <1>2, <1>3, <2>1 DEF Reads
<1>6. \A q \in f.from..used : f.from <= first[q]
  BY <1>1 DEF Inner
<1> QED BY <1>1, <1>2, <1>3, <1>4, <1>5, <1>6
-----------------------------------------------------------------------------
\* The list f at the top ends, with the node made of it; h is the one below.
LEMMA EndsIn ==
    ASSUME IInv, Going, NEW P, NEW f, OpenAt(P, f, stack), Walks(f), NEW kids,
           NEW kind \in {"call", "func", "block"},
           kids = Append(f.kids, f.head) \/ (f.kind \in Alone /\ kids = <<f.head>>),
           Built(kind, kids, f.from), used' = used + 1, used + 1 <= MaxNodes,
           closed \cup {f} \subseteq closed',
           Settled(closed \cup {f}, closed', used', first')
    PROVE  Grown(used', closed', tree', first')
<1>1. /\ used \in Nat /\ Firsts(used, first) /\ f.from \in Nat \ {0} /\ Tiled(f, used, closed, first)
      /\ f \in Frame(used) /\ Headed(f) /\ closed \subseteq closed' /\ f \in closed'
  <2>1. PICK Q, g : OpenAt(Q, g, stack) /\ g.from \in Nat \ {0} /\ Tiled(g, used, closed, first)
    BY GoingTop
  <2>2. f = g /\ f \in Frame(used) /\ Headed(f)
    BY <2>1 DEF OpenAt
  <2> QED BY <2>1, <2>2, GoingTop
<1>2. /\ Firsts(used', first') /\ used <= used' /\ used' \in Nat
      /\ \A n \in 1..used : first'[n] = first[n]
      /\ (/\ Row(kids, kind # "control", f.from, used, closed', first')
          /\ Settled(closed, closed', used', first')) =>
               Grown(used', closed', tree', first')
  <2>1. closed \subseteq closed'
    BY <1>1
  <2>2. /\ Firsts(used', first') /\ used <= used' /\ used' \in Nat
        /\ \A n \in 1..used : first'[n] = first[n]
    BY <2>1, BuiltReads
  <2>3. ASSUME Row(kids, kind # "control", f.from, used, closed', first'),
               Settled(closed, closed', used', first')
        PROVE  Grown(used', closed', tree', first')
    BY <2>1, <2>3, BuiltReads
  <2> QED BY <2>2, <2>3
<1>3. Later(used, closed, first, closed', first') /\ Later(used, closed', first, closed', first')
  BY <1>1, <1>2 DEF Later
<1>4. Row(kids, TRUE, f.from, used, closed', first')
  <2>1. Row(kids, TRUE, f.from, used, closed', first)
    BY <1>1, TiledEnds
  <2>2. kids \in Seq(1..used \cup {NULL})
    <3>1. f.kids \in Seq(1..used \cup {NULL}) /\ f.head \in 1..used \cup {NULL}
      BY <1>1 DEF Frame
    <3>2. Append(f.kids, f.head) \in Seq(1..used \cup {NULL}) /\ <<f.head>> \in Seq(1..used \cup {NULL})
      BY <3>1
    <3> QED BY <3>2
  <2> QED BY <1>1, <1>3, <2>1, <2>2, RowGrows
<1>5. f \in Frame(used') /\ Spread(f.src, first')
  <2>1. Tiled(f, used, closed', first')
    BY <1>1, <1>3, TiledGrows
  <2> QED BY <1>1, <1>2, <2>1, FrameGrows DEF Tiled
<1>6. (kind # "control") = TRUE
  OBVIOUS
<1>7. Settled(closed, closed', used', first')
  BY <1>5 DEF Settled
<1> QED BY <1>2, <1>4, <1>6, <1>7

\* The list below the top, which began no later.
LEMMA GoingBelow ==
    ASSUME IInv, Going, NEW P, NEW f, OpenAt(P, f, stack), f.kind # "globals"
    PROVE  /\ Under(P, f.from, used, closed, first) /\ P # <<>> /\ Within(f, Last(P))
           /\ \E Q, h : OpenAt(Q, h, P) /\ Last(P) = h /\ Front(P) = Q
<1>1. PICK Q, g : /\ OpenAt(Q, g, stack) /\ Under(Q, g.from, used, closed, first)
                  /\ g.kind # "globals" => Q # <<>> /\ Within(g, Last(Q)) /\ \E R, h : OpenAt(R, h, Q)
  BY GoingTop
<1>2. f = g /\ P = Q
  BY <1>1 DEF OpenAt
<1> QED BY <1>1, <1>2 DEF OpenAt

LEMMA EndCallArgGoes ==
    ASSUME IInv, IInv', Going, EndCallArg
    PROVE  Going'
<1>1. PICK P, f : OpenAt(P, f, stack) /\ Top = f
  BY GoingTop
<1>2. f.kind = "args" /\ Front(stack) = P
  BY <1>1 DEF EndCallArg, Reading, OpenAt
<1>3. /\ Under(P, f.from, used, closed, first) /\ P # <<>>
      /\ \E Q, h : OpenAt(Q, h, P) /\ Last(P) = h /\ Front(P) = Q
  BY <1>1, <1>2, GoingBelow
<1>4. PICK Q, h : OpenAt(Q, h, P) /\ Last(P) = h /\ Front(P) = Q
  BY <1>3
<1>5. /\ used' = used + 1 /\ used + 1 <= MaxNodes /\ stack' = Q \o <<Added(h, used')>>
      /\ closed' = closed \cup {f} /\ Built("call", <<f.head>>, f.from)
  <2>1. stack[Len(stack) - 1] = h
    BY <1>1, <1>3, <1>4 DEF OpenAt
  <2> QED BY <1>1, <1>2, <1>4, <2>1 DEF EndCallArg, Allocate
<1>6. closed \subseteq closed' /\ closed \cup {f} \subseteq closed' /\ Settled(closed \cup {f}, closed', used', first')
  BY <1>5 DEF Settled
<1>7. Grown(used', closed', tree', first')
  <2>1. Walks(f) /\ f.kind \in Alone
    BY <1>2 DEF Walks, Alone
  <2> QED BY <1>1, <1>5, <1>6, <2>1, EndsIn
<1>8. Under(stack', used' + 1, used', closed', first')
  BY <1>1, <1>3, <1>4, <1>5, <1>6, AfterStep, BuiltReads, AddStep
<1> QED BY <1>7, <1>8 DEF Going

LEMMA EndCallCommandGoes ==
    ASSUME IInv, IInv', Going, EndCallCommand
    PROVE  Going'
<1>1. PICK P, f : OpenAt(P, f, stack) /\ Top = f
  BY GoingTop
<1>2. f.kind = "args" /\ Front(stack) = P
  BY <1>1 DEF EndCallCommand, Reading, OpenAt
<1>3. /\ Under(P, f.from, used, closed, first) /\ P # <<>> /\ Within(f, Last(P))
      /\ \E Q, h : OpenAt(Q, h, P) /\ Last(P) = h /\ Front(P) = Q
  BY <1>1, <1>2, GoingBelow
<1>4. PICK Q, h : OpenAt(Q, h, P) /\ Last(P) = h /\ Front(P) = Q
  BY <1>3
<1>5. /\ used' = used + 1 /\ used + 1 <= MaxNodes /\ h.kind \in Started
      /\ ReduceCommand(P, used + 1, {f}) /\ Built("call", <<f.head>>, f.from)
  <2>1. stack[Len(stack) - 1] = h
    BY <1>1, <1>3, <1>4 DEF OpenAt
  <2> QED BY <1>1, <1>2, <1>3, <1>4, <2>1 DEF EndCallCommand, Allocate, Within, Started
<1>6. closed \subseteq closed' /\ closed \cup {f} \subseteq closed'
  BY <1>5 DEF ReduceCommand
<1>7. /\ Under(stack', used' + 1, used', closed', first')
      /\ Settled(closed \cup {f}, closed', used', first')
  BY <1>1, <1>3, <1>4, <1>5, <1>6, AfterStep, BuiltReads, ReduceStep
<1>8. Grown(used', closed', tree', first')
  <2>1. Walks(f) /\ f.kind \in Alone
    BY <1>2 DEF Walks, Alone
  <2> QED BY <1>1, <1>5, <1>6, <1>7, <2>1, EndsIn
<1> QED BY <1>7, <1>8 DEF Going

LEMMA EndBlockGoes ==
    ASSUME IInv, IInv', Going, EndBlock, Top.owner # "program"
    PROVE  Going'
<1>1. PICK P, f : OpenAt(P, f, stack) /\ Top = f
  BY GoingTop
<1>2. f.kind = "cmds" /\ Front(stack) = P /\ f.owner # "program"
  BY <1>1 DEF EndBlock, Reading, OpenAt
<1>3. /\ Under(P, f.from, used, closed, first) /\ P # <<>> /\ Within(f, Last(P))
      /\ \E Q, h : OpenAt(Q, h, P) /\ Last(P) = h /\ Front(P) = Q
  BY <1>1, <1>2, GoingBelow
<1>4. PICK Q, h : OpenAt(Q, h, P) /\ Last(P) = h /\ Front(P) = Q
  BY <1>3
<1>5. Walks(f)
  BY <1>2 DEF Walks
<1>6. CASE f.owner = "function"
  <2>1. /\ used' = used + 1 /\ used + 1 <= MaxNodes /\ stack' = Q \o <<Added(h, used')>>
        /\ closed' = closed \cup {f} /\ Built("func", Append(f.kids, f.head), f.from)
    <3>1. stack[Len(stack) - 1] = h
      BY <1>1, <1>3, <1>4 DEF OpenAt
    <3> QED BY <1>1, <1>2, <1>4, <1>6, <3>1 DEF EndBlock, Allocate
  <2>2. closed \subseteq closed' /\ closed \cup {f} \subseteq closed' /\ Settled(closed \cup {f}, closed', used', first')
    BY <2>1 DEF Settled
  <2>3. Grown(used', closed', tree', first')
    BY <1>1, <1>5, <2>1, <2>2, EndsIn
  <2>4. Under(stack', used' + 1, used', closed', first')
    BY <1>1, <1>3, <1>4, <2>1, <2>2, AfterStep, BuiltReads, AddStep
  <2> QED BY <2>3, <2>4 DEF Going
<1>7. CASE f.owner = "command"
  <2>1. /\ used' = used + 1 /\ used + 1 <= MaxNodes /\ h.kind \in Started
        /\ ReduceCommand(P, used + 1, {f}) /\ Built("block", Append(f.kids, f.head), f.from)
    BY <1>1, <1>2, <1>3, <1>4, <1>7 DEF EndBlock, Allocate, Within, Started
  <2>2. closed \subseteq closed' /\ closed \cup {f} \subseteq closed'
    BY <2>1 DEF ReduceCommand
  <2>3. /\ Under(stack', used' + 1, used', closed', first')
        /\ Settled(closed \cup {f}, closed', used', first')
    BY <1>1, <1>3, <1>4, <2>1, <2>2, AfterStep, BuiltReads, ReduceStep
  <2>4. Grown(used', closed', tree', first')
    BY <1>1, <1>5, <2>1, <2>2, <2>3, EndsIn
  <2> QED BY <2>3, <2>4 DEF Going
<1> QED BY <1>1, <1>2, <1>6, <1>7 DEF EndBlock
-----------------------------------------------------------------------------
LEMMA OpenedOn ==
    ASSUME NEW Q \in Seq(Frame(used)), NEW g \in Frame(used), Steady(g), Headed(g)
    PROVE  OpenAt(Q, g, Append(Q, g))
<1>1. PICK S : S = Append(Q, g)
  OBVIOUS
<1>2. /\ S \in Seq(Frame(used)) /\ S # <<>> /\ Len(S) = Len(Q) + 1 /\ Len(Q) \in Nat
      /\ S[Len(Q) + 1] = g /\ \A j \in 1..Len(Q) : S[j] = Q[j]
  BY <1>1
<1>3. PICK P \in Seq(Frame(used)), f \in Frame(used) :
          /\ S = Append(P, f) /\ Front(S) = P /\ Last(S) = f
          /\ Len(S) = Len(P) + 1 /\ Len(P) \in Nat
          /\ (P # <<>> => Len(P) > 0 /\ S[Len(S) - 1] = Last(P))
  BY <1>2, StackIs
<1>4. Len(P) = Len(Q) /\ S[Len(P) + 1] = f /\ \A j \in 1..Len(P) : S[j] = P[j]
  BY <1>2, <1>3
<1>5. f = g /\ \A j \in 1..Len(P) : P[j] = Q[j]
  BY <1>2, <1>4
<1>6. P = Q
  BY <1>4, <1>5, SeqEqual
<1> QED BY <1>1, <1>3, <1>5, <1>6 DEF OpenAt

LEMMA EndControlGoes ==
    ASSUME IInv, IInv', Going, EndControl
    PROVE  Going'
<1>1. PICK P, f : /\ OpenAt(P, f, stack) /\ Top = f /\ Tiled(f, used, closed, first)
                  /\ f.from \in Nat \ {0}
  BY GoingTop
<1>2. /\ f.kind = "governed" /\ Front(stack) = P /\ Steady(f) /\ P \in Seq(Frame(used))
      /\ f \in Frame(used)
  BY <1>1 DEF EndControl, Reading, OpenAt
<1>3. /\ Under(P, f.from, used, closed, first) /\ P # <<>> /\ Within(f, Last(P))
      /\ \E Q, h : OpenAt(Q, h, P) /\ Last(P) = h /\ Front(P) = Q
  BY <1>1, <1>2, GoingBelow
<1>4. PICK Q, h : OpenAt(Q, h, P) /\ Last(P) = h /\ Front(P) = Q
  BY <1>3
<1>5. PICK g : g = [h EXCEPT !.owner = "dangling"]
  OBVIOUS
<1>6. PICK outer : outer = IF f.owner \in {"se", "dangling"} /\ h.kind = "control" THEN Q \o <<g>> ELSE P
  OBVIOUS
<1>7. /\ used' = used + 1 /\ used + 1 <= MaxNodes /\ ReduceCommand(outer, used + 1, {})
      /\ Built("control", f.kids, f.from)
  BY <1>1, <1>2, <1>4, <1>5, <1>6 DEF EndControl, Allocate
<1>8. h.kind \in Started /\ used \in Nat /\ Firsts(used, first)
  BY <1>2, <1>3, <1>4, GoingTop DEF Within, Started
<1>9. PICK o : OpenAt(Q, o, outer) /\ o.kind \in Started /\ Under(outer, f.from, used, closed, first)
  <2>1. CASE outer = P
    BY <1>3, <1>4, <1>8, <2>1
  <2>2. CASE h.kind = "control" /\ outer = Q \o <<g>>
    <3>1. /\ h \in Frame(used) /\ Q \in Seq(Frame(used)) /\ P = Append(Q, h) /\ Steady(h) /\ Headed(h)
      BY <1>4 DEF OpenAt
    <3>2. /\ g \in Frame(used) /\ g.kind = "control" /\ g.owner = "dangling" /\ g.src = h.src
          /\ g.head = h.head /\ g.bare = h.bare /\ g.kids = h.kids /\ g.from = h.from
      BY <1>5, <2>2, <3>1 DEF Frame, Owners
    <3>3. Steady(g) /\ Headed(g)
      BY <2>2, <3>1, <3>2 DEF Steady, Headed
    <3>4. outer = Append(Q, g)
      BY <2>2, <3>1, <3>2, SeqAppend
    <3>5. OpenAt(Q, g, outer)
      BY <3>1, <3>2, <3>3, <3>4, OpenedOn
    <3>6. Under(outer, f.from, used, closed, first)
      <4>1. Under(Append(Q, h), f.from, used, closed, first) /\ f.from \in Nat
        BY <1>1, <1>3, <3>1
      <4> QED BY <1>8, <2>2, <3>1, <3>2, <3>4, <4>1, UnderAlike
    <3> QED BY <3>2, <3>5, <3>6 DEF Started
  <2> QED BY <1>6, <2>1, <2>2
<1>10. closed \subseteq closed'
  BY <1>7 DEF ReduceCommand
<1>11. /\ f.from <= used + 1 /\ f.from <= used' + 1 /\ used <= used' /\ used' \in Nat
       /\ Firsts(used', first') /\ \A n \in 1..used : first'[n] = first[n]
       /\ \A q \in (used + 1)..used' : f.from <= first'[q]
       /\ used + 1 \in 1..used' \cup {NULL} /\ Reads(used + 1, f.from, used', first')
  BY <1>1, <1>7, <1>10, BuiltReads
<1>12. Under(stack', used' + 1, used', closed', first') /\ Settled(closed, closed', used', first')
  <2>1. /\ Under(stack', used' + 1, used', closed', first')
        /\ Settled(closed \cup {}, closed', used', first')
    BY <1>1, <1>7, <1>9, <1>11, AfterStep, ReduceStep
  <2> QED BY <2>1 DEF Settled
<1>13. Grown(used', closed', tree', first')
  <2>1. Walks(f) = FALSE /\ f.src = <<>> /\ ("control" # "control") = FALSE
    BY <1>2 DEF Walks, Steady
  <2>2. Row(f.kids, FALSE, f.from, used, closed, first)
    BY <1>1, <2>1 DEF Tiled, Holds
  <2>3. f.kids \in Seq(1..used \cup {NULL})
    BY <1>2 DEF Frame
  <2>4. Row(f.kids, FALSE, f.from, used, closed', first')
    <3>1. Later(used, closed, first, closed', first')
      BY <1>10, <1>11 DEF Later
    <3> QED BY <1>8, <2>2, <2>3, <3>1, RowGrows
  <2>5. /\ Row(f.kids, "control" # "control", f.from, used, closed', first')
        /\ Settled(closed, closed', used', first')
    BY <1>12, <2>1, <2>4
  <2> QED BY <1>1, <1>7, <1>10, <2>5, BuiltReads
<1> QED BY <1>12, <1>13 DEF Going

LEMMA LocalVarsGoes ==
    ASSUME IInv, IInv', Going, NEW ty \in VarType, NEW k \in Nat \ {0}, LocalVars(ty, k)
    PROVE  Going'
<1>1. PICK P, f : /\ OpenAt(P, f, stack) /\ Top = f /\ Tiled(f, used, closed, first)
  BY GoingTop
<1>2. PICK t : t = [j \in 1..k |-> used + j]
  OBVIOUS
<1>3. PICK b : b = IF f.head = NULL THEN used + 1 ELSE f.head
  OBVIOUS
<1>4. PICK g : g = [f EXCEPT !.head = b, !.src = f.src \o t]
  OBVIOUS
<1>5. /\ used' = used + k /\ closed' = closed /\ Leaves /\ stack' = P \o <<g>>
  BY <1>1, <1>2, <1>3, <1>4 DEF LocalVars, AppendVars, Allocate, OpenAt
<1>6. /\ used \in Nat /\ Firsts(used, first) /\ used + 1 \in Nat \ {0} /\ (used + 1) - 1 = used
      /\ stack' \in Seq(Frame(used')) /\ used' \in Nat /\ used' <= MaxNodes /\ k \in Nat /\ k > 0
      /\ used <= used' /\ used + 1 <= used' + 1
  BY <1>5, GoingTop, AfterStep
<1>7. /\ Firsts(used', first') /\ Later(used, closed, first, closed', first')
      /\ \A n \in (used + 1)..(used + k) : first'[n] = n
      /\ Grown(used', closed', tree', first')
  <2>1. closed \subseteq closed' /\ Settled(closed, closed', used', first')
    BY <1>5 DEF Settled
  <2> QED BY <1>5, <1>6, <2>1, LeavesAre
<1>8. P \in Seq(Frame(used)) /\ f \in Frame(used) /\ stack = Append(P, f) /\ f \in Frame(used')
  BY <1>1, <1>6, FrameGrows DEF OpenAt
<1>9. g.src = f.src \o t /\ g.kids = f.kids /\ g.from = f.from /\ g.kind = f.kind
  BY <1>4, <1>8 DEF Frame
<1>10. stack' = Append(P, g) /\ g \in Frame(used')
  <2>1. stack' = Append(P, g)
    BY <1>5, <1>8, AppendIsConcat
  <2>2. Len(P) + 1 \in 1..Len(stack') /\ stack'[Len(P) + 1] = g
    BY <1>8, <2>1
  <2> QED BY <1>6, <2>1, <2>2
<1>11. /\ t \in Seq(1..used') /\ t # <<>> /\ t[1] = used + 1 /\ t[Len(t)] = used'
       /\ first'[t[1]] = used + 1 /\ Spread(t, first')
  <2>1. Len(t) = k /\ \A j \in 1..k : t[j] = used + j /\ used + j \in 1..used'
    BY <1>2, <1>5, <1>6
  <2>2. t \in Seq(1..used')
    <3>1. [j \in 1..k |-> used + j] \in [1..k -> 1..used']
      BY <1>5, <1>6
    <3> QED BY <1>2, <1>6, <3>1
  <2>3. Spread(t, first')
    BY <1>2, <1>6, <1>7, SpreadRun
  <2>4. 1 \in 1..k /\ k \in 1..k /\ used + 1 \in (used + 1)..(used + k)
    BY <1>6
  <2> QED BY <1>5, <1>7, <2>1, <2>2, <2>3, <2>4
<1>12. Tiled(g, used', closed', first')
  <2>1. Tiled(f, (used + 1) - 1, closed', first')
    BY <1>1, <1>6, <1>7, <1>8, TiledGrows
  <2> QED BY <1>6, <1>7, <1>8, <1>9, <1>11, <2>1, TiledAdd
<1>13. Under(Append(P, f), used + 1, used, closed, first)
  BY <1>8 DEF Going
<1>14. \A q \in (used + 1)..used' : used + 1 <= first'[q]
  BY <1>5, <1>6, <1>7
<1>15. Under(Append(P, g), used' + 1, used', closed', first')
  BY <1>6, <1>7, <1>8, <1>9, <1>10, <1>12, <1>13, <1>14, UnderStep
<1> QED BY <1>7, <1>10, <1>15 DEF Going
-----------------------------------------------------------------------------
LEMMA GlobalVarsGoes ==
    ASSUME IInv, IInv', Going, NEW ty \in VarType, NEW k \in Nat \ {0}, GlobalVars(ty, k)
    PROVE  Going'
<1>1. PICK P, f : /\ OpenAt(P, f, stack) /\ Top = f
  BY GoingTop
<1>2. /\ used \in Nat /\ Firsts(used, first) /\ used + 1 \in Nat \ {0} /\ k \in Nat /\ k > 0
      /\ stack' \in Seq(Frame(used')) /\ used' \in Nat /\ used' <= MaxNodes /\ MaxNodes \in Nat
      /\ \A n \in 1..used : tree[n].kids \in Seq(1..used \cup {NULL})
  BY GoingTop, AfterStep
<1>3. PICK t : t = [j \in 1..k |-> used + j]
  OBVIOUS
<1>4. PICK l, one : l = List("vars", "global") /\ one = [l EXCEPT !.head = used + 1, !.src = t]
  OBVIOUS
<1>5. PICK r : r = [kind |-> "gvar", kids |-> <<used + 1>>]
  OBVIOUS
<1>6. /\ used' = used + (k + 1) /\ closed' = closed \cup {one}
      /\ tree' = [tree EXCEPT ![used'] = r]
      /\ first' = [n \in Node |-> IF n \in Fresh(k) THEN n ELSE IF n = used' THEN used + 1 ELSE first[n]]
  <2>1. [List("vars", "global") EXCEPT !.head = used + 1, !.src = [j \in 1..k |-> used + j]] = one
    BY <1>3, <1>4
  <2> HIDE DEF List
  <2> QED BY <1>5, <2>1 DEF GlobalVars, Allocate
<1>7. stack' = P \o <<Added(f, used')>>
  <2>1. used' = used + k + 1
    BY <1>2, <1>6
  <2> HIDE DEF Added
  <2> QED BY <1>1, <2>1 DEF GlobalVars, OpenAt
<1>8. /\ used < used' /\ used <= used' /\ used' - 1 = used + k /\ used + 1 <= used + 1
      /\ \A n \in 1..used' : n \in Node /\ (n \in 1..used \/ n \in (used + 1)..(used + k) \/ n = used')
      /\ closed \subseteq closed' /\ used' \notin Fresh(k)
  BY <1>2, <1>6 DEF Node, Fresh
<1>9. /\ \A n \in 1..used : first'[n] = first[n] /\ tree'[n] = tree[n]
      /\ \A n \in (used + 1)..(used + k) : first'[n] = n /\ tree'[n] = tree[n] /\ n \in Node
      /\ first'[used'] = used + 1 /\ tree'[used'] = r
      /\ \A n \in Node : n > used' => tree'[n] = tree[n]
  <2>1. DOMAIN tree = Node
    BY DEF IInv, Typed
  <2> QED BY <1>2, <1>6, <1>8, <2>1 DEF Fresh, Node
<1>10. Firsts(used', first')
  <2>1. ASSUME NEW n \in Node PROVE first'[n] \in Node
    <3>1. first[n] \in Node /\ used + 1 \in Node
      BY <1>2, <1>6 DEF Firsts, Node
    <3> QED BY <1>6, <3>1
  <2>2. ASSUME NEW n \in 1..used' PROVE first'[n] <= n
    BY <1>2, <1>8, <1>9, FirstIs
  <2>3. first' \in [Node -> Node]
    BY <1>6, <2>1
  <2> QED BY <1>2, <2>2, <2>3 DEF Firsts
<1>11. /\ \A q \in (used + 1)..used' : used + 1 <= first'[q]
  BY <1>2, <1>8, <1>9
<1>12. Later(used, closed, first, closed', first')
  BY <1>8, <1>9 DEF Later
<1>13. /\ t \in Seq(1..used') /\ t # <<>> /\ t[1] = used + 1 /\ t[Len(t)] = used + k
       /\ Spread(t, first')
  <2>1. Len(t) = k /\ \A j \in 1..k : t[j] = used + j
    BY <1>2, <1>3
  <2>2. t \in Seq(1..used')
    <3>1. \A j \in 1..k : used + j \in 1..used'
      BY <1>2, <1>6
    <3>2. t \in [1..k -> 1..used']
      BY <1>3, <3>1
    <3> QED BY <1>2, <3>2
  <2>3. Spread(t, first')
    <3>1. \A n \in (used + 1)..(used + k) : first'[n] = n
      BY <1>9
    <3> QED BY <1>2, <1>3, <3>1, SpreadRun
  <2>4. 1 \in 1..k /\ k \in 1..k
    BY <1>2
  <2> QED BY <1>2, <2>1, <2>2, <2>3, <2>4
<1>14. /\ one.src = t /\ ~one.bare /\ one \in Frame(used') /\ one \in closed'
  <2>1. l \in Frame(used') /\ ~l.bare
    <3>1. "vars" \in Kinds /\ "global" \in Owners
      BY DEF Kinds, Owners
    <3>2. Void(l, used) /\ ~l.bare
      BY <1>2, <1>4, <3>1, ListIs
    <3> QED BY <1>2, <1>8, <3>2, FrameGrows DEF Void
  <2>2. used + 1 \in 1..used' \cup {NULL}
    BY <1>2, <1>6
  <2>3. one.src = t /\ one.bare = l.bare /\ one \in Frame(used')
    BY <1>4, <1>13, <2>1, <2>2 DEF Frame
  <2> QED BY <1>6, <2>1, <2>3
<1>15. Settled(closed, closed', used', first')
  BY <1>6, <1>13, <1>14 DEF Settled
<1>16. NodeFits(used', closed', tree', first')
  <2>1. tree'[used'].kids = <<used + 1>> /\ tree'[used'].kind = "gvar" /\ ("gvar" # "control") = TRUE
    BY <1>5, <1>9
  <2>2. Ends(closed', TRUE, used + 1, used + k)
    BY <1>13, <1>14 DEF Ends
  <2>3. /\ used + 1 \in 1..used' \cup {NULL} /\ used + 1 # NULL /\ used + 1 <= (used + k) + 1
        /\ used + k \in Nat /\ used + k # 0 /\ first'[used + 1] = used + 1
    BY <1>2, <1>8, <1>9, NodesAssumption
  <2>4. Row(<<used + 1>>, TRUE, used + 1, used + k, closed', first')
    BY <1>2, <1>10, <2>2, <2>3, RowOne
  <2> QED BY <1>8, <1>9, <1>11, <2>1, <2>4 DEF NodeFits
<1>17. ASSUME NEW n \in (used + 1)..(used + k) PROVE NodeFits(n, closed', tree', first')
  <2>1. tree'[n].kids = <<>> /\ first'[n] = n /\ n \in Nat \ {0}
    BY <1>2, <1>9 DEF Going, Grown
  <2>2. Row(<<>>, tree'[n].kind # "control", n, n - 1, closed', first')
    BY <2>1, RowEmpty
  <2>3. \A q \in n..n : n <= first'[q]
    BY <2>1
  <2> QED BY <2>1, <2>2, <2>3 DEF NodeFits
<1>18. Raised(used, closed, tree, used', closed', tree', first')
  <2>1. \A n \in (used + 1)..used' : NodeFits(n, closed', tree', first')
    BY <1>2, <1>8, <1>16, <1>17
  <2> QED BY <1>2, <1>9, <1>15, <2>1 DEF Raised
<1>19. Grown(used', closed', tree', first')
  <2>1. Grown(used, closed, tree, first)
    BY DEF Going
  <2> QED BY <1>2, <1>8, <1>10, <1>12, <1>18, <2>1, GrownGrows
<1>20. Under(stack', used' + 1, used', closed', first')
  <2>1. Under(stack, used + 1, used, closed, first)
    BY DEF Going
  <2> QED BY <1>1, <1>2, <1>7, <1>8, <1>9, <1>10, <1>11, <2>1, AddStep
<1> QED BY <1>19, <1>20 DEF Going
-----------------------------------------------------------------------------
\* The invariant of the tree: while it grows, and when it is whole.
Finished ==
    /\ phase = "parsed" /\ Row(root, TRUE, 1, used, Lists, first)
    /\ Lost(Lists) => Lost(closed)
    /\ \A f \in Lists : f \in Frame(used) /\ Spread(f.src, first)
TreeInv ==
    /\ Grown(used, closed, tree, first)
    /\ phase = "parsing" => root = <<>> /\ Under(stack, used + 1, used, closed, first)
    /\ root # <<>> => Finished

\* The program's block ends: the globals and the parts of the block are the tree.
LEMMA ProgramEnds ==
    ASSUME IInv, Going, EndBlock, Top.owner = "program"
    PROVE  Grown(used', closed', tree', first') /\ Finished' /\ phase' # "parsing"
<1>1. PICK P, f : OpenAt(P, f, stack) /\ Top = f /\ Tiled(f, used, closed, first) /\ f.from \in Nat \ {0}
  BY GoingTop
<1>2. f.kind = "cmds" /\ Front(stack) = P /\ f.owner = "program" /\ f \in Frame(used) /\ Headed(f)
  BY <1>1 DEF EndBlock, Reading, OpenAt
<1>3. /\ Under(P, f.from, used, closed, first) /\ P # <<>> /\ Within(f, Last(P))
      /\ \E Q, h : OpenAt(Q, h, P) /\ Last(P) = h /\ Front(P) = Q
  BY <1>1, <1>2, GoingBelow
<1>4. PICK Q, h : OpenAt(Q, h, P) /\ Last(P) = h /\ Front(P) = Q
  BY <1>3
<1>5. h.kind = "globals" /\ h \in Frame(used) /\ Headed(h) /\ P = Append(Q, h) /\ Q \in Seq(Frame(used))
  BY <1>2, <1>3, <1>4 DEF Within, OpenAt
<1>6. /\ used \in Nat /\ Firsts(used, first) /\ f.from - 1 \in Nat /\ (f.from - 1) + 1 = f.from
  BY <1>1, GoingTop
<1>7. Q = <<>> /\ P = <<h>> /\ stack[1] = h
  <2>1. /\ stack = Append(Append(Q, h), f) /\ Len(Q) \in Nat /\ Len(stack) = Len(Q) + 2
        /\ stack[Len(Q) + 1] = h
    BY <1>1, <1>4, <1>5 DEF OpenAt
  <2>2. CASE Q # <<>>
    <3>1. Len(Q) + 1 \in 2..Len(stack)
      BY <1>5, <2>1, <2>2
    <3>2. Within(h, stack[(Len(Q) + 1) - 1])
      BY <2>1, <3>1 DEF IInv, Whole, Nested
    <3> QED BY <1>5, <3>2 DEF Within
  <2>3. CASE Q = <<>>
    <3>1. Append(<<>>, h) = <<h>> /\ Len(<<>>) + 1 = 1
      OBVIOUS
    <3> QED BY <1>5, <2>1, <2>3, <3>1
  <2> QED BY <2>2, <2>3
<1>8. /\ closed' = closed \cup {f} /\ stack' = <<h>> /\ used' = used /\ tree' = tree /\ first' = first
      /\ root' = <<h.head>> \o Append(f.kids, f.head) /\ phase' = "parsed"
  BY <1>1, <1>2, <1>7 DEF EndBlock
<1>9. h.from = 1 /\ Tiled(h, f.from - 1, closed, first)
  <2>1. f.from \in Nat /\ Under(Append(Q, h), f.from, used, closed, first)
    BY <1>1, <1>3, <1>5
  <2> QED BY <1>5, <1>6, <1>7, <2>1, UnderTop
<1>10. PICK L : L = closed \cup {f} \cup {h}
  OBVIOUS
<1>11. Lists' = L
  <2>1. Range(<<h>>) = {h}
    BY DEF Range
  <2> QED BY <1>8, <1>10, <2>1 DEF Lists
<1>12. closed \subseteq L /\ f \in L /\ h \in L
  BY <1>10
<1>13. Row(<<h.head>>, TRUE, 1, f.from - 1, L, first)
  <2>1. Walks(h) /\ h.kind \in Alone
    BY <1>5 DEF Walks, Alone
  <2> QED BY <1>5, <1>6, <1>9, <1>12, <2>1, TiledEnds
<1>14. Row(Append(f.kids, f.head), TRUE, (f.from - 1) + 1, used, L, first)
  <2>1. Walks(f)
    BY <1>2 DEF Walks
  <2> QED BY <1>1, <1>2, <1>6, <1>12, <2>1, TiledEnds
<1>15. Row(root', TRUE, 1, used, L, first)
  <2>1. <<h.head>> \in Seq(1..used \cup {NULL}) /\ 1 \in Nat \ {0}
    <3>1. h.head \in 1..used \cup {NULL}
      BY <1>5 DEF Frame
    <3> QED BY <3>1
  <2>2. Append(f.kids, f.head) \in Seq(1..used \cup {NULL})
    <3>1. f.kids \in Seq(1..used \cup {NULL}) /\ f.head \in 1..used \cup {NULL}
      BY <1>2 DEF Frame
    <3> QED BY <3>1
  <2>3. Row(<<h.head>> \o Append(f.kids, f.head), TRUE, 1, used, L, first)
    BY <1>6, <1>13, <1>14, <2>1, <2>2, RowConcat
  <2> QED BY <1>8, <2>3
<1>16. \A g \in L : g \in Frame(used) /\ Spread(g.src, first)
  BY <1>1, <1>2, <1>5, <1>9, <1>10 DEF Going, Grown, Tiled
<1>17. Grown(used', closed', tree', first')
  <2>1. Settled(closed, closed', used, first)
    BY <1>8, <1>10, <1>16 DEF Settled
  <2> QED BY <1>8, <2>1, SameAre
<1>18. Lost(L) => Lost(closed')
  <2>1. ~h.bare
    BY <1>4, <1>5 DEF OpenAt, Steady
  <2> QED BY <1>8, <1>10, <2>1 DEF Lost
<1> QED BY <1>8, <1>11, <1>15, <1>16, <1>17, <1>18 DEF Finished

LEMMA TreeBegins ==
    ASSUME NEW tr, tr = [n \in Node |-> Leaf], NEW fs, fs = [n \in Node |-> n]
    PROVE  Grown(0, {}, tr, fs) /\ Under(<<Nothing>>, 1, 0, {}, fs)
<1>1. Firsts(0, fs)
  BY NodesAssumption DEF Firsts
<1>2. Grown(0, {}, tr, fs)
  BY <1>1 DEF Grown, Leaf
<1>3. /\ Nothing.src = <<>> /\ Nothing.kids = <<>> /\ Nothing.from = 1
      /\ Nothing \in Frame(0) /\ <<>> \in Seq(Frame(0))
  <2>1. /\ <<>> \in Seq(1..0) /\ <<>> \in Seq(1..0 \cup {NULL}) /\ FALSE \in BOOLEAN
        /\ 1 \in 1..(0 + 1) /\ 0 \in Nat /\ <<>> \in Seq(Frame(0))
    OBVIOUS
  <2> QED BY <2>1 DEF Frame, Nothing, Kinds, Owners
<1>4. Tiled(Nothing, 0, {}, fs)
  <2>1. Nothing.from = 0 + 1 /\ 0 \in Nat
    BY <1>3
  <2> QED BY <1>3, <2>1, TiledNew
<1>5. Inner(Nothing, 0, fs) /\ Under(<<>>, 1, 0, {}, fs)
  BY <1>3 DEF Inner, Under
<1>6. Append(<<>>, Nothing) = <<Nothing>> /\ 1 - 1 = 0 /\ 1 \in Nat /\ 0 \in Nat /\ 1 <= 1
  OBVIOUS
<1>7. Under(Append(<<>>, Nothing), 1, 0, {}, fs)
  BY <1>3, <1>4, <1>5, <1>6, UnderTop
<1> QED BY <1>2, <1>6, <1>7

LEMMA NextReads == Next => phase = "parsing"
BY DEF Next, GlobalVars, LocalVars, AppendVars, BeginFunction, Param, FunctionBlock, ProgramBlock,
       CommandBlock, EmptyCommand, SimpleCommand, BeginControl, Senao, EndControl, BeginCall, Arg,
       EndCallArg, EndCallCommand, EndBlock, Reading, GiveUp

LEMMA TreeStep ==
    ASSUME IInv, IInv', TreeInv, Next
    PROVE  TreeInv'
<1>1. CASE GiveUp
  <2>1. /\ used' = 0 /\ closed' = {} /\ tree' = [n \in Node |-> Leaf] /\ first' = [n \in Node |-> n]
        /\ phase' # "parsing" /\ root' = <<>>
    BY <1>1 DEF GiveUp, NoTree
  <2>2. Grown(0, {}, tree', first')
    BY <2>1, TreeBegins
  <2> QED BY <2>1, <2>2 DEF TreeInv
<1>2. CASE ~GiveUp
  <2>1. phase = "parsing"
    BY NextReads
  <2>2. Going /\ root = <<>>
    BY <2>1 DEF TreeInv, Going
  <2>3. CASE EndBlock /\ Top.owner = "program"
    <3>1. Grown(used', closed', tree', first') /\ Finished' /\ phase' # "parsing"
      BY <2>2, <2>3, ProgramEnds
    <3> QED BY <3>1 DEF TreeInv
  <2>4. CASE ~(EndBlock /\ Top.owner = "program")
    <3>1. Going'
      <4>1. CASE BeginFunction \/ ProgramBlock \/ CommandBlock \/ BeginControl \/ BeginCall
        BY <2>2, <4>1, OpenGoes
      <4>2. CASE Param \/ Arg
        BY <2>2, <4>2, AddGoes
      <4>3. CASE FunctionBlock
        BY <2>2, <4>3, FunctionBlockGoes
      <4>4. CASE EmptyCommand \/ SimpleCommand
        BY <2>2, <4>4, CommandGoes
      <4>5. CASE Senao
        BY <2>2, <4>5, SenaoGoes
      <4>6. CASE EndControl
        BY <2>2, <4>6, EndControlGoes
      <4>7. CASE EndCallArg
        BY <2>2, <4>7, EndCallArgGoes
      <4>8. CASE EndCallCommand
        BY <2>2, <4>8, EndCallCommandGoes
      <4>9. CASE EndBlock
        BY <2>2, <2>4, <4>9, EndBlockGoes
      <4>10. ASSUME NEW t \in VarType, NEW k \in Node, GlobalVars(t, k) \/ LocalVars(t, k)
             PROVE  Going'
        BY <2>2, <4>10, NodesArePositive, GlobalVarsGoes, LocalVarsGoes
      <4> QED BY <1>2, <4>1, <4>2, <4>3, <4>4, <4>5, <4>6, <4>7, <4>8, <4>9, <4>10 DEF Next
    <3>2. root' = root
      BY <1>2, <2>4 DEF Next, GlobalVars, LocalVars, AppendVars, BeginFunction, Param, FunctionBlock,
                ProgramBlock, CommandBlock, EmptyCommand, SimpleCommand, BeginControl, Senao,
                EndControl, BeginCall, Arg, EndCallArg, EndCallCommand, EndBlock, Built, Leaves, built
    <3> QED BY <2>2, <3>1, <3>2 DEF TreeInv, Going
  <2> QED BY <2>3, <2>4
<1> QED BY <1>1, <1>2

\* What the parser builds lies in the tree as it lies in the source: the parts of a
\* construct, and the constructs of a list, one after the other without a gap.
THEOREM TreeIsTheSource == Spec => [](IInv /\ TreeInv)
<1>1. Init => IInv /\ TreeInv
  <2> SUFFICES ASSUME Init PROVE IInv /\ TreeInv
    OBVIOUS
  <2>1. /\ used = 0 /\ closed = {} /\ tree = [n \in Node |-> Leaf] /\ first = [n \in Node |-> n]
        /\ stack = <<Nothing>> /\ root = <<>> /\ used + 1 = 1
    BY DEF Init, List, Nothing
  <2>2. Grown(0, {}, tree, first) /\ Under(<<Nothing>>, 1, 0, {}, first)
    BY <2>1, TreeBegins
  <2> QED BY <2>1, <2>2, InitKeeps DEF TreeInv
<1>2. IInv /\ IInv' /\ TreeInv /\ [Next]_vars => TreeInv'
  <2>1. ASSUME TreeInv, UNCHANGED vars PROVE TreeInv'
    BY <2>1 DEF TreeInv, Finished, Lists, vars, built
  <2> QED BY <2>1, TreeStep
<1> QED BY <1>1, <1>2, Inductive, PTL DEF Spec
-----------------------------------------------------------------------------
\* The tree that is printed: its lists share no node, are linked, and each node or
\* list takes up the source from its first node to its last.
Orderly(u, L, nxt, fs) ==
    /\ Firsts(u, fs)
    /\ \A n \in 1..u : \A q \in fs[n]..n : fs[n] <= fs[q]
    /\ \A f \in L : f \in Frame(u) /\ Spread(f.src, fs) /\ Fits(f, nxt, u)
    /\ \A f, g \in L : \A j \in 1..Len(f.src), k \in 1..Len(g.src) :
          f.src[j] = g.src[k] => f = g /\ j = k

LEMMA OrderlyIs ==
    ASSUME IInv, TreeInv, root # <<>>
    PROVE  Orderly(used, Lists, next, first)
<1>1. /\ Firsts(used, first) /\ \A n \in 1..used : \A q \in first[n]..n : first[n] <= first[q]
      /\ \A f \in Lists : f \in Frame(used) /\ Spread(f.src, first)
  BY DEF TreeInv, Grown, NodeFits, Finished
<1>2. \A f \in Lists : Fits(f, next, used) /\ \E a \in Slots(stack, closed) : a.list = f
  BY Placed
<1>3. ASSUME NEW f \in Lists, NEW g \in Lists, NEW j \in 1..Len(f.src), NEW k \in 1..Len(g.src),
             f.src[j] = g.src[k]
      PROVE  f = g /\ j = k
  <2>1. PICK a \in Slots(stack, closed), b \in Slots(stack, closed) : a.list = f /\ b.list = g
    BY <1>2
  <2> QED BY <1>3, <2>1 DEF IInv, Whole, Sound, Good
<1> QED BY <1>1, <1>2, <1>3 DEF Orderly

\* A cursor prints from the first node of what it stands at to node e, the last of
\* the list if it is walked.
Cursor(u) == [at : 1..u \cup {NULL}, walk : BOOLEAN]
Final(c, L, e) ==
    IF c.walk THEN \E f \in L : ~f.bare /\ \E j \in 1..Len(f.src) : f.src[j] = c.at /\ e = f.src[Len(f.src)]
    ELSE e = c.at
Hi(c, L) == CHOOSE e : Final(c, L, e)
Span(c, L, fs) == IF c.at = NULL THEN {} ELSE fs[c.at]..Hi(c, L)
Fine(c, L) == c.at # NULL => \E e : Final(c, L, e)

LEMMA FinalIs ==
    ASSUME NEW u \in Nat, NEW L, NEW nxt, NEW fs, Orderly(u, L, nxt, fs), NEW c, NEW e, Final(c, L, e)
    PROVE  Hi(c, L) = e
<1>1. Final(c, L, Hi(c, L))
  BY DEF Hi
<1>2. CASE c.walk
  <2>1. PICK f \in L : \E j \in 1..Len(f.src) : f.src[j] = c.at /\ e = f.src[Len(f.src)]
    BY <1>2 DEF Final
  <2>2. PICK g \in L : \E k \in 1..Len(g.src) : g.src[k] = c.at /\ Hi(c, L) = g.src[Len(g.src)]
    BY <1>1, <1>2 DEF Final
  <2>3. f = g
    BY <2>1, <2>2 DEF Orderly
  <2> QED BY <2>1, <2>2, <2>3
<1>3. CASE ~c.walk
  BY <1>1, <1>3 DEF Final
<1> QED BY <1>2, <1>3

\* Place j of a list.
LEMMA SpreadAt ==
    ASSUME NEW u \in Nat, NEW fs, Firsts(u, fs), NEW s \in Seq(1..u), Spread(s, fs), NEW j \in 1..Len(s)
    PROVE  /\ s[j] \in 1..u /\ s[Len(s)] \in 1..u /\ s[j] <= s[Len(s)] /\ fs[s[j]] \in Nat \ {0}
           /\ fs[s[j]] <= s[j] /\ \A q \in fs[s[j]]..s[Len(s)] : fs[s[j]] <= fs[q]
           /\ j < Len(s) => j + 1 \in 1..Len(s) /\ fs[s[j + 1]] = s[j] + 1
           /\ j < Len(s) \/ j = Len(s)
<1>1. u \in Nat /\ Len(s) \in Nat /\ Len(s) \in 1..Len(s) /\ s[j] \in 1..u /\ s[Len(s)] \in 1..u
  BY DEF Firsts
<1>2. /\ fs[s[j]] \in Nat \ {0} /\ fs[s[j]] <= s[j] /\ fs[s[Len(s)]] \in Nat /\ fs[s[Len(s)]] <= s[Len(s)]
  BY <1>1, FirstIs
<1>3. s[j] <= s[Len(s)]
  <2>1. CASE j < Len(s)
    <3>1. s[j] < fs[s[Len(s)]]
      BY <1>1, <2>1 DEF Spread
    <3> QED BY <1>1, <1>2, <3>1
  <2>2. CASE j = Len(s)
    BY <1>1, <2>2
  <2> QED BY <1>1, <2>1, <2>2
<1>4. \A q \in fs[s[j]]..s[Len(s)] : fs[s[j]] <= fs[q]
  BY DEF Spread
<1>5. j < Len(s) => j + 1 \in 1..Len(s) /\ fs[s[j + 1]] = s[j] + 1
  BY <1>1 DEF Spread
<1> QED BY <1>1, <1>2, <1>3, <1>4, <1>5

LEMMA SpanIs ==
    ASSUME NEW u \in Nat, NEW L, NEW nxt, NEW fs, Orderly(u, L, nxt, fs), NEW c \in Cursor(u), Fine(c, L),
           c.at # NULL
    PROVE  /\ Hi(c, L) \in 1..u /\ c.at \in 1..u /\ c.at <= Hi(c, L)
           /\ fs[c.at] \in Nat \ {0} /\ fs[c.at] <= c.at /\ Span(c, L, fs) = fs[c.at]..Hi(c, L)
           /\ \A q \in Span(c, L, fs) : fs[c.at] <= fs[q]
<1>1. Firsts(u, fs) /\ c.at \in 1..u
  BY DEF Orderly, Cursor
<1>2. fs[c.at] \in Nat \ {0} /\ fs[c.at] <= c.at
  BY <1>1, FirstIs
<1>3. PICK e : Final(c, L, e)
  BY DEF Fine
<1>4. Hi(c, L) = e
  BY <1>3, FinalIs
<1>5. Span(c, L, fs) = fs[c.at]..e
  BY <1>4 DEF Span
<1>6. e \in 1..u /\ c.at <= e /\ \A q \in fs[c.at]..e : fs[c.at] <= fs[q]
  <2>1. CASE c.walk
    <3>1. PICK f \in L : \E j \in 1..Len(f.src) : f.src[j] = c.at /\ e = f.src[Len(f.src)]
      BY <1>3, <2>1 DEF Final
    <3>2. f.src \in Seq(1..u) /\ Spread(f.src, fs)
      BY DEF Orderly, Frame
    <3> QED BY <1>1, <3>1, <3>2, SpreadAt
  <2>2. CASE ~c.walk
    <3>1. e = c.at
      BY <1>3, <2>2 DEF Final
    <3>2. c.at <= c.at
      BY <1>1
    <3> QED BY <1>1, <3>1, <3>2 DEF Orderly
  <2> QED BY <2>1, <2>2
<1> QED BY <1>1, <1>2, <1>4, <1>5, <1>6

\* What comes after a node in its list: from the next node h on.
Onward(c, h, u, L, fs) == \A d : d.at = h /\ d.walk = TRUE =>
    d.at \in 1..u \cup {NULL} /\ Fine(d, L) /\ Span(d, L, fs) = (c.at + 1)..Hi(c, L)

LEMMA NextIs ==
    ASSUME NEW u \in Nat, NEW L, NEW nxt, NEW fs, Orderly(u, L, nxt, fs), NEW c \in Cursor(u), Fine(c, L),
           c.at # NULL
    PROVE  /\ ~c.walk => Hi(c, L) = c.at
           /\ c.walk => Onward(c, nxt[c.at], u, L, fs)
<1>1. PICK e : Final(c, L, e)
  BY DEF Fine
<1>2. Hi(c, L) = e
  BY <1>1, FinalIs
<1>3. ~c.walk => Hi(c, L) = c.at
  BY <1>1, <1>2 DEF Final
<1>4. ASSUME c.walk, NEW d, d.at = nxt[c.at], d.walk = TRUE
      PROVE  d.at \in 1..u \cup {NULL} /\ Fine(d, L) /\ Span(d, L, fs) = (c.at + 1)..Hi(c, L)
  <2>1. PICK f \in L : ~f.bare /\ \E j \in 1..Len(f.src) : f.src[j] = c.at /\ e = f.src[Len(f.src)]
    BY <1>1, <1>4 DEF Final
  <2>2. PICK j \in 1..Len(f.src) : ~f.bare /\ f.src[j] = c.at /\ e = f.src[Len(f.src)]
    BY <2>1
  <2>3. /\ f.src \in Seq(1..u) /\ Spread(f.src, fs) /\ Fits(f, nxt, u) /\ Firsts(u, fs)
    BY DEF Orderly, Frame
  <2>4. /\ c.at \in 1..u /\ e \in 1..u /\ c.at <= e
        /\ (j < Len(f.src) => j + 1 \in 1..Len(f.src) /\ fs[f.src[j + 1]] = c.at + 1)
        /\ (j < Len(f.src) \/ j = Len(f.src))
    BY <2>2, <2>3, SpreadAt
  <2>5. nxt[c.at] = IF j < Len(f.src) THEN f.src[j + 1] ELSE NULL
    <3>1. f.src # <<>>
      BY <2>2, <2>3
    <3> QED BY <2>2, <2>3, <3>1 DEF Fits
  <2>6. CASE j < Len(f.src)
    <3>1. d.at = f.src[j + 1] /\ j + 1 \in 1..Len(f.src) /\ d.at \in 1..u
      <4>1. j + 1 \in 1..Len(f.src)
        BY <2>4, <2>6
      <4>2. f.src[j + 1] \in 1..u
        BY <2>3, <4>1
      <4> QED BY <1>4, <2>5, <2>6, <4>1, <4>2
    <3>2. Final(d, L, e)
      BY <1>4, <2>2, <3>1 DEF Final
    <3>3. Hi(d, L) = e /\ Fine(d, L)
      BY <3>2, FinalIs DEF Fine
    <3>4. d.at # NULL
      BY <2>3, <3>1, FirstIs
    <3> QED BY <1>2, <2>4, <2>6, <3>1, <3>3, <3>4 DEF Span
  <2>7. CASE j = Len(f.src)
    <3>1. d.at = NULL /\ e = c.at
      BY <1>4, <2>2, <2>3, <2>5, <2>7
    <3>2. (c.at + 1)..e = {}
      BY <2>4, <3>1
    <3> QED BY <1>2, <3>1, <3>2 DEF Fine, Span
  <2> QED BY <2>4, <2>6, <2>7
<1> QED BY <1>3, <1>4 DEF Onward
-----------------------------------------------------------------------------
\* What the cursors cs print is fine, and each prints what lies before what the later
\* ones print.
Walked(cs, L, fs) ==
    /\ \A i \in 1..Len(cs) : Fine(cs[i], L)
    /\ \A i, j \in 1..Len(cs) : i < j => \A q \in Span(cs[i], L, fs), r \in Span(cs[j], L, fs) : q < r
Pending(cs, L, fs) == UNION {Span(cs[i], L, fs) : i \in 1..Len(cs)}

LEMMA WalkedNone ==
    ASSUME NEW L, NEW fs
    PROVE  Walked(<<>>, L, fs) /\ Pending(<<>>, L, fs) = {}
BY DEF Walked, Pending

LEMMA WalkedOne ==
    ASSUME NEW c, NEW L, NEW fs, Fine(c, L)
    PROVE  Walked(<<c>>, L, fs) /\ Pending(<<c>>, L, fs) = Span(c, L, fs)
<1>1. Len(<<c>>) = 1 /\ <<c>>[1] = c
  OBVIOUS
<1> QED BY <1>1 DEF Walked, Pending

LEMMA WalkedConcat ==
    ASSUME NEW X, NEW cs \in Seq(X), NEW ds \in Seq(X), NEW L, NEW fs, Walked(cs, L, fs), Walked(ds, L, fs),
           \A q \in Pending(cs, L, fs), r \in Pending(ds, L, fs) : q < r
    PROVE  /\ Walked(cs \o ds, L, fs) /\ cs \o ds \in Seq(X)
           /\ Pending(cs \o ds, L, fs) = Pending(cs, L, fs) \cup Pending(ds, L, fs)
<1> DEFINE S == cs \o ds
           k == Len(cs)
           l == Len(ds)
<1>1. /\ k \in Nat /\ l \in Nat /\ Len(S) = k + l
      /\ \A i \in 1..k : S[i] = cs[i]
      /\ \A i \in 1..l : S[k + i] = ds[i]
  OBVIOUS
<1>2. \A i \in 1..(k + l) : i \in 1..k \/ (\E j \in 1..l : i = k + j)
  <2> TAKE i \in 1..(k + l)
  <2>1. CASE i > k
    <3>1. i - k \in 1..l /\ i = k + (i - k)
      BY <1>1, <2>1
    <3> QED BY <3>1
  <2> QED BY <1>1, <2>1
<1> HIDE DEF S
<1>3. \A i \in 1..k : i \in 1..Len(S) /\ Span(S[i], L, fs) = Span(cs[i], L, fs)
  BY <1>1
<1>4. \A i \in 1..l : k + i \in 1..Len(S) /\ Span(S[k + i], L, fs) = Span(ds[i], L, fs)
  BY <1>1
<1>5. Pending(S, L, fs) = Pending(cs, L, fs) \cup Pending(ds, L, fs)
  <2>1. ASSUME NEW q \in Pending(S, L, fs) PROVE q \in Pending(cs, L, fs) \cup Pending(ds, L, fs)
    <3>1. PICK i \in 1..(k + l) : q \in Span(S[i], L, fs)
      BY <1>1 DEF Pending
    <3> QED BY <1>2, <1>3, <1>4, <3>1 DEF Pending
  <2>2. ASSUME NEW q \in Pending(cs, L, fs) PROVE q \in Pending(S, L, fs)
    BY <1>3 DEF Pending
  <2>3. ASSUME NEW q \in Pending(ds, L, fs) PROVE q \in Pending(S, L, fs)
    BY <1>4 DEF Pending
  <2> QED BY <2>1, <2>2, <2>3
<1>6. ASSUME NEW i \in 1..Len(S) PROVE Fine(S[i], L)
  BY <1>1, <1>2 DEF Walked
<1>7. ASSUME NEW i \in 1..Len(S), NEW j \in 1..Len(S), i < j,
             NEW q \in Span(S[i], L, fs), NEW r \in Span(S[j], L, fs)
      PROVE  q < r
  <2>1. CASE i \in 1..k /\ j \in 1..k
    BY <1>3, <1>7, <2>1 DEF Walked
  <2>2. CASE i \in 1..k /\ \E m \in 1..l : j = k + m
    <3>1. q \in Pending(cs, L, fs) /\ r \in Pending(ds, L, fs)
      BY <1>3, <1>4, <1>7, <2>2 DEF Pending
    <3> QED BY <3>1
  <2>3. ASSUME NEW m \in 1..l, i = k + m PROVE q < r
    <3>1. PICK n \in 1..l : j = k + n
      <4>1. j \in 1..(k + l) /\ j \notin 1..k
        BY <1>1, <1>7, <2>3
      <4> QED BY <1>2, <4>1
    <3>2. m < n
      BY <1>1, <1>7, <2>3, <3>1
    <3> QED BY <1>4, <1>7, <2>3, <3>1, <3>2 DEF Walked
  <2> QED BY <1>1, <1>2, <2>1, <2>2, <2>3
<1>8. Walked(S, L, fs)
  BY <1>6, <1>7 DEF Walked
<1>9. cs \o ds \in Seq(X)
  OBVIOUS
<1> QED BY <1>5, <1>8, <1>9 DEF S

LEMMA WalkedTail ==
    ASSUME NEW X, NEW cs \in Seq(X), cs # <<>>, NEW L, NEW fs, Walked(cs, L, fs)
    PROVE  /\ Head(cs) \in X /\ Fine(Head(cs), L) /\ Tail(cs) \in Seq(X) /\ Walked(Tail(cs), L, fs)
           /\ Pending(cs, L, fs) = Span(Head(cs), L, fs) \cup Pending(Tail(cs), L, fs)
           /\ \A q \in Span(Head(cs), L, fs), r \in Pending(Tail(cs), L, fs) : q < r
<1>1. PICK ds, l : ds = Tail(cs) /\ l = Len(ds)
  OBVIOUS
<1>2. /\ Head(cs) = cs[1] /\ Head(cs) \in X /\ ds \in Seq(X) /\ l \in Nat /\ Len(cs) = l + 1
      /\ \A i \in 1..l : ds[i] = cs[i + 1]
  BY <1>1, HeadTailProperties
<1>3. 1 \in 1..Len(cs) /\ \A i \in 1..l : i + 1 \in 1..Len(cs) /\ 1 < i + 1
  BY <1>2
<1>4. \A i \in 1..Len(cs) : i = 1 \/ \E j \in 1..l : i = j + 1
  <2> TAKE i \in 1..Len(cs)
  <2>1. CASE i # 1
    <3>1. i - 1 \in 1..l /\ i = (i - 1) + 1
      BY <1>2, <2>1
    <3> QED BY <3>1
  <2> QED BY <2>1
<1>5. Fine(Head(cs), L) /\ \A i \in 1..l : Fine(ds[i], L)
  BY <1>2, <1>3 DEF Walked
<1>6. Pending(cs, L, fs) = Span(Head(cs), L, fs) \cup Pending(ds, L, fs)
  <2>1. ASSUME NEW q \in Pending(cs, L, fs) PROVE q \in Span(Head(cs), L, fs) \cup Pending(ds, L, fs)
    <3>1. PICK i \in 1..Len(cs) : q \in Span(cs[i], L, fs)
      BY DEF Pending
    <3> QED BY <1>1, <1>2, <1>4, <3>1 DEF Pending
  <2>2. Span(Head(cs), L, fs) \subseteq Pending(cs, L, fs)
    BY <1>2, <1>3 DEF Pending
  <2>3. Pending(ds, L, fs) \subseteq Pending(cs, L, fs)
    BY <1>1, <1>2, <1>3 DEF Pending
  <2> QED BY <2>1, <2>2, <2>3
<1>7. \A q \in Span(Head(cs), L, fs), r \in Pending(ds, L, fs) : q < r
  BY <1>1, <1>2, <1>3 DEF Walked, Pending
<1>8. Walked(ds, L, fs)
  <2>1. ASSUME NEW i \in 1..l, NEW j \in 1..l, i < j, NEW q \in Span(ds[i], L, fs), NEW r \in Span(ds[j], L, fs)
        PROVE  q < r
    <3>1. i + 1 \in 1..Len(cs) /\ j + 1 \in 1..Len(cs) /\ i + 1 < j + 1
      BY <1>2, <2>1
    <3> QED BY <1>2, <2>1, <3>1 DEF Walked
  <2> QED BY <1>1, <1>5, <2>1 DEF Walked
<1> QED BY <1>1, <1>2, <1>5, <1>6, <1>7, <1>8

Stand(cs, K, walk, u) ==
    /\ cs \in Seq(Cursor(u)) /\ Len(cs) = Len(K)
    /\ \A i \in 1..Len(K) : cs[i].at = K[i] /\ cs[i].walk = walk

LEMMA CursorsAre ==
    ASSUME NEW u, NEW K \in Seq(1..u \cup {NULL}), NEW walk \in BOOLEAN
    PROVE  Stand(Cursors(K, walk), K, walk, u)
<1>1. PICK n : n = Len(K)
  OBVIOUS
<1>2. n \in Nat /\ DOMAIN K = 1..n /\ \A j \in 1..n : K[j] \in 1..u \cup {NULL}
  BY <1>1
<1>3. PICK cs : cs = [j \in 1..n |-> [at |-> K[j], walk |-> walk]]
  OBVIOUS
<1>4. cs = Cursors(K, walk)
  BY <1>2, <1>3 DEF Cursors
<1>5. \A j \in 1..n : [at |-> K[j], walk |-> walk] \in Cursor(u)
  BY <1>2 DEF Cursor
<1>6. cs \in Seq(Cursor(u)) /\ Len(cs) = n
  BY <1>2, <1>3, <1>5
<1>7. \A i \in 1..n : cs[i].at = K[i] /\ cs[i].walk = walk
  BY <1>3
<1>8. Stand(cs, K, walk, u)
  BY <1>1, <1>6, <1>7 DEF Stand
<1> QED BY <1>4, <1>8

\* The cursors cs print no more than a..b, and all of it if nothing is lost.
Covers(cs, a, b, L, C, fs) ==
    /\ Walked(cs, L, fs) /\ Pending(cs, L, fs) \subseteq a..b
    /\ Lost(C) \/ a..b \subseteq Pending(cs, L, fs)

\* What hangs on the links K is printed in the order of the source.
LEMMA EndsFinal ==
    ASSUME NEW C, NEW L, C \subseteq L, NEW u \in Nat, NEW f, NEW walk \in BOOLEAN, NEW h, NEW e,
           Ends(C, walk, h, e), \A g \in L : g.src \in Seq(1..u), NEW c, c.at = h, c.walk = walk
    PROVE  Final(c, L, e)
<1>1. CASE walk
  <2>1. PICK g \in C : ~g.bare /\ g.src # <<>> /\ g.src[1] = h /\ g.src[Len(g.src)] = e
    BY <1>1 DEF Ends
  <2>2. g \in L /\ 1 \in 1..Len(g.src)
    <3>1. g \in L /\ g.src \in Seq(1..u)
      OBVIOUS
    <3> QED BY <2>1, <3>1
  <2> QED BY <1>1, <2>1, <2>2 DEF Final
<1>2. CASE ~walk
  BY <1>2 DEF Ends, Final
<1> QED BY <1>1, <1>2

LEMMA RowWalks ==
    ASSUME NEW u \in Nat, NEW L, NEW nxt, NEW fs, Orderly(u, L, nxt, fs), NEW C, C \subseteq L,
           NEW K \in Seq(1..u \cup {NULL}), NEW walk \in BOOLEAN, NEW a \in Nat, NEW b \in Nat,
           Row(K, walk, a, b, C, fs)
    PROVE  Covers(Cursors(K, walk), a, b, L, C, fs)
<1>1. PICK cs : cs = Cursors(K, walk)
  OBVIOUS
<1>2. /\ cs \in Seq(Cursor(u)) /\ Len(cs) = Len(K) /\ Len(K) \in Nat
      /\ \A i \in 1..Len(K) : cs[i].at = K[i] /\ cs[i].walk = walk
  <2>1. Stand(cs, K, walk, u)
    BY <1>1, CursorsAre
  <2> QED BY <2>1 DEF Stand
<1>3. /\ \A g \in L : g.src \in Seq(1..u)
      /\ Firsts(u, fs)
  BY DEF Orderly, Frame
<1>4. ASSUME NEW i \in 1..Len(K), NEW e, Ends(C, walk, K[i], e) PROVE Hi(cs[i], L) = e /\ Fine(cs[i], L)
  <2>1. Final(cs[i], L, e)
    BY <1>2, <1>3, <1>4, EndsFinal
  <2> QED BY <2>1, FinalIs DEF Fine
<1>5. ASSUME NEW i \in 1..Len(K), K[i] # NULL
      PROVE  /\ Fine(cs[i], L) /\ Hi(cs[i], L) \in 1..b /\ a <= fs[K[i]] /\ fs[K[i]] \in Nat
             /\ Span(cs[i], L, fs) = fs[K[i]]..Hi(cs[i], L)
  <2>1. K[i] \in 1..u /\ a <= fs[K[i]] /\ \E e \in 1..b : Ends(C, walk, K[i], e)
    BY <1>5 DEF Row
  <2>2. fs[K[i]] \in Nat
    BY <1>3, <2>1, FirstIs
  <2> QED BY <1>2, <1>4, <1>5, <2>1, <2>2 DEF Span
<1>6. \A i \in 1..Len(K) : K[i] = NULL => Fine(cs[i], L) /\ Span(cs[i], L, fs) = {}
  BY <1>2 DEF Fine, Span
<1>7. \A i \in 1..Len(cs) : Fine(cs[i], L)
  BY <1>2, <1>5, <1>6
<1>8. ASSUME NEW i \in 1..Len(cs), NEW j \in 1..Len(cs), i < j,
             NEW q \in Span(cs[i], L, fs), NEW r \in Span(cs[j], L, fs)
      PROVE  q < r
  <2>1. K[i] # NULL /\ K[j] # NULL /\ i \in 1..Len(K) /\ j \in 1..Len(K)
    BY <1>2, <1>6, <1>8
  <2>2. \E e \in 1..b : Ends(C, walk, K[i], e) /\ e < fs[K[j]]
    BY <1>8, <2>1 DEF Row
  <2>3. Hi(cs[i], L) < fs[K[j]]
    BY <1>4, <2>1, <2>2
  <2>4. /\ q \in fs[K[i]]..Hi(cs[i], L) /\ r \in fs[K[j]]..Hi(cs[j], L)
        /\ fs[K[i]] \in Nat /\ fs[K[j]] \in Nat /\ Hi(cs[i], L) \in 1..b /\ Hi(cs[j], L) \in 1..b
    BY <1>5, <1>8, <2>1
  <2> QED BY <2>3, <2>4
<1>9. Walked(cs, L, fs)
  BY <1>7, <1>8 DEF Walked
<1>10. Pending(cs, L, fs) \subseteq a..b
  <2> SUFFICES ASSUME NEW i \in 1..Len(K), NEW q \in Span(cs[i], L, fs) PROVE q \in a..b
    BY <1>2 DEF Pending
  <2>1. K[i] # NULL
    BY <1>6
  <2>2. q \in fs[K[i]]..Hi(cs[i], L) /\ fs[K[i]] \in Nat /\ Hi(cs[i], L) \in 1..b /\ a <= fs[K[i]]
    BY <1>5, <2>1
  <2> QED BY <2>2
<1>11. ASSUME ~Lost(C), NEW q \in a..b PROVE q \in Pending(cs, L, fs)
  <2>1. PICK i \in 1..Len(K) :
            K[i] # NULL /\ fs[K[i]] <= q /\ \E e \in 1..b : Ends(C, walk, K[i], e) /\ q <= e
    BY <1>11 DEF Row
  <2>2. q <= Hi(cs[i], L) /\ Hi(cs[i], L) \in 1..b /\ fs[K[i]] \in Nat
        /\ Span(cs[i], L, fs) = fs[K[i]]..Hi(cs[i], L)
    BY <1>4, <1>5, <2>1
  <2>3. q \in Span(cs[i], L, fs)
    BY <2>1, <2>2
  <2> QED BY <1>2, <2>3 DEF Pending
<1> QED BY <1>1, <1>9, <1>10, <1>11 DEF Covers
-----------------------------------------------------------------------------
\* Of two nodes the first printed is the one that was read first, or one that the other
\* is part of.
Ahead(v, q, fs) ==
    /\ v # q
    /\ q < v => fs[v] <= q
    /\ v < q => v < fs[q]

\* The nodes o are printed and the cursors cs are left: none is printed twice, none is
\* left out, and each is ahead of what comes after it.
Halfway(o, cs, u, L, C, fs) ==
    /\ cs \in Seq(Cursor(u)) /\ o \in Seq(1..u) /\ Walked(cs, L, fs)
    /\ \A i, j \in 1..Len(o) : i < j => Ahead(o[i], o[j], fs)
    /\ \A i \in 1..Len(o) : \A q \in Pending(cs, L, fs) : Ahead(o[i], q, fs)
    /\ Lost(C) \/ 1..u \subseteq Pending(cs, L, fs) \cup Range(o)

\* What is left is of nodes, and reaches back no further than its first one.
LEMMA PendingIn ==
    ASSUME NEW u \in Nat, NEW L, NEW nxt, NEW fs, Orderly(u, L, nxt, fs), NEW cs \in Seq(Cursor(u)),
           Walked(cs, L, fs), NEW q \in Pending(cs, L, fs)
    PROVE  q \in 1..u /\ fs[q] \in Nat /\ \E r \in Pending(cs, L, fs) : r \in Nat /\ r <= fs[q]
<1>1. PICK i \in 1..Len(cs) : q \in Span(cs[i], L, fs)
  BY DEF Pending
<1>2. PICK c : c = cs[i]
  OBVIOUS
<1>3. c \in Cursor(u) /\ Fine(c, L) /\ c.at # NULL
  BY <1>1, <1>2 DEF Walked, Span
<1>4. /\ Hi(c, L) \in 1..u /\ c.at \in 1..u /\ c.at <= Hi(c, L)
      /\ fs[c.at] \in Nat \ {0} /\ fs[c.at] <= c.at /\ Span(c, L, fs) = fs[c.at]..Hi(c, L)
      /\ \A r \in Span(c, L, fs) : fs[c.at] <= fs[r]
  BY <1>3, SpanIs
<1>5. q \in 1..u /\ fs[c.at] \in Span(c, L, fs) /\ fs[c.at] <= fs[q]
  BY <1>1, <1>2, <1>4
<1>6. fs[q] \in Nat
  BY <1>5, FirstIs DEF Orderly
<1>7. fs[c.at] \in Pending(cs, L, fs)
  BY <1>2, <1>5 DEF Pending
<1> QED BY <1>4, <1>5, <1>6, <1>7

\* The cursors ds are of the parts of node p, and bs of what comes after it up to e.
Around(p, e, ds, bs, L, C, fs) ==
    /\ Covers(ds, fs[p], p - 1, L, C, fs)
    /\ Walked(bs, L, fs) /\ Pending(bs, L, fs) = (p + 1)..e

\* One node is printed.
LEMMA NodeStep ==
    ASSUME NEW u \in Nat, NEW L, NEW nxt, NEW fs, Orderly(u, L, nxt, fs), NEW C, NEW o, NEW cs, cs # <<>>,
           Halfway(o, cs, u, L, C, fs), NEW p, p = Head(cs).at, p # NULL,
           NEW ds \in Seq(Cursor(u)), NEW bs \in Seq(Cursor(u)),
           Around(p, Hi(Head(cs), L), ds, bs, L, C, fs)
    PROVE  Halfway(Append(o, p), ds \o bs \o Tail(cs), u, L, C, fs)
<1>1. PICK c, rest : c = Head(cs) /\ rest = Tail(cs)
  OBVIOUS
<1>2. /\ cs \in Seq(Cursor(u)) /\ o \in Seq(1..u) /\ Walked(cs, L, fs)
      /\ \A i, j \in 1..Len(o) : i < j => Ahead(o[i], o[j], fs)
      /\ \A i \in 1..Len(o) : \A q \in Pending(cs, L, fs) : Ahead(o[i], q, fs)
      /\ Lost(C) \/ 1..u \subseteq Pending(cs, L, fs) \cup Range(o)
  BY DEF Halfway
<1>3. /\ c \in Cursor(u) /\ Fine(c, L) /\ rest \in Seq(Cursor(u)) /\ Walked(rest, L, fs)
      /\ Pending(cs, L, fs) = Span(c, L, fs) \cup Pending(rest, L, fs)
      /\ \A q \in Span(c, L, fs), r \in Pending(rest, L, fs) : q < r
  BY <1>1, <1>2, WalkedTail
<1>4. PICK e : e = Hi(c, L)
  OBVIOUS
<1>5. /\ e \in 1..u /\ p \in 1..u /\ p <= e /\ fs[p] \in Nat \ {0} /\ fs[p] <= p
      /\ Span(c, L, fs) = fs[p]..e
  BY <1>1, <1>3, <1>4, SpanIs
<1>6. Around(p, e, ds, bs, L, C, fs)
  BY <1>1, <1>4
<1>7. p \in Span(c, L, fs) /\ p \in Pending(cs, L, fs)
  BY <1>3, <1>5
<1>8. /\ \A q \in Pending(ds, L, fs) : q \in fs[p]..(p - 1) /\ q \in Span(c, L, fs)
      /\ \A q \in Pending(bs, L, fs) : q \in (p + 1)..e /\ q \in Span(c, L, fs)
  <2>1. ASSUME NEW q \in fs[p]..(p - 1) PROVE q \in fs[p]..e
    BY <1>5
  <2>2. ASSUME NEW q \in (p + 1)..e PROVE q \in fs[p]..e
    BY <1>5
  <2> QED BY <1>5, <1>6, <2>1, <2>2 DEF Around, Covers
<1>9. /\ Walked(ds \o bs, L, fs) /\ ds \o bs \in Seq(Cursor(u))
      /\ Pending(ds \o bs, L, fs) = Pending(ds, L, fs) \cup Pending(bs, L, fs)
  <2>1. \A q \in Pending(ds, L, fs), r \in Pending(bs, L, fs) : q < r
    BY <1>5, <1>8
  <2>2. PICK X : X = Cursor(u)
    OBVIOUS
  <2>3. ds \in Seq(X) /\ bs \in Seq(X) /\ Walked(ds, L, fs) /\ Walked(bs, L, fs)
    BY <1>6, <2>2 DEF Around, Covers
  <2>4. /\ Walked(ds \o bs, L, fs) /\ ds \o bs \in Seq(X)
        /\ Pending(ds \o bs, L, fs) = Pending(ds, L, fs) \cup Pending(bs, L, fs)
    BY <2>1, <2>3, WalkedConcat
  <2> QED BY <2>2, <2>4
<1>10. PICK new : new = ds \o bs \o rest
  OBVIOUS
<1>11. /\ Walked(new, L, fs) /\ new \in Seq(Cursor(u))
       /\ Pending(new, L, fs) = Pending(ds, L, fs) \cup Pending(bs, L, fs) \cup Pending(rest, L, fs)
  <2>1. \A q \in Pending(ds \o bs, L, fs), r \in Pending(rest, L, fs) : q < r
    BY <1>3, <1>8, <1>9
  <2>2. PICK X, das : X = Cursor(u) /\ das = ds \o bs
    OBVIOUS
  <2>3. das \in Seq(X) /\ rest \in Seq(X) /\ Walked(das, L, fs)
    BY <1>3, <1>9, <2>2
  <2>4. \A q \in Pending(das, L, fs), r \in Pending(rest, L, fs) : q < r
    BY <2>1, <2>2
  <2>5. /\ Walked(das \o rest, L, fs)
        /\ Pending(das \o rest, L, fs) = Pending(das, L, fs) \cup Pending(rest, L, fs)
        /\ das \o rest \in Seq(X)
    BY <1>3, <2>3, <2>4, WalkedConcat
  <2> QED BY <1>9, <1>10, <2>2, <2>5
<1>12. /\ Pending(new, L, fs) \subseteq Pending(cs, L, fs)
       /\ Lost(C) \/ Pending(cs, L, fs) \subseteq Pending(new, L, fs) \cup {p}
  <2>1. ASSUME ~Lost(C), NEW q \in Span(c, L, fs) PROVE q \in Pending(new, L, fs) \cup {p}
    <3>1. q \in fs[p]..(p - 1) \/ q = p \/ q \in (p + 1)..e
      BY <1>5, <2>1
    <3> QED BY <1>6, <1>11, <2>1, <3>1 DEF Around, Covers
  <2> QED BY <1>3, <1>8, <1>11, <2>1
<1>13. ASSUME NEW q \in Pending(new, L, fs) PROVE Ahead(p, q, fs)
  <2>1. CASE q \in Pending(ds, L, fs)
    BY <1>5, <1>8, <2>1 DEF Ahead
  <2>2. CASE q \in Pending(bs, L, fs)
    <3>1. fs[q] \in Nat /\ \E r \in Pending(bs, L, fs) : r \in Nat /\ r <= fs[q]
      BY <1>6, <2>2, PendingIn DEF Around, Covers
    <3> QED BY <1>5, <1>8, <2>2, <3>1 DEF Ahead
  <2>3. CASE q \in Pending(rest, L, fs)
    <3>1. q \in 1..u /\ fs[q] \in Nat /\ \E r \in Pending(rest, L, fs) : r \in Nat /\ r <= fs[q]
      BY <1>3, <2>3, PendingIn
    <3>2. p < q /\ p < fs[q]
      BY <1>3, <1>5, <1>7, <2>3, <3>1
    <3> QED BY <1>5, <3>1, <3>2 DEF Ahead
  <2> QED BY <1>11, <2>1, <2>2, <2>3
<1>14. PICK w : w = Append(o, p)
  OBVIOUS
<1>15. /\ w \in Seq(1..u) /\ Len(o) \in Nat /\ Len(w) = Len(o) + 1 /\ w[Len(o) + 1] = p
       /\ \A i \in 1..Len(o) : w[i] = o[i]
  BY <1>2, <1>5, <1>14
<1>16. \A i \in 1..Len(w) : i \in 1..Len(o) \/ i = Len(o) + 1
  BY <1>15
<1>17. ASSUME NEW i \in 1..Len(w), NEW j \in 1..Len(w), i < j PROVE Ahead(w[i], w[j], fs)
  <2>1. i \in 1..Len(o) /\ (j \in 1..Len(o) \/ j = Len(o) + 1)
    <3>1. PICK k : k = Len(o)
      OBVIOUS
    <3>2. k \in Nat /\ i \in 1..(k + 1) /\ j \in 1..(k + 1) /\ i < j
      BY <1>15, <1>17, <3>1
    <3> QED BY <3>1, <3>2
  <2> QED BY <1>2, <1>7, <1>15, <1>17, <2>1
<1>18. \A i \in 1..Len(w) : \A q \in Pending(new, L, fs) : Ahead(w[i], q, fs)
  BY <1>2, <1>12, <1>13, <1>15, <1>16
<1>19. Lost(C) \/ 1..u \subseteq Pending(new, L, fs) \cup Range(w)
  <2>1. Range(o) \cup {p} \subseteq Range(w)
    <3>1. DOMAIN o = 1..Len(o) /\ DOMAIN w = 1..Len(w) /\ Len(o) + 1 \in 1..Len(w)
          /\ 1..Len(o) \subseteq 1..Len(w)
      BY <1>2, <1>15
    <3> QED BY <1>15, <3>1 DEF Range
  <2> QED BY <1>2, <1>12, <2>1
<1> QED BY <1>1, <1>10, <1>11, <1>14, <1>15, <1>17, <1>18, <1>19 DEF Halfway

LEMMA NothingStep ==
    ASSUME NEW u \in Nat, NEW L, NEW C, NEW fs, NEW o, NEW cs, cs # <<>>, Halfway(o, cs, u, L, C, fs),
           Head(cs).at = NULL
    PROVE  Halfway(o, Tail(cs), u, L, C, fs)
<1>1. cs \in Seq(Cursor(u)) /\ Walked(cs, L, fs)
  BY DEF Halfway
<1>2. /\ Tail(cs) \in Seq(Cursor(u)) /\ Walked(Tail(cs), L, fs)
      /\ Pending(cs, L, fs) = Span(Head(cs), L, fs) \cup Pending(Tail(cs), L, fs)
  BY <1>1, WalkedTail
<1>3. Pending(cs, L, fs) = Pending(Tail(cs), L, fs)
  BY <1>2 DEF Span
<1> QED BY <1>2, <1>3 DEF Halfway
-----------------------------------------------------------------------------
\* The invariant of the printer, beside the parser's: what it has still to do and
\* what it has printed are the tree.
PrintInv ==
    /\ stage \in {"waiting", "printing", "printed"}
    /\ stage = "waiting" => todo = <<>> /\ out = <<>>
    /\ stage # "waiting" => root # <<>> /\ Halfway(out, todo, used, Lists, closed, first)
    /\ stage = "printed" => todo = <<>>

LEMMA PrintBegins ==
    ASSUME IInv, TreeInv, root # <<>>
    PROVE  Halfway(<<>>, Cursors(root, TRUE), used, Lists, closed, first)
<1>1. PICK u, L, nxt, fs, C, K : u = used /\ L = Lists /\ nxt = next /\ fs = first /\ C = closed /\ K = root
  OBVIOUS
<1>2. Orderly(u, L, nxt, fs) /\ u \in Nat
  BY <1>1, OrderlyIs DEF Orderly, Firsts
<1>3. Row(K, TRUE, 1, u, L, fs) /\ (Lost(L) => Lost(C))
  BY <1>1 DEF TreeInv, Finished
<1>4. K \in Seq(1..u \cup {NULL})
  BY <1>1 DEF IInv, Typed
<1>5. PICK cs : cs = Cursors(K, TRUE)
  OBVIOUS
<1>6. TRUE \in BOOLEAN /\ 1 \in Nat /\ L \subseteq L
  OBVIOUS
<1>7. cs \in Seq(Cursor(u))
  BY <1>4, <1>5, <1>6, CursorsAre DEF Stand
<1>8. Walked(cs, L, fs) /\ (Lost(L) \/ 1..u \subseteq Pending(cs, L, fs))
  BY <1>2, <1>3, <1>4, <1>5, <1>6, RowWalks DEF Covers
<1>9. PICK o : o = <<>>
  OBVIOUS
<1>10. o \in Seq(1..u) /\ Len(o) = 0
  BY <1>9
<1>11. Halfway(o, cs, u, L, C, fs)
  BY <1>3, <1>7, <1>8, <1>10 DEF Halfway
<1> QED BY <1>1, <1>5, <1>9, <1>11

\* The parts of a node take up the source from its first node to the one before it.
LEMMA PartsWalk ==
    ASSUME IInv, TreeInv, root # <<>>, NEW p \in 1..used
    PROVE  /\ Parts(p) \in Seq(Cursor(used))
           /\ Covers(Parts(p), first[p], p - 1, Lists, closed, first)
<1>1. PICK u, L, nxt, fs, C, K, walk :
          /\ u = used /\ L = Lists /\ nxt = next /\ fs = first /\ C = closed /\ K = tree[p].kids
          /\ walk = (tree[p].kind # "control")
  OBVIOUS
<1>2. Orderly(u, L, nxt, fs) /\ u \in Nat /\ Firsts(u, fs)
  BY <1>1, OrderlyIs DEF Orderly, Firsts
<1>3. Row(K, walk, fs[p], p - 1, C, fs)
  BY <1>1 DEF TreeInv, Grown, NodeFits
<1>4. K \in Seq(1..u \cup {NULL})
  <2>1. p \in Node
    BY <1>1, <1>2, FirstIs
  <2> QED BY <1>1, <2>1 DEF IInv, Typed
<1>5. walk \in BOOLEAN
  BY <1>1
<1>6. fs[p] \in Nat /\ p - 1 \in Nat
  <2>1. p \in 1..u
    BY <1>1
  <2> QED BY <1>2, <2>1, FirstIs
<1>7. C \subseteq L
  BY <1>1 DEF Lists
<1>8. Cursors(K, walk) \in Seq(Cursor(u))
  BY <1>2, <1>4, <1>5, CursorsAre DEF Stand
<1>9. Covers(Cursors(K, walk), fs[p], p - 1, L, C, fs)
  BY <1>2, <1>3, <1>4, <1>5, <1>6, <1>7, RowWalks
<1>10. Parts(p) = Cursors(K, walk)
  BY <1>1 DEF Parts
<1> QED BY <1>1, <1>8, <1>9, <1>10

\* What follows a node is what its list has after it.
LEMMA AfterWalks ==
    ASSUME IInv, TreeInv, root # <<>>, NEW c \in Cursor(used), Fine(c, Lists), c.at # NULL
    PROVE  /\ After(c) \in Seq(Cursor(used)) /\ Walked(After(c), Lists, first)
           /\ Pending(After(c), Lists, first) = (c.at + 1)..Hi(c, Lists)
<1>1. PICK u, L, nxt, fs : u = used /\ L = Lists /\ nxt = next /\ fs = first
  OBVIOUS
<1>2. Orderly(u, L, nxt, fs) /\ u \in Nat /\ c \in Cursor(u) /\ Fine(c, L)
  BY <1>1, OrderlyIs DEF Orderly, Firsts
<1>3. CASE c.walk
  <2>1. PICK d : d = [at |-> nxt[c.at], walk |-> TRUE]
    OBVIOUS
  <2>2. d.at = nxt[c.at] /\ d.walk = TRUE
    BY <2>1
  <2>3. d.at \in 1..u \cup {NULL} /\ Fine(d, L) /\ Span(d, L, fs) = (c.at + 1)..Hi(c, L)
    <3>1. Onward(c, nxt[c.at], u, L, fs)
      BY <1>2, <1>3, NextIs
    <3> QED BY <2>2, <3>1 DEF Onward
  <2>4. After(c) = <<d>>
    <3>1. After(c) = Cursors(<<nxt[c.at]>>, TRUE)
      BY <1>1, <1>3 DEF After
    <3>2. DOMAIN <<nxt[c.at]>> = {1} /\ <<nxt[c.at]>>[1] = nxt[c.at]
      OBVIOUS
    <3>3. Cursors(<<nxt[c.at]>>, TRUE) = [j \in {1} |-> d]
      BY <2>1, <3>2 DEF Cursors
    <3>4. [j \in {1} |-> d] = <<d>>
      OBVIOUS
    <3> QED BY <3>1, <3>3, <3>4
  <2>5. d \in Cursor(u)
    BY <2>1, <2>3 DEF Cursor
  <2>6. <<d>> \in Seq(Cursor(u))
    BY <2>5
  <2>7. Walked(<<d>>, L, fs) /\ Pending(<<d>>, L, fs) = Span(d, L, fs)
    BY <2>3, WalkedOne
  <2> QED BY <1>1, <2>3, <2>4, <2>6, <2>7
<1>4. CASE ~c.walk
  <2>1. After(c) = <<>>
    BY <1>4 DEF After
  <2>2. Hi(c, L) = c.at /\ c.at \in 1..u
    BY <1>2, <1>4, NextIs, SpanIs
  <2>3. (c.at + 1)..Hi(c, L) = {}
    BY <1>2, <2>2
  <2>4. <<>> \in Seq(Cursor(used))
    OBVIOUS
  <2> QED BY <1>1, <2>1, <2>3, <2>4, WalkedNone
<1> QED BY <1>3, <1>4

LEMMA NodeKeeps ==
    ASSUME IInv, TreeInv, PrintInv, PrintNode
    PROVE  Halfway(out', todo', used, Lists, closed, first)
<1>1. /\ todo # <<>> /\ Head(todo).at # NULL /\ root # <<>>
      /\ Halfway(out, todo, used, Lists, closed, first)
  BY DEF PrintNode, PrintInv
<1>2. PICK u, L, nxt, fs, C, o, cs :
          /\ u = used /\ L = Lists /\ nxt = next /\ fs = first /\ C = closed
          /\ o = out /\ cs = todo
  OBVIOUS
<1>3. PICK c : c = Head(cs)
  OBVIOUS
<1>4. PICK p : p = c.at
  OBVIOUS
<1>5. Orderly(u, L, nxt, fs) /\ u \in Nat
  BY <1>1, <1>2, OrderlyIs DEF Orderly, Firsts
<1>6. Halfway(o, cs, u, L, C, fs) /\ cs # <<>> /\ p # NULL
  BY <1>1, <1>2, <1>3, <1>4
<1>7. c \in Cursor(u) /\ Fine(c, L)
  <2>1. PICK X : X = Cursor(u)
    OBVIOUS
  <2>2. cs \in Seq(X) /\ Walked(cs, L, fs)
    BY <1>6, <2>1 DEF Halfway
  <2>3. Head(cs) \in X /\ Fine(Head(cs), L)
    BY <1>6, <2>2, WalkedTail
  <2> QED BY <1>3, <2>1, <2>3
<1>8. p \in 1..u
  BY <1>4, <1>6, <1>7 DEF Cursor
<1>9. PICK ds, bs : ds = Parts(p) /\ bs = After(c)
  OBVIOUS
<1>10. ds \in Seq(Cursor(u)) /\ Covers(ds, fs[p], p - 1, L, C, fs)
  <2>1. p \in 1..used
    BY <1>2, <1>8
  <2> QED BY <1>1, <1>2, <1>9, <2>1, PartsWalk
<1>11. bs \in Seq(Cursor(u)) /\ Walked(bs, L, fs) /\ Pending(bs, L, fs) = (p + 1)..Hi(c, L)
  <2>1. c \in Cursor(used) /\ Fine(c, Lists) /\ c.at # NULL
    BY <1>2, <1>4, <1>6, <1>7
  <2> QED BY <1>1, <1>2, <1>4, <1>9, <2>1, AfterWalks
<1>12. Around(p, Hi(Head(cs), L), ds, bs, L, C, fs)
  BY <1>3, <1>10, <1>11 DEF Around
<1>13. Halfway(Append(o, p), ds \o bs \o Tail(cs), u, L, C, fs)
  <2>1. p = Head(cs).at
    BY <1>3, <1>4
  <2> QED BY <1>5, <1>6, <1>10, <1>11, <1>12, <2>1, NodeStep
<1>14. out' = Append(o, p) /\ todo' = ds \o bs \o Tail(cs)
  BY <1>2, <1>3, <1>4, <1>9 DEF PrintNode
<1> QED BY <1>2, <1>13, <1>14

LEMMA PrintStep ==
    ASSUME IInv, TreeInv, PrintInv, [PrintNext]_<<vars, printVars>>
    PROVE  PrintInv'
<1>1. CASE Next /\ UNCHANGED printVars
  <2>1. stage = "waiting"
    BY <1>1, NextReads DEF TreeInv, PrintInv, Finished
  <2> QED BY <1>1, <2>1 DEF PrintInv, printVars
<1>2. ASSUME UNCHANGED vars
      PROVE  used' = used /\ Lists' = Lists /\ closed' = closed /\ first' = first /\ root' = root
  BY <1>2 DEF vars, built, Lists
<1>3. CASE PrintProgram
  <2>1. /\ UNCHANGED vars /\ root # <<>> /\ stage' = "printing" /\ todo' = Cursors(root, TRUE)
        /\ out' = <<>>
    BY <1>3 DEF PrintProgram, PrintInv
  <2> QED BY <1>2, <2>1, PrintBegins DEF PrintInv
<1>4. CASE PrintNothing
  <2>1. /\ UNCHANGED vars /\ stage = "printing" /\ stage' = stage /\ todo # <<>>
        /\ Head(todo).at = NULL /\ todo' = Tail(todo) /\ out' = out
    BY <1>4 DEF PrintNothing
  <2>2. root # <<>> /\ Halfway(out, todo, used, Lists, closed, first)
    BY <2>1 DEF PrintInv
  <2>3. used \in Nat
    BY <2>2, OrderlyIs DEF Orderly, Firsts
  <2>4. Halfway(out, Tail(todo), used, Lists, closed, first)
    BY <2>1, <2>2, <2>3, NothingStep
  <2> QED BY <1>2, <2>1, <2>2, <2>4 DEF PrintInv
<1>5. CASE PrintNode
  <2>1. UNCHANGED vars /\ stage = "printing" /\ stage' = stage
    BY <1>5 DEF PrintNode
  <2>2. Halfway(out', todo', used, Lists, closed, first)
    BY <1>5, NodeKeeps
  <2> QED BY <1>2, <2>1, <2>2 DEF PrintInv
<1>6. CASE PrintEnd
  BY <1>2, <1>6 DEF PrintEnd, PrintInv
<1>7. CASE UNCHANGED <<vars, printVars>>
  BY <1>2, <1>7 DEF PrintInv, printVars
<1> QED BY <1>1, <1>3, <1>4, <1>5, <1>6, <1>7 DEF PrintNext
-----------------------------------------------------------------------------
\* Nodes each ahead of the next ones are as many as there are places.
LEMMA AheadCount ==
    ASSUME NEW u \in Nat, NEW o \in Seq(1..u), NEW fs,
           \A i, j \in 1..Len(o) : i < j => Ahead(o[i], o[j], fs)
    PROVE  Cardinality(Range(o)) = Len(o)
<1>1. PICK l : l = Len(o)
  OBVIOUS
<1>2. l \in Nat /\ DOMAIN o = 1..l
  BY <1>1
<1>3. ASSUME NEW i \in 1..l, NEW j \in 1..l, o[i] = o[j] PROVE i = j
  <2>1. ~(i < j) /\ ~(j < i)
    BY <1>1, <1>3 DEF Ahead
  <2> QED BY <1>2, <2>1
<1>4. o \in Bijection(1..l, Range(o))
  <2>1. o \in [1..l -> Range(o)]
    BY <1>1, <1>2 DEF Range
  <2>2. \A t \in Range(o) : \E s \in 1..l : o[s] = t
    BY <1>2 DEF Range
  <2> QED BY <1>3, <2>1, <2>2 DEF Bijection, Injection, Surjection, IsInjective
<1>5. ExistsBijection(1..l, Range(o))
  BY <1>4 DEF ExistsBijection
<1> QED BY <1>1, <1>2, <1>5, FS_CountingElements

LEMMA AllPrinted ==
    ASSUME IInv, TreeInv, PrintInv
    PROVE  PrintsWholeSource
<1>1. CASE stage = "waiting"
  <2>1. Range(out) = {} /\ Len(out) = 0
    BY <1>1 DEF PrintInv, Range
  <2> QED BY <1>1, <2>1, FS_EmptySet DEF PrintsWholeSource
<1>2. CASE stage # "waiting"
  <2>1. PICK u, L, fs, C, o, cs :
            u = used /\ L = Lists /\ fs = first /\ C = closed /\ o = out /\ cs = todo
    OBVIOUS
  <2>2. Halfway(o, cs, u, L, C, fs) /\ (stage = "printed" => cs = <<>>)
    BY <1>2, <2>1 DEF PrintInv
  <2>3. u \in Nat /\ Firsts(u, fs)
    BY <1>2, <2>1, OrderlyIs DEF PrintInv, Orderly, Firsts
  <2>4. PICK l : l = Len(o)
    OBVIOUS
  <2>5. /\ o \in Seq(1..u) /\ l \in Nat /\ DOMAIN o = 1..l /\ \A i \in 1..l : o[i] \in 1..u
        /\ \A i, j \in 1..l : i < j => Ahead(o[i], o[j], fs)
    <3>1. o \in Seq(1..u)
      BY <2>2 DEF Halfway
    <3>2. \A i, j \in 1..Len(o) : i < j => Ahead(o[i], o[j], fs)
      BY <2>2 DEF Halfway
    <3>3. l \in Nat /\ DOMAIN o = 1..l /\ \A i \in 1..l : o[i] \in 1..u
      BY <2>3, <2>4, <3>1
    <3> QED BY <2>4, <3>1, <3>2, <3>3
  <2>6. Cardinality(Range(o)) = Len(o)
    BY <2>3, <2>4, <2>5, AheadCount
  <2>7. ASSUME stage = "printed", ~Lost(C)
        PROVE  /\ Range(o) = 1..u
               /\ \A m, n \in 1..u : m < n =>
                     ((CHOOSE j \in DOMAIN o : o[j] = n) < (CHOOSE j \in DOMAIN o : o[j] = m)
                        <=> fs[n] <= m)
    <3>1. Pending(cs, L, fs) = {}
      BY <2>2, <2>7, WalkedNone
    <3>2. Range(o) = 1..u
      <4>1. Range(o) \subseteq 1..u
        BY <2>5 DEF Range
      <4> QED BY <2>2, <2>7, <3>1, <4>1 DEF Halfway
    <3>3. ASSUME NEW m \in 1..u, NEW n \in 1..u, m < n,
                 NEW x, x = (CHOOSE j \in DOMAIN o : o[j] = m),
                 NEW y, y = (CHOOSE j \in DOMAIN o : o[j] = n)
          PROVE  y < x <=> fs[n] <= m
      <4>1. x \in 1..l /\ o[x] = m
        <5>1. \E j \in DOMAIN o : o[j] = m
          BY <3>2 DEF Range
        <5> QED BY <2>5, <3>3, <5>1
      <4>2. y \in 1..l /\ o[y] = n
        <5>1. \E j \in DOMAIN o : o[j] = n
          BY <3>2 DEF Range
        <5> QED BY <2>5, <3>3, <5>1
      <4>3. y < x => Ahead(n, m, fs)
        BY <2>5, <4>1, <4>2
      <4>4. x < y => Ahead(m, n, fs)
        BY <2>5, <4>1, <4>2
      <4>5. x < y \/ y < x
        <5>1. x # y
          <6>1. m # n
            BY <2>3, <3>3
          <6> QED BY <4>1, <4>2, <6>1
        <5> QED BY <2>5, <4>1, <4>2, <5>1
      <4>6. fs[n] \in Nat
        BY <2>3, FirstIs
      <4> QED BY <2>5, <3>3, <4>1, <4>2, <4>3, <4>4, <4>5, <4>6 DEF Ahead
    <3> QED BY <3>2, <3>3
  <2> QED BY <2>1, <2>6, <2>7 DEF PrintsWholeSource, Lost
<1> QED BY <1>1, <1>2

\* print_program prints every node of the source, each once, and in the order of the
\* source: the links of the tree reach everything the parser built but what it lost.
THEOREM PrintingVisitsAll == PrintSpec => []PrintsWholeSource
<1>1. PrintInit => PrintInv
  BY DEF PrintInit, PrintInv
<1>2. IInv /\ TreeInv /\ PrintInv /\ [PrintNext]_<<vars, printVars>> => PrintInv'
  BY PrintStep
<1>3. IInv /\ TreeInv /\ PrintInv => PrintsWholeSource
  BY AllPrinted
<1> QED BY <1>1, <1>2, <1>3, PrintingIsNoStep, TreeIsTheSource, PTL DEF PrintSpec
=============================================================================
