-------------------------- MODULE LinkedListProofs --------------------------
(***************************************************************************)
(* What LinkedList's run checks on three nodes, proved for every set of    *)
(* nodes and data: the links always form one chain over the allocated      *)
(* nodes, every datum has one owner, and (when free leaves the node's next *)
(* field alone) list_destroy's cursor is the head; and each step is one of *)
(* SeqList, or none.                                                       *)
(***************************************************************************)
EXTENDS LinkedList, SequenceTheorems, TLAPS

\* t is s, a sequence of N elements, with n put at place q.
Spliced(s, t, N, q, n) == \A k \in 1..(N + 1) :
    t[k] = IF k < q THEN s[k] ELSE IF k = q THEN n ELSE s[k - 1]

\* What InsertAt of the community modules returns, element by element.
LEMMA InsertAtElements ==
    ASSUME NEW S, NEW s \in Seq(S), NEW i \in 1..(Len(s) + 1), NEW e \in S
    PROVE  /\ InsertAt(s, i, e) \in Seq(S)
           /\ Len(InsertAt(s, i, e)) = Len(s) + 1
           /\ Spliced(s, InsertAt(s, i, e), Len(s), i, e)
<1> DEFINE f == SubSeq(s, 1, i - 1)
           b == SubSeq(s, i, Len(s))
<1>1. f \in Seq(S) /\ Len(f) = i - 1 /\ \A k \in 1..(i - 1) : f[k] = s[k]
  BY SubSeqProperties, SMT
<1>2. /\ b \in Seq(S) /\ Len(b) = Len(s) - i + 1
      /\ \A k \in 1..(Len(s) - i + 1) : b[k] = s[i + k - 1]
  BY SubSeqProperties, SMT
<1>3. InsertAt(s, i, e) = (f \o <<e>>) \o b
  BY DEF InsertAt
<1> HIDE DEF f, b
<1>4. f \o <<e>> \in Seq(S) /\ Len(f \o <<e>>) = i
  BY <1>1
<1>5. \A k \in 1..i : (f \o <<e>>)[k] = IF k < i THEN s[k] ELSE e
  BY <1>1
<1> DEFINE g == f \o <<e>>
<1>6. g \in Seq(S) /\ Len(g) = i /\ \A k \in 1..i : g[k] = IF k < i THEN s[k] ELSE e
  BY <1>4, <1>5
<1> HIDE DEF g
<1>7. /\ g \o b \in Seq(S) /\ Len(g \o b) = Len(s) + 1
      /\ \A k \in 1..(Len(s) + 1) : (g \o b)[k] = IF k <= i THEN g[k] ELSE b[k - i]
  BY <1>2, <1>6, ConcatProperties
<1>8. \A k \in 1..(Len(s) + 1) : ~(k <= i) => b[k - i] = s[k - 1]
  BY <1>2
<1>9. InsertAt(s, i, e) = g \o b
  BY <1>3 DEF g
<1> QED
  BY <1>6, <1>7, <1>8, <1>9 DEF Spliced

\* The last element after InsertAt, which becomes list->tail.
LEMMA InsertAtLast ==
    ASSUME NEW S, NEW s \in Seq(S), NEW i \in 1..(Len(s) + 1), NEW e \in S
    PROVE  InsertAt(s, i, e)[Len(s) + 1] = IF i = Len(s) + 1 THEN e ELSE s[Len(s)]
<1>1. \A k \in 1..(Len(s) + 1) :
         InsertAt(s, i, e)[k] = IF k < i THEN s[k] ELSE IF k = i THEN e ELSE s[k - 1]
  BY InsertAtElements DEF Spliced
<1>2. Len(s) + 1 \in 1..(Len(s) + 1) /\ (Len(s) + 1) - 1 = Len(s)
  OBVIOUS
<1> QED
  BY <1>1, <1>2

\* Into the empty sequence an element can only go at its only place.
LEMMA InsertAtFirst ==
    ASSUME NEW e PROVE InsertAt(<<>>, 1, e) = <<e>>
<1>1. SubSeq(<<>>, 1, 0) = <<>> /\ Len(<<>>) = 0
  <2>1. <<>> \in Seq({e})
    BY EmptySeq
  <2>2. SubSeq(<<>>, 1, 0) \in Seq({e}) /\ Len(SubSeq(<<>>, 1, 0)) = 0
    BY <2>1, SubSeqProperties, SMT
  <2> QED BY <2>2, EmptySeq
<1>2. InsertAt(<<>>, 1, e) = (<<>> \o <<e>>) \o <<>>
  <2>1. 1 - 1 = 0
    OBVIOUS
  <2> QED BY <1>1, <2>1, Zenon DEF InsertAt
<1>3. <<e>> \in Seq({e}) /\ <<>> \o <<e>> = <<e>> /\ <<e>> \o <<>> = <<e>>
  OBVIOUS
<1> QED BY <1>2, <1>3

\* What RemoveAt returns, element by element.
LEMMA RemoveAtElements ==
    ASSUME NEW S, NEW s \in Seq(S), NEW i \in 1..Len(s)
    PROVE  /\ RemoveAt(s, i) \in Seq(S)
           /\ Len(RemoveAt(s, i)) = Len(s) - 1
           /\ \A k \in 1..(Len(s) - 1) :
                 RemoveAt(s, i)[k] = IF k < i THEN s[k] ELSE s[k + 1]
<1> DEFINE f == SubSeq(s, 1, i - 1)
           b == SubSeq(s, i + 1, Len(s))
<1>1. f \in Seq(S) /\ Len(f) = i - 1 /\ \A k \in 1..(i - 1) : f[k] = s[k]
  BY SubSeqProperties, SMT
<1>2. /\ b \in Seq(S) /\ Len(b) = Len(s) - i
      /\ \A k \in 1..(Len(s) - i) : b[k] = s[i + k]
  BY SubSeqProperties, SMT
<1>3. RemoveAt(s, i) = f \o b
  BY DEF RemoveAt
<1> HIDE DEF f, b
<1>4. /\ f \o b \in Seq(S) /\ Len(f \o b) = Len(f) + Len(b)
      /\ \A k \in 1..(Len(f) + Len(b)) :
            (f \o b)[k] = IF k <= Len(f) THEN f[k] ELSE b[k - Len(f)]
  BY <1>1, <1>2, ConcatProperties
<1>5. \A k \in 1..(Len(s) - 1) : ~(k <= i - 1) => b[k - (i - 1)] = s[k + 1]
  BY <1>2
<1>6. Len(f) = i - 1 /\ Len(f) + Len(b) = Len(s) - 1
  BY <1>1, <1>2
<1> QED
  BY <1>1, <1>3, <1>4, <1>5, <1>6

\* Taking the first element out leaves the tail.
LEMMA RemoveAtFirst ==
    ASSUME NEW S, NEW s \in Seq(S), Len(s) # 0 PROVE RemoveAt(s, 1) = Tail(s)
<1> DEFINE t == RemoveAt(s, 1)
<1>1. Len(s) \in Nat /\ 1 \in 1..Len(s)
  OBVIOUS
<1>2. /\ t \in Seq(S) /\ Len(t) = Len(s) - 1
      /\ \A k \in 1..(Len(s) - 1) : t[k] = IF k < 1 THEN s[k] ELSE s[k + 1]
  BY <1>1, RemoveAtElements
<1> HIDE DEF t
<1>3. /\ Tail(s) \in Seq(S) /\ Len(Tail(s)) = Len(s) - 1
      /\ \A k \in 1..(Len(s) - 1) : Tail(s)[k] = s[k + 1]
  BY <1>1
<1>4. \A k \in 1..(Len(s) - 1) : t[k] = Tail(s)[k]
  BY <1>1, <1>2, <1>3
<1>5. t = Tail(s)
  BY <1>2, <1>3, <1>4, SeqEqual
<1> QED BY <1>5 DEF t

\* A live node has one position in the list.
LEMMA PosOfLive ==
    ASSUME order \in Seq(Node), WellLinked, NEW e \in live
    PROVE  /\ Pos(e) \in 1..Len(order) /\ order[Pos(e)] = e
           /\ \A i \in 1..Len(order) : order[i] = e => i = Pos(e)
  BY DEF Pos, WellLinked, NoRepeat
-----------------------------------------------------------------------------
\* The chain s[1], ..., s[N] of distinct nodes under the links nx and px.
ChainOf(s, N, nx, px) ==
    /\ \A i, j \in 1..N : s[i] = s[j] => i = j
    /\ \A i \in 1..N :
          /\ s[i] \in Node
          /\ nx[s[i]] = IF i = N THEN NULL ELSE s[i + 1]
          /\ px[s[i]] = IF i = 1 THEN NULL ELSE s[i - 1]

\* The node at place i of s, NULL outside 1..N.
NodeAt(s, N, i) == IF i \in 1..N THEN s[i] ELSE NULL

\* lk2 is the links lk after n was made to point at "to" and the node "from" at n;
\* t is s without place p; lk2 is lk after the node "from" was made to point at "to".
LinkedIn(lk, lk2, n, from, to) ==
    lk2[n] = to /\ \A m \in Node \ {n} : lk2[m] = IF m = from THEN n ELSE lk[m]
Cut(s, t, N, p) == \A k \in 1..(N - 1) : t[k] = IF k < p THEN s[k] ELSE s[k + 1]
LinkedPast(lk, lk2, e, from, to) ==
    \A m \in Node \ {e} : lk2[m] = IF m = from THEN to ELSE lk[m]

\* What RemoveAt returns, in these words.
LEMMA RemoveCuts ==
    ASSUME NEW S, NEW s \in Seq(S), NEW p \in 1..Len(s), NEW t, t = RemoveAt(s, p)
    PROVE  t \in Seq(S) /\ Len(t) = Len(s) - 1 /\ Cut(s, t, Len(s), p)
BY RemoveAtElements DEF Cut

\* Linking a node n between the neighbours of place q gives a longer chain.
LEMMA ChainInsert ==
    ASSUME NEW N \in Nat, NEW q \in 1..(N + 1), NEW n \in Node,
           NEW s, NEW nx, NEW px, ChainOf(s, N, nx, px),
           \A i \in 1..N : s[i] # n,
           NEW t, Spliced(s, t, N, q, n),
           NEW nx2, LinkedIn(nx, nx2, n, NodeAt(s, N, q - 1), NodeAt(s, N, q)),
           NEW px2, LinkedIn(px, px2, n, NodeAt(s, N, q), NodeAt(s, N, q - 1))
    PROVE  ChainOf(t, N + 1, nx2, px2)
<1> USE NullAssumption DEF Spliced, LinkedIn, NodeAt
<1>1. \A i, j \in 1..(N + 1) : t[i] = t[j] => i = j
  BY DEF ChainOf
<1>2. ASSUME NEW i \in 1..(N + 1)
      PROVE  /\ t[i] \in Node
             /\ nx2[t[i]] = IF i = N + 1 THEN NULL ELSE t[i + 1]
             /\ px2[t[i]] = IF i = 1 THEN NULL ELSE t[i - 1]
  <2>1. CASE i < q - 1
    BY <2>1 DEF ChainOf
  <2>2. CASE i = q - 1
    BY <2>2 DEF ChainOf
  <2>3. CASE i = q
    BY <2>3 DEF ChainOf
  <2>4. CASE i = q + 1
    BY <2>4 DEF ChainOf
  <2>5. CASE i > q + 1
    BY <2>5 DEF ChainOf
  <2> QED
    BY <2>1, <2>2, <2>3, <2>4, <2>5
<1> QED
  BY <1>1, <1>2 DEF ChainOf

\* Joining the neighbours of place p gives a chain without the node there.
LEMMA ChainRemove ==
    ASSUME NEW N \in Nat, NEW p \in 1..N,
           NEW s, NEW nx, NEW px, ChainOf(s, N, nx, px),
           NEW t, Cut(s, t, N, p),
           NEW nx2, LinkedPast(nx, nx2, s[p], NodeAt(s, N, p - 1), NodeAt(s, N, p + 1)),
           NEW px2, LinkedPast(px, px2, s[p], NodeAt(s, N, p + 1), NodeAt(s, N, p - 1))
    PROVE  ChainOf(t, N - 1, nx2, px2)
<1> USE NullAssumption DEF Cut, LinkedPast, NodeAt
<1>1. \A i, j \in 1..(N - 1) : t[i] = t[j] => i = j
  BY DEF ChainOf
<1>2. ASSUME NEW i \in 1..(N - 1)
      PROVE  /\ t[i] \in Node
             /\ nx2[t[i]] = IF i = N - 1 THEN NULL ELSE t[i + 1]
             /\ px2[t[i]] = IF i = 1 THEN NULL ELSE t[i - 1]
  <2>1. CASE i < p - 1
    BY <2>1 DEF ChainOf
  <2>2. CASE i = p - 1
    BY <2>2 DEF ChainOf
  <2>3. CASE i = p
    BY <2>3 DEF ChainOf
  <2>4. CASE i > p
    BY <2>4 DEF ChainOf
  <2> QED
    BY <2>1, <2>2, <2>3, <2>4
<1> QED
  BY <1>1, <1>2 DEF ChainOf
-----------------------------------------------------------------------------
\* The part of TypeOK that an insertion or a removal can disturb.
LinksTyped ==
    /\ size \in Nat /\ head \in Link /\ tail \in Link
    /\ data \in [Node -> Data] /\ prev \in [Node -> Link] /\ next \in [Node -> Link]
    /\ live \subseteq Node /\ owned \subseteq Data /\ order \in Seq(Node)

\* A node's neighbours in the chain, spelled out for the solvers.
LEMMA ChainFacts ==
    ASSUME LinksTyped, WellLinked
    PROVE  /\ Len(order) \in Nat /\ DOMAIN order = 1..Len(order) /\ size = Len(order)
           /\ ChainOf(order, Len(order), next, prev)
           /\ live = {order[i] : i \in 1..Len(order)}
           /\ head = IF Len(order) = 0 THEN NULL ELSE order[1]
           /\ tail = NULL \/ (Len(order) # 0 /\ tail = order[Len(order)])
           /\ \A i \in Int : At(i) = NodeAt(order, Len(order), i)
<1>0. Len(order) \in Nat
  BY DEF LinksTyped
<1>1. order \in Seq(Node) /\ Len(order) \in Nat /\ DOMAIN order = 1..Len(order)
  BY DEF LinksTyped
<1>2. \A i \in Int : At(i) = IF i \in 1..Len(order) THEN order[i] ELSE NULL
  BY <1>1 DEF At
<1>3. \A i \in 1..Len(order) : order[i] \in Node
  BY <1>1
<1>4. ChainOf(order, Len(order), next, prev)
  <2>1. \A i, j \in 1..Len(order) : order[i] = order[j] => i = j
    BY <1>1 DEF WellLinked, NoRepeat
  <2>2. \A i \in 1..Len(order) :
           next[order[i]] = At(i + 1) /\ prev[order[i]] = At(i - 1)
    BY <1>1 DEF WellLinked, Chained
  <2>3. \A i \in 1..Len(order) :
           /\ At(i + 1) = IF i = Len(order) THEN NULL ELSE order[i + 1]
           /\ At(i - 1) = IF i = 1 THEN NULL ELSE order[i - 1]
    BY <1>0, <1>2
  <2>4. ASSUME NEW i \in 1..Len(order)
        PROVE  /\ order[i] \in Node
               /\ next[order[i]] = IF i = Len(order) THEN NULL ELSE order[i + 1]
               /\ prev[order[i]] = IF i = 1 THEN NULL ELSE order[i - 1]
    <3>1. next[order[i]] = At(i + 1) /\ prev[order[i]] = At(i - 1)
      BY <2>2
    <3>2. /\ At(i + 1) = IF i = Len(order) THEN NULL ELSE order[i + 1]
          /\ At(i - 1) = IF i = 1 THEN NULL ELSE order[i - 1]
      BY <2>3
    <3> QED
      BY <3>1, <3>2, <1>3
  <2> QED
    BY <2>1, <2>4 DEF ChainOf
<1>5. \A i \in Int : At(i) = NodeAt(order, Len(order), i)
  BY <1>1 DEF At, NodeAt
<1>6. size = Len(order) /\ live = {order[i] : i \in 1..Len(order)}
  BY <1>1 DEF WellLinked
<1>7. head = At(1) /\ tail \in {NULL, At(Len(order))}
  BY DEF WellLinked, EndsOK
<1> QED
  BY <1>1, <1>2, <1>4, <1>5, <1>6, <1>7

\* Whatever call inserts, a node put at place q between its neighbours there
\* keeps the list well linked.
LEMMA InsertStep ==
    ASSUME LinksTyped, WellLinked, NEW n \in Node \ live, NEW q \in 1..(Len(order) + 1),
           order' = InsertAt(order, q, n), live' = live \cup {n}, size' = size + 1,
           LinkedIn(next, next', n, At(q - 1), At(q)),
           LinkedIn(prev, prev', n, At(q), At(q - 1)),
           head' = IF q = 1 THEN n ELSE head,
           tail' = NULL \/ tail' = order'[Len(order) + 1]
    PROVE  WellLinked' /\ order' \in Seq(Node)
<1> DEFINE N == Len(order)
<1>1. /\ N \in Nat /\ DOMAIN order = 1..N /\ size = N
      /\ ChainOf(order, N, next, prev)
      /\ live = {order[i] : i \in 1..N}
      /\ head = IF N = 0 THEN NULL ELSE order[1]
      /\ \A i \in Int : At(i) = NodeAt(order, N, i)
  BY ChainFacts
<1>2. /\ order' \in Seq(Node) /\ Len(order') = N + 1
      /\ Spliced(order, order', N, q, n)
  BY InsertAtElements DEF LinksTyped
<1>3. DOMAIN order' = 1..(N + 1)
  BY <1>2
<1> HIDE DEF N
<1>4. \A i \in 1..N : order[i] # n
  BY <1>1
<1>5. At(q) = NodeAt(order, N, q) /\ At(q - 1) = NodeAt(order, N, q - 1)
  BY <1>1 DEF N
<1>6. q \in 1..(N + 1)
  BY DEF N
<1>7. ChainOf(order', N + 1, next', prev')
  BY <1>1, <1>2, <1>4, <1>5, <1>6, ChainInsert
<1>8. NoRepeat'
  BY <1>3, <1>7 DEF ChainOf, NoRepeat
<1>9. Chained'
  BY <1>1, <1>3, <1>7 DEF ChainOf, Chained, At
<1>10. EndsOK'
  <2>1. At(1)' = order'[1] /\ At(Len(order))' = order'[N + 1]
    BY <1>1, <1>2, <1>3 DEF At
  <2>2. head' = order'[1]
    BY <1>1, <1>2, <1>6 DEF Spliced
  <2> QED
    BY <2>1, <2>2 DEF EndsOK, N
<1>11. live' = {order'[i] : i \in DOMAIN order'}
  <2>1. ASSUME NEW m \in live' PROVE \E i \in 1..(N + 1) : order'[i] = m
    <3>1. CASE m = n
      BY <3>1, <1>2, <1>6 DEF Spliced
    <3>2. CASE m # n
      <4>1. PICK i \in 1..N : order[i] = m
        BY <3>2, <1>1
      <4>2. order'[i] = m \/ order'[i + 1] = m
        BY <4>1, <1>1, <1>2, <1>6 DEF Spliced
      <4> QED
        BY <4>1, <4>2, <1>1
    <3> QED
      BY <3>1, <3>2
  <2>2. ASSUME NEW i \in 1..(N + 1) PROVE order'[i] \in live'
    BY <1>1, <1>2, <1>6 DEF Spliced
  <2> QED
    BY <2>1, <2>2, <1>3
<1>12. size' = Len(order')
  BY <1>1, <1>2
<1> QED
  BY <1>2, <1>8, <1>9, <1>10, <1>11, <1>12 DEF WellLinked

\* Removing the node at place p and joining its neighbours keeps the list well
\* linked, whichever of the two branches of list_remove did it.
LEMMA RemoveStep ==
    ASSUME LinksTyped, WellLinked, NEW p \in 1..Len(order),
           order' = RemoveAt(order, p), live' = live \ {order[p]}, size' = size - 1,
           LinkedPast(next, next', order[p], At(p - 1), At(p + 1)),
           LinkedPast(prev, prev', order[p], At(p + 1), At(p - 1)),
           head' = IF p = 1 THEN At(2) ELSE head,
           tail' = NULL \/ (Len(order) > 1 /\ tail' = order'[Len(order) - 1])
    PROVE  WellLinked' /\ order' \in Seq(Node)
<1> DEFINE N == Len(order)
<1>1. /\ N \in Nat /\ DOMAIN order = 1..N /\ size = N
      /\ ChainOf(order, N, next, prev)
      /\ live = {order[i] : i \in 1..N}
      /\ head = IF N = 0 THEN NULL ELSE order[1]
      /\ \A i \in Int : At(i) = NodeAt(order, N, i)
  BY ChainFacts
<1>2. /\ order' \in Seq(Node) /\ Len(order') = N - 1
      /\ Cut(order, order', N, p)
  BY RemoveCuts DEF LinksTyped
<1>3. DOMAIN order' = 1..(N - 1)
  BY <1>2
<1> HIDE DEF N
<1>4. p \in 1..N
  BY DEF N
<1>5. /\ At(p + 1) = NodeAt(order, N, p + 1) /\ At(p - 1) = NodeAt(order, N, p - 1)
      /\ At(2) = NodeAt(order, N, 2)
  BY <1>1, <1>4
<1>6. ChainOf(order', N - 1, next', prev')
  BY <1>1, <1>2, <1>4, <1>5, ChainRemove
<1>7. NoRepeat'
  BY <1>3, <1>6 DEF ChainOf, NoRepeat
<1>8. Chained'
  <2>1. ASSUME NEW i \in 1..(N - 1)
        PROVE  /\ next'[order'[i]] = IF i = N - 1 THEN NULL ELSE order'[i + 1]
               /\ prev'[order'[i]] = IF i = 1 THEN NULL ELSE order'[i - 1]
    BY <1>6 DEF ChainOf
  <2> QED BY <1>1, <1>3, <2>1 DEF Chained, At
<1>9. EndsOK'
  <2>1. /\ At(1)' = IF N = 1 THEN NULL ELSE order'[1]
        /\ N > 1 => At(Len(order))' = order'[N - 1]
    BY <1>1, <1>2, <1>3, <1>4 DEF At
  <2>2. head' = IF N = 1 THEN NULL ELSE order'[1]
    BY <1>1, <1>2, <1>4, <1>5 DEF Cut, NodeAt
  <2> QED
    BY <2>1, <2>2 DEF EndsOK, N
<1>10. live' = {order'[i] : i \in DOMAIN order'}
  <2>1. ASSUME NEW m \in live' PROVE \E i \in 1..(N - 1) : order'[i] = m
    <3>1. PICK i \in 1..N : order[i] = m /\ i # p
      BY <1>1
    <3>2. IF i < p THEN i \in 1..(N - 1) /\ order'[i] = m
                   ELSE i - 1 \in 1..(N - 1) /\ order'[i - 1] = m
      BY <3>1, <1>1, <1>2, <1>4 DEF Cut
    <3> QED
      BY <3>2
  <2>2. ASSUME NEW i \in 1..(N - 1) PROVE order'[i] \in live'
    <3>1. order'[i] = IF i < p THEN order[i] ELSE order[i + 1]
      BY <1>2 DEF Cut
    <3>2. i \in 1..N /\ i + 1 \in 1..N
      BY <1>1
    <3>3. order'[i] \in live /\ order'[i] # order[p]
      BY <3>1, <3>2, <1>1, <1>4 DEF ChainOf
    <3> QED
      BY <3>3
  <2> QED
    BY <2>1, <2>2, <1>3
<1>11. size' = Len(order')
  BY <1>1, <1>2
<1> QED
  BY <1>2, <1>7, <1>8, <1>9, <1>10, <1>11 DEF WellLinked
-----------------------------------------------------------------------------
\* Linking the first node, list.c:40-43, gives the list of that node.
LEMMA LinkFirstStep ==
    ASSUME LinksTyped, WellLinked, size = 0, NEW o, NEW n \in Node \ live,
           NEW d \in Data, Allocate(o, n, d), LinkFirst(n)
    PROVE  LinksTyped' /\ WellLinked'
<1>1. order = <<>>
  BY EmptySeq DEF WellLinked, LinksTyped
<1>2. live = {}
  BY <1>1 DEF WellLinked
<1>3. order' = <<n>> /\ size' = 1 /\ live' = {n} /\ head' = n /\ tail' = NULL
  BY <1>2 DEF LinkFirst, Allocate
<1>4. LinksTyped'
  BY <1>3 DEF LinksTyped, LinkFirst, Allocate, Link
<1>5. WellLinked'
  <2>1. /\ order' = <<n>> /\ size' = 1 /\ live' = {n} /\ head' = n /\ tail' = NULL
        /\ next'[n] = NULL /\ prev'[n] = NULL
    BY <1>3 DEF LinkFirst, LinksTyped
  <2>2. Len(order') = 1 /\ order'[1] = n /\ DOMAIN order' = {1}
    BY <2>1
  <2>3. At(1)' = n /\ At(2)' = NULL /\ At(0)' = NULL /\ At(Len(order))' = n
    BY <2>2 DEF At
  <2>4. \A i \in {1} : At(i + 1)' = NULL /\ At(i - 1)' = NULL
    BY <2>2 DEF At
  <2>5. NoRepeat' /\ Chained'
    BY <2>1, <2>2, <2>4 DEF NoRepeat, Chained
  <2>6. EndsOK' /\ live' = {order'[i] : i \in DOMAIN order'}
    BY <2>1, <2>2, <2>3 DEF EndsOK
  <2> QED
    BY <2>1, <2>2, <2>5, <2>6 DEF WellLinked, EndsOK
<1> QED
  BY <1>4, <1>5

\* Linking after e, list.c:45-54, is InsertStep one place behind e.
LEMMA LinkNextStep ==
    ASSUME LinksTyped, WellLinked, NEW o, NEW n \in Node \ live, NEW e \in live,
           NEW d \in Data, Allocate(o, n, d), LinkNext(n, e)
    PROVE  LinksTyped' /\ WellLinked'
<1> DEFINE p == Pos(e)
           N == Len(order)
<1>1. p \in 1..N /\ order[p] = e /\ N \in Nat
  BY PosOfLive DEF LinksTyped
<1>2. ChainOf(order, N, next, prev) /\ \A i \in Int : At(i) = NodeAt(order, N, i)
  BY ChainFacts
<1>3. tail = NULL \/ tail = order[N]
  BY ChainFacts
<1>4. /\ order' = InsertAt(order, p + 1, n) /\ order \in Seq(Node)
      /\ live' = live \cup {n} /\ size' = size + 1 /\ head' = head
      /\ tail' = IF next[e] = NULL THEN n ELSE tail
      /\ next \in [Node -> Link] /\ prev \in [Node -> Link]
      /\ next' = [next EXCEPT ![n] = next[e], ![e] = n]
      /\ prev' = [m \in Node |-> IF m = n THEN e
                                 ELSE IF m = next[e] THEN n ELSE prev[m]]
  BY DEF LinkNext, Allocate, LinksTyped
<1>5. LinksTyped' \/ order' \notin Seq(Node)
  BY DEF LinksTyped, LinkNext, Allocate, Link
<1> HIDE DEF p, N
<1>6. p + 1 \in 1..(N + 1) /\ (p + 1) - 1 = p /\ p + 1 # 1
  BY <1>1
<1>7. At(p) = e /\ At(p + 1) = next[e] /\ (next[e] = NULL <=> p = N)
  BY <1>1, <1>2, NullAssumption DEF NodeAt, ChainOf
<1>8. e \in Node /\ e # n
  BY DEF LinksTyped
<1>9. LinkedIn(next, next', n, At(p), At(p + 1))
  BY <1>4, <1>7, <1>8 DEF LinkedIn
<1>10. LinkedIn(prev, prev', n, At(p + 1), At(p))
  BY <1>4, <1>7, <1>8 DEF LinkedIn
<1>11. tail' = NULL \/ tail' = order'[N + 1]
  <2>1. order'[N + 1] = IF N + 1 = p + 1 THEN n ELSE order[N]
    <3>1. order \in Seq(Node) /\ n \in Node /\ p + 1 \in 1..(Len(order) + 1)
      BY <1>4, <1>6 DEF N
    <3>2. InsertAt(order, p + 1, n)[Len(order) + 1]
             = IF p + 1 = Len(order) + 1 THEN n ELSE order[Len(order)]
      BY <3>1, InsertAtLast
    <3> QED
      BY <3>2, <1>4 DEF N
  <2> QED
    BY <2>1, <1>1, <1>3, <1>4, <1>7
<1>12. WellLinked' /\ order' \in Seq(Node)
  BY <1>4, <1>6, <1>9, <1>10, <1>11, InsertStep DEF N
<1> QED
  BY <1>5, <1>12

\* Linking before e, list.c:79-88, is InsertStep at e's place.
LEMMA LinkPrevStep ==
    ASSUME LinksTyped, WellLinked, NEW o, NEW n \in Node \ live, NEW e \in live,
           NEW d \in Data, Allocate(o, n, d), LinkPrev(n, e)
    PROVE  LinksTyped' /\ WellLinked'
<1> DEFINE p == Pos(e)
           N == Len(order)
<1>1. p \in 1..N /\ order[p] = e /\ N \in Nat
  BY PosOfLive DEF LinksTyped
<1>2. ChainOf(order, N, next, prev) /\ \A i \in Int : At(i) = NodeAt(order, N, i)
  BY ChainFacts
<1>3. tail = NULL \/ tail = order[N]
  BY ChainFacts
<1>4. /\ order' = InsertAt(order, p, n) /\ order \in Seq(Node)
      /\ live' = live \cup {n} /\ size' = size + 1 /\ tail' = tail
      /\ head' = IF prev[e] = NULL THEN n ELSE head
      /\ next \in [Node -> Link] /\ prev \in [Node -> Link]
      /\ prev' = [prev EXCEPT ![n] = prev[e], ![e] = n]
      /\ next' = [m \in Node |-> IF m = n THEN e
                                 ELSE IF m = prev[e] THEN n ELSE next[m]]
  BY DEF LinkPrev, Allocate, LinksTyped
<1>5. LinksTyped' \/ order' \notin Seq(Node)
  BY DEF LinksTyped, LinkPrev, Allocate, Link
<1> HIDE DEF p, N
<1>6. p \in 1..(N + 1)
  BY <1>1
<1>7. At(p) = e /\ At(p - 1) = prev[e] /\ (prev[e] = NULL <=> p = 1)
  BY <1>1, <1>2, NullAssumption DEF NodeAt, ChainOf
<1>8. e \in Node /\ e # n
  BY DEF LinksTyped
<1>9. LinkedIn(next, next', n, At(p - 1), At(p))
  BY <1>4, <1>7, <1>8 DEF LinkedIn
<1>10. LinkedIn(prev, prev', n, At(p), At(p - 1))
  BY <1>4, <1>7, <1>8 DEF LinkedIn
<1>11. tail' = NULL \/ tail' = order'[N + 1]
  <2>1. order'[N + 1] = IF N + 1 < p THEN order[N + 1]
                        ELSE IF N + 1 = p THEN n ELSE order[(N + 1) - 1]
    BY <1>1, <1>4, <1>6, InsertAtElements DEF N, Spliced
  <2> QED
    BY <2>1, <1>1, <1>3, <1>4
<1>12. WellLinked' /\ order' \in Seq(Node)
  BY <1>4, <1>6, <1>7, <1>9, <1>10, <1>11, InsertStep DEF N
<1> QED
  BY <1>5, <1>12

\* list_remove's unlinking of a node of the list is RemoveStep at its place.
LEMMA UnlinkStep ==
    ASSUME LinksTyped, WellLinked, NEW e \in live, Unlink(e)
    PROVE  LinksTyped' /\ WellLinked'
<1> DEFINE p == Pos(e)
           N == Len(order)
<1>1. p \in 1..N /\ order[p] = e /\ N \in Nat /\ size = N
  BY PosOfLive DEF LinksTyped, WellLinked
<1>2. ChainOf(order, N, next, prev) /\ \A i \in Int : At(i) = NodeAt(order, N, i)
  BY ChainFacts
<1>3. /\ tail = NULL \/ tail = order[N]
      /\ head = IF N = 0 THEN NULL ELSE order[1]
  BY ChainFacts
<1>4. /\ order' = RemoveAt(order, p) /\ order \in Seq(Node)
      /\ live' = live \ {e} /\ size' = size - 1
      /\ next \in [Node -> Link] /\ prev \in [Node -> Link]
  BY DEF Unlink, LinksTyped
<1>5. LinksTyped' \/ order' \notin Seq(Node)
  <2>1. size - 1 \in Nat
    BY <1>1
  <2> QED
    BY <2>1 DEF LinksTyped, Unlink, Link
<1>6. head' = IF e = head THEN next[e] ELSE head
  BY DEF Unlink
<1>7. tail' = IF next[e] # NULL THEN tail ELSE IF e = head THEN NULL ELSE prev[e]
  BY DEF Unlink
<1>8. ASSUME NEW m \in Node
      PROVE  /\ next'[m] = IF e # head /\ m = prev[e] THEN next[e] ELSE next[m]
             /\ prev'[m] = IF m # next[e] THEN prev[m]
                           ELSE IF e = head THEN NULL ELSE prev[e]
  BY <1>4 DEF Unlink
<1> HIDE DEF p, N
<1>9. /\ At(p - 1) = prev[e] /\ At(p + 1) = next[e]
      /\ (prev[e] = NULL <=> p = 1) /\ (next[e] = NULL <=> p = N)
      /\ (e = head <=> p = 1)
  BY <1>1, <1>2, <1>3, NullAssumption DEF NodeAt, ChainOf
<1>10. LinkedPast(next, next', order[p], At(p - 1), At(p + 1))
  BY <1>1, <1>8, <1>9, NullAssumption DEF LinkedPast
<1>11. LinkedPast(prev, prev', order[p], At(p + 1), At(p - 1))
  BY <1>1, <1>8, <1>9, NullAssumption DEF LinkedPast
<1>12. head' = IF p = 1 THEN At(2) ELSE head
  BY <1>6, <1>9
<1>13. tail' = NULL \/ (N > 1 /\ tail' = order'[N - 1])
  <2>0. \A k \in 1..(N - 1) : order'[k] = IF k < p THEN order[k] ELSE order[k + 1]
    BY <1>1, <1>4, RemoveAtElements DEF N
  <2>1. N > 1 => order'[N - 1] = IF N - 1 < p THEN order[N - 1] ELSE order[N]
    BY <1>1, <2>0
  <2>2. p > 1 => prev[e] = order[p - 1]
    BY <1>1, <1>2 DEF ChainOf
  <2> QED
    BY <2>1, <2>2, <1>1, <1>3, <1>7, <1>9
<1>14. WellLinked' /\ order' \in Seq(Node)
  BY <1>1, <1>4, <1>10, <1>11, <1>12, <1>13, RemoveStep DEF N
<1> QED
  BY <1>5, <1>14
-----------------------------------------------------------------------------
\* The inductive invariant: the checked invariants themselves, without the
\* cursor, whose value after a free is the allocator's, and strengthened by the
\* fact that no list is left behind where list_init may start a new one.
CallTyped == /\ aux \in Link \cup Clobber /\ pc \in {"uninit", "ready", "destroy"}
             /\ op \in Ops /\ ret \in {0, -1} /\ oom \in BOOLEAN
NoneBeforeInit == pc = "uninit" => size = 0
IInv == LinksTyped /\ CallTyped /\ WellLinked /\ OwnedOnce /\ NoneBeforeInit

\* An insertion makes the list the one owner of the datum.
LEMMA AllocateOwned ==
    ASSUME LinksTyped, OwnedOnce, NEW o, NEW n \in Node \ live,
           NEW d \in Data \ owned, Allocate(o, n, d)
    PROVE  OwnedOnce'
<1>1. /\ live' = live \cup {n} /\ owned' = owned \cup {d}
      /\ data' = [data EXCEPT ![n] = d] /\ data \in [Node -> Data] /\ live \subseteq Node
  BY DEF Allocate, LinksTyped
<1>2. data'[n] = d /\ \A m \in live : data'[m] = data[m] /\ data[m] # d
  BY <1>1 DEF OwnedOnce
<1> QED
  BY <1>1, <1>2 DEF OwnedOnce

\* A removal destroys the datum of the node it frees and no other.
LEMMA UnlinkOwned ==
    ASSUME LinksTyped, OwnedOnce, NEW e \in live, Unlink(e)
    PROVE  OwnedOnce'
  BY DEF Unlink, LinksTyped, OwnedOnce

\* The position a call passes is NULL or a node of the list.
LEMMA EndsAreLive ==
    ASSUME LinksTyped, WellLinked
    PROVE  head \in live \cup {NULL} /\ tail \in live \cup {NULL}
<1>1. Len(order) \in Nat /\ \A i \in 1..Len(order) : order[i] \in live
  BY ChainFacts
<1> QED
  BY <1>1, ChainFacts

\* A refused call changes nothing but the result.
LEMMA RefuseInv ==
    ASSUME IInv, NEW o \in InsertOps \cup RemoveOps, NEW b \in BOOLEAN, Refuse(o, b)
    PROVE  IInv'
<1>1. UNCHANGED links /\ UNCHANGED <<aux, pc>> /\ op' = o /\ ret' = -1 /\ oom' = b
  BY DEF Refuse
<1>2. LinksTyped' /\ WellLinked' /\ OwnedOnce'
  BY <1>1 DEF IInv, links, LinksTyped, WellLinked, NoRepeat, Chained, EndsOK, At, OwnedOnce
<1>3. CallTyped'
  BY <1>1 DEF IInv, CallTyped, Ops
<1>4. NoneBeforeInit'
  BY <1>1 DEF IInv, NoneBeforeInit, links
<1> QED
  BY <1>2, <1>3, <1>4 DEF IInv

\* list_insert_next keeps the invariant, whether it is refused or not.
LEMMA InsertNextInv ==
    ASSUME IInv, NEW o \in InsertOps, NEW e \in live \cup {NULL},
           NEW d \in Data \ owned, InsertNext(o, e, d)
    PROVE  IInv'
<1>1. CASE \E b \in BOOLEAN : Refuse(o, b)
  BY <1>1, RefuseInv
<1>2. CASE \E n \in Node \ live : /\ Allocate(o, n, d) /\ (e # NULL \/ size = 0)
                                  /\ IF size = 0 THEN LinkFirst(n) ELSE LinkNext(n, e)
  <2>1. PICK n \in Node \ live : /\ Allocate(o, n, d) /\ (e # NULL \/ size = 0)
                                 /\ IF size = 0 THEN LinkFirst(n) ELSE LinkNext(n, e)
    BY <1>2
  <2>2. LinksTyped' /\ WellLinked'
    BY <2>1, LinkFirstStep, LinkNextStep DEF IInv
  <2>3. OwnedOnce'
    BY <2>1, AllocateOwned DEF IInv
  <2>4. CallTyped'
    BY <2>1 DEF IInv, CallTyped, Allocate, Ops
  <2>5. NoneBeforeInit'
    BY <2>1 DEF InsertNext, Allocate, NoneBeforeInit
  <2> QED
    BY <2>2, <2>3, <2>4, <2>5 DEF IInv
<1> QED
  BY <1>1, <1>2 DEF InsertNext

\* list_insert_prev keeps the invariant.
LEMMA InsertPrevInv ==
    ASSUME IInv, NEW o \in InsertOps, NEW e \in live \cup {NULL},
           NEW d \in Data \ owned, InsertPrev(o, e, d)
    PROVE  IInv'
<1>1. CASE \E b \in BOOLEAN : Refuse(o, b)
  BY <1>1, RefuseInv
<1>2. CASE \E n \in Node \ live : /\ Allocate(o, n, d) /\ (e # NULL \/ size = 0)
                                  /\ IF size = 0 THEN LinkFirst(n) ELSE LinkPrev(n, e)
  <2>1. PICK n \in Node \ live : /\ Allocate(o, n, d) /\ (e # NULL \/ size = 0)
                                 /\ IF size = 0 THEN LinkFirst(n) ELSE LinkPrev(n, e)
    BY <1>2
  <2>2. LinksTyped' /\ WellLinked'
    BY <2>1, LinkFirstStep, LinkPrevStep DEF IInv
  <2>3. OwnedOnce'
    BY <2>1, AllocateOwned DEF IInv
  <2>4. CallTyped'
    BY <2>1 DEF IInv, CallTyped, Allocate, Ops
  <2>5. NoneBeforeInit'
    BY <2>1 DEF InsertPrev, Allocate, NoneBeforeInit
  <2> QED
    BY <2>2, <2>3, <2>4, <2>5 DEF IInv
<1> QED
  BY <1>1, <1>2 DEF InsertPrev

\* list_remove keeps the invariant.
LEMMA ListRemoveInv ==
    ASSUME IInv, NEW o \in RemoveOps, NEW e \in live \cup {NULL}, ListRemove(o, e)
    PROVE  IInv'
<1>1. CASE Refuse(o, FALSE)
  BY <1>1, RefuseInv
<1>2. CASE e # NULL /\ Unlink(e) /\ op' = o /\ ret' = 0 /\ oom' = FALSE /\ UNCHANGED <<aux, pc>>
  <2>1. LinksTyped' /\ WellLinked'
    BY <1>2, UnlinkStep DEF IInv
  <2>2. OwnedOnce'
    BY <1>2, UnlinkOwned DEF IInv
  <2>3. CallTyped'
    BY <1>2 DEF IInv, CallTyped, Ops
  <2>4. NoneBeforeInit'
    BY <1>2 DEF ListRemove, NoneBeforeInit
  <2> QED
    BY <2>1, <2>2, <2>3, <2>4 DEF IInv
<1> QED
  BY <1>1, <1>2 DEF ListRemove, IInv

\* The initial state satisfies the inductive invariant.
LEMMA InitInv ==
    ASSUME Init PROVE IInv
<1>1. order = <<>> /\ Len(order) = 0 /\ DOMAIN order = {}
  BY DEF Init
<1>2. WellLinked
  BY <1>1 DEF Init, WellLinked, NoRepeat, Chained, EndsOK, At
<1>3. LinksTyped
  BY DataAssumption DEF Init, LinksTyped, Link
<1>4. CallTyped
  BY DEF Init, CallTyped, Link, Ops
<1>5. OwnedOnce
  BY DEF Init, OwnedOnce
<1>6. NoneBeforeInit
  BY DEF Init, NoneBeforeInit
<1> QED
  BY <1>2, <1>3, <1>4, <1>5, <1>6 DEF IInv

\* Setting the fields of an empty list to those of an empty list.
LEMMA KeepEmpty ==
    ASSUME LinksTyped, WellLinked, OwnedOnce, size = 0,
           size' = 0, head' = NULL, tail' = NULL,
           UNCHANGED <<data, prev, next, live, owned, order>>
    PROVE  LinksTyped' /\ WellLinked' /\ OwnedOnce'
<1>1. order = <<>> /\ DOMAIN order = {} /\ Len(order) = 0
  <2>1. Len(order) = 0 /\ order \in Seq(Node)
    BY DEF WellLinked, LinksTyped
  <2> QED
    BY <2>1, EmptySeq
<1>2. live = {}
  BY <1>1 DEF WellLinked
<1>3. LinksTyped'
  BY DEF LinksTyped, Link
<1>4. OwnedOnce'
  BY DEF OwnedOnce
<1>5. order' = <<>> /\ live' = {}
  BY <1>1, <1>2
<1>6. WellLinked'
  BY <1>5 DEF WellLinked, NoRepeat, Chained, EndsOK, At
<1> QED
  BY <1>3, <1>4, <1>6

\* Every step of Next keeps the inductive invariant.
LEMMA NextInv ==
    ASSUME IInv, [Next]_vars PROVE IInv'
<1>1. CASE ListInit
  <2>1. LinksTyped' /\ WellLinked' /\ OwnedOnce'
    BY <1>1, KeepEmpty DEF ListInit, IInv, NoneBeforeInit
  <2>2. CallTyped' /\ NoneBeforeInit'
    BY <1>1 DEF ListInit, IInv, CallTyped, NoneBeforeInit, Ops, LinksTyped
  <2> QED
    BY <2>1, <2>2 DEF IInv
<1>2. CASE \E e \in live \cup {NULL}, d \in Data \ owned :
              InsertNext("insert_next", e, d) \/ InsertPrev("insert_prev", e, d)
  BY <1>2, InsertNextInv, InsertPrevInv DEF InsertOps
<1>3. CASE \E d \in Data \ owned : InsertBegin(d) \/ InsertEnd(d)
  BY <1>3, InsertNextInv, InsertPrevInv, EndsAreLive
     DEF InsertBegin, InsertEnd, InsertOps, IInv
<1>4. CASE \E e \in live \cup {NULL} : ListRemove("remove", e)
  BY <1>4, ListRemoveInv DEF RemoveOps
<1>5. CASE RemoveBegin \/ RemoveLast
  BY <1>5, ListRemoveInv, EndsAreLive DEF RemoveBegin, RemoveLast, RemoveOps, IInv
<1>6. CASE DestroyStart
  <2>1. LinksTyped' /\ WellLinked' /\ OwnedOnce'
    BY <1>6 DEF DestroyStart, IInv, links, LinksTyped, WellLinked, NoRepeat, Chained,
                EndsOK, At, OwnedOnce
  <2>2. CallTyped'
    BY <1>6 DEF DestroyStart, IInv, CallTyped, LinksTyped
  <2>3. NoneBeforeInit'
    BY <1>6 DEF DestroyStart, NoneBeforeInit
  <2> QED
    BY <2>1, <2>2, <2>3 DEF IInv
<1>7. CASE DestroyStep
  <2>1. LinksTyped' /\ WellLinked' /\ OwnedOnce'
    BY <1>7, UnlinkStep, UnlinkOwned DEF DestroyStep, IInv
  <2>2. CallTyped'
    BY <1>7, <2>1 DEF DestroyStep, IInv, CallTyped, LinksTyped
  <2>3. NoneBeforeInit'
    BY <1>7 DEF DestroyStep, NoneBeforeInit
  <2> QED
    BY <2>1, <2>2, <2>3 DEF IInv
<1>8. CASE DestroyEnd
  <2>1. size = 0
    BY <1>8 DEF DestroyEnd, IInv, LinksTyped
  <2>2. LinksTyped' /\ WellLinked' /\ OwnedOnce'
    BY <1>8, <2>1, KeepEmpty DEF DestroyEnd, IInv
  <2>3. CallTyped' /\ NoneBeforeInit'
    BY <1>8 DEF DestroyEnd, IInv, CallTyped, NoneBeforeInit, Ops, LinksTyped
  <2> QED
    BY <2>2, <2>3 DEF IInv
<1>9. CASE UNCHANGED vars
  BY <1>9 DEF vars, IInv, LinksTyped, CallTyped, WellLinked, NoRepeat, Chained,
              EndsOK, At, OwnedOnce, NoneBeforeInit
<1> QED
  BY <1>1, <1>2, <1>3, <1>4, <1>5, <1>6, <1>7, <1>8, <1>9 DEF Next

\* The inductive invariant holds throughout.
LEMMA AlwaysIInv ==
    Spec => []IInv
  BY InitInv, NextInv, PTL DEF Spec
-----------------------------------------------------------------------------
\* The chain over the allocated nodes is never broken, whatever the sequence
\* of calls, the failures of malloc and the contents of freed memory.
THEOREM ListStaysWellLinked ==
    Spec => []WellLinked
<1>1. IInv => WellLinked
  BY DEF IInv
<1> QED
  BY <1>1, AlwaysIInv, PTL

\* Every link, counter and result stays of its type.
THEOREM ListTypeCorrect ==
    Spec => []TypeOK
<1>1. IInv => TypeOK
  BY DEF IInv, TypeOK, LinksTyped, CallTyped
<1> QED
  BY <1>1, AlwaysIInv, PTL

\* No datum is destroyed twice, none is forgotten.
THEOREM EveryDatumOwnedOnce ==
    Spec => []OwnedOnce
<1>1. IInv => OwnedOnce
  BY DEF IInv
<1> QED
  BY <1>1, AlwaysIInv, PTL

\* head is NULL exactly on an empty list.
LEMMA HeadOfNonEmpty ==
    ASSUME LinksTyped, WellLinked
    PROVE  head = NULL <=> size = 0
<1>1. /\ Len(order) \in Nat /\ size = Len(order)
      /\ head = IF Len(order) = 0 THEN NULL ELSE order[1]
  BY ChainFacts
<1>2. \A i \in 1..Len(order) : order[i] # NULL
  BY NullAssumption DEF LinksTyped
<1> QED
  BY <1>1, <1>2

\* A front insertion is refused only when malloc fails, a front removal only
\* on an empty list: the two results symbol_table.c ignores.
THEOREM FrontCallsAlwaysSucceed ==
    Spec => []FrontCallsSucceed
<1>1. Init => FrontCallsSucceed
  BY DEF Init, FrontCallsSucceed
<1>2. ASSUME IInv, FrontCallsSucceed, [Next]_vars PROVE FrontCallsSucceed'
  <2>1. head = NULL <=> size = 0
    BY <1>2, HeadOfNonEmpty DEF IInv
  <2>2. CASE \E d \in Data \ owned : InsertBegin(d)
    BY <2>1, <2>2 DEF InsertBegin, InsertPrev, Refuse, Allocate, FrontCallsSucceed
  <2>3. CASE RemoveBegin
    BY <2>1, <2>3 DEF RemoveBegin, ListRemove, Refuse, links, FrontCallsSucceed
  <2>4. CASE op' \notin {"insert_begin", "remove_begin"}
    BY <2>4 DEF FrontCallsSucceed
  <2>5. CASE UNCHANGED <<op, ret, oom, size>>
    BY <1>2, <2>5 DEF FrontCallsSucceed
  <2>6. CASE DestroyStep
    BY <1>2, <2>6 DEF DestroyStep, FrontCallsSucceed
  <2>7. CASE \/ ListInit \/ RemoveLast \/ DestroyEnd
             \/ \E e \in live \cup {NULL} : ListRemove("remove", e)
    BY <2>4, <2>7 DEF ListInit, RemoveLast, DestroyEnd, ListRemove, Refuse
  <2>8. CASE \/ \E d \in Data \ owned : InsertEnd(d)
             \/ \E e \in live \cup {NULL}, d \in Data \ owned :
                   InsertNext("insert_next", e, d) \/ InsertPrev("insert_prev", e, d)
    BY <2>4, <2>8 DEF InsertEnd, InsertNext, InsertPrev, Refuse, Allocate
  <2>9. CASE DestroyStart \/ UNCHANGED vars
    BY <2>5, <2>9 DEF DestroyStart, links, vars
  <2> QED
    BY <1>2, <2>2, <2>3, <2>6, <2>7, <2>8, <2>9 DEF Next
<1> QED
  BY <1>1, <1>2, AlwaysIInv, PTL DEF Spec

\* When free leaves the next field of the freed node alone, list_destroy's
\* cursor is the head of what is left, so it never removes a freed node.
THEOREM CursorStaysHead ==
    ASSUME Clobber = {} PROVE Spec => []CursorIsHead
<1>1. Init => CursorIsHead
  BY DEF Init, CursorIsHead
<1>2. ASSUME IInv, CursorIsHead, [Next]_vars PROVE CursorIsHead'
  <2>1. CASE DestroyStep
    <3>1. aux = head
      BY <1>2, <2>1 DEF DestroyStep, CursorIsHead
    <3>2. head' = next[head] /\ next' = next
      BY <2>1, <3>1 DEF DestroyStep, Unlink
    <3>3. aux' = head'
      BY <2>1, <3>1, <3>2 DEF DestroyStep
    <3> QED
      BY <3>3 DEF CursorIsHead
  <2>2. CASE DestroyStart
    BY <2>2 DEF DestroyStart, links, CursorIsHead
  <2>3. CASE UNCHANGED vars
    BY <1>2, <2>3 DEF vars, CursorIsHead
  <2>4. CASE ListInit \/ DestroyEnd
    BY <2>4 DEF ListInit, DestroyEnd, CursorIsHead
  <2>5. CASE pc = "ready" /\ UNCHANGED pc
    BY <2>5 DEF CursorIsHead
  <2>6. CASE RemoveBegin \/ RemoveLast \/ \E e \in live \cup {NULL} : ListRemove("remove", e)
    BY <2>5, <2>6 DEF RemoveBegin, RemoveLast, ListRemove, Refuse
  <2>7. CASE \/ \E d \in Data \ owned : InsertBegin(d) \/ InsertEnd(d)
             \/ \E e \in live \cup {NULL}, d \in Data \ owned :
                   InsertNext("insert_next", e, d) \/ InsertPrev("insert_prev", e, d)
    BY <2>5, <2>7 DEF InsertBegin, InsertEnd, InsertNext, InsertPrev, Refuse, Allocate
  <2> QED
    BY <1>2, <2>1, <2>2, <2>3, <2>4, <2>6, <2>7 DEF Next
<1> QED
  BY <1>1, <1>2, AlwaysIInv, PTL DEF Spec
-----------------------------------------------------------------------------
\* The sequence the list stands for: what Abs takes for contents.
Contents == [i \in DOMAIN order |-> data[order[i]]]

\* It has a datum for every node.
LEMMA ContentsSeq ==
    ASSUME LinksTyped
    PROVE  /\ Contents \in Seq(Data) /\ Len(Contents) = Len(order)
           /\ DOMAIN Contents = 1..Len(order) /\ Len(order) \in Nat
           /\ \A i \in 1..Len(order) : Contents[i] = data[order[i]]
<1>1. /\ order \in Seq(Node) /\ Len(order) \in Nat /\ DOMAIN order = 1..Len(order)
      /\ data \in [Node -> Data]
  BY DEF LinksTyped
<1>2. \A i \in 1..Len(order) : order[i] \in Node
  BY <1>1, ElementOfSeq
<1>3. \A i \in 1..Len(order) : data[order[i]] \in Data
  BY <1>1, <1>2
<1>4. Contents = [i \in 1..Len(order) |-> data[order[i]]]
  BY <1>1 DEF Contents
<1>5. Contents \in Seq(Data) /\ DOMAIN Contents = 1..Len(order)
  BY <1>1, <1>3, <1>4
<1>6. Len(Contents) = Len(order)
  BY <1>1, <1>5
<1> QED
  BY <1>1, <1>4, <1>5, <1>6

\* A node with datum d linked in at place q puts d at place q of the sequence.
LEMMA InsertContents ==
    ASSUME LinksTyped, WellLinked, LinksTyped', NEW n \in Node \ live, NEW d \in Data,
           NEW q \in 1..(Len(order) + 1),
           order' = InsertAt(order, q, n), data' = [data EXCEPT ![n] = d]
    PROVE  Contents' = InsertAt(Contents, q, d)
<1> DEFINE N == Len(order)
           c == Contents
           t == InsertAt(c, q, d)
<1>1. /\ N \in Nat /\ c \in Seq(Data) /\ Len(c) = N
      /\ \A i \in 1..N : c[i] = data[order[i]]
  BY ContentsSeq
<1>2. /\ Len(order') = N + 1
      /\ Spliced(order, order', N, q, n)
  BY InsertAtElements DEF LinksTyped
<1>3. /\ t \in Seq(Data) /\ Len(t) = N + 1
      /\ Spliced(c, t, N, q, d)
  <2> HIDE DEF c
  <2>1. q \in 1..(Len(c) + 1)
    BY <1>1
  <2> QED BY <1>1, <2>1, InsertAtElements
<1>4. \A i \in 1..N : order[i] \in Node /\ order[i] # n
  <2>1. live = {order[i] : i \in 1..N} /\ live \subseteq Node
    BY ChainFacts DEF LinksTyped
  <2> QED BY <2>1
<1>5. order' \in Seq(Node) /\ DOMAIN order' = 1..(N + 1)
  BY <1>2 DEF LinksTyped
<1>6. data \in [Node -> Data] /\ data' = [data EXCEPT ![n] = d]
  BY DEF LinksTyped
<1>7. \A m \in Node : data'[m] = IF m = n THEN d ELSE data[m]
  BY <1>6
<1>8. Contents' = [k \in 1..(N + 1) |-> data'[order'[k]]]
  BY <1>5 DEF Contents
<1>9. q \in 1..(N + 1)
  OBVIOUS
<1> HIDE DEF N, c, t
<1>10. ASSUME NEW k \in 1..(N + 1) PROVE data'[order'[k]] = t[k]
  <2>1. CASE k < q
    <3>1. k \in 1..N
      BY <1>1, <1>9, <2>1
    <3> QED BY <3>1, <2>1, <1>1, <1>2, <1>3, <1>4, <1>7 DEF Spliced
  <2>2. CASE k = q
    BY <2>2, <1>2, <1>3, <1>7 DEF Spliced
  <2>3. CASE k > q
    <3>1. k - 1 \in 1..N
      BY <1>1, <1>9, <2>3
    <3> QED BY <3>1, <2>3, <1>1, <1>2, <1>3, <1>4, <1>7, <1>9 DEF Spliced
  <2> QED BY <2>1, <2>2, <2>3, <1>1, <1>9
<1>11. DOMAIN t = 1..(N + 1)
  BY <1>1, <1>3
<1>12. t = [k \in 1..(N + 1) |-> t[k]]
  BY <1>3, <1>11
<1> QED BY <1>8, <1>10, <1>12 DEF t, c

\* A node unlinked at place p takes its datum from place p of the sequence.
LEMMA RemoveContents ==
    ASSUME LinksTyped, WellLinked, LinksTyped', NEW p \in 1..Len(order),
           order' = RemoveAt(order, p), data' = data
    PROVE  Contents' = RemoveAt(Contents, p)
<1> DEFINE N == Len(order)
           c == Contents
           t == RemoveAt(c, p)
<1>1. /\ N \in Nat /\ c \in Seq(Data) /\ Len(c) = N
      /\ \A i \in 1..N : c[i] = data[order[i]]
  BY ContentsSeq
<1>2. /\ Len(order') = N - 1
      /\ Cut(order, order', N, p)
  BY RemoveCuts DEF LinksTyped
<1>3. /\ t \in Seq(Data) /\ Len(t) = N - 1
      /\ Cut(c, t, N, p)
  <2> HIDE DEF c
  <2>1. p \in 1..Len(c)
    BY <1>1
  <2> QED BY <1>1, <2>1, RemoveCuts
<1>4. order' \in Seq(Node) /\ DOMAIN order' = 1..(N - 1)
  BY <1>2 DEF LinksTyped
<1>5. Contents' = [k \in 1..(N - 1) |-> data[order'[k]]]
  BY <1>4 DEF Contents
<1>6. p \in 1..N
  OBVIOUS
<1> HIDE DEF N, c, t
<1>7. ASSUME NEW k \in 1..(N - 1) PROVE data[order'[k]] = t[k]
  <2>1. k \in 1..N /\ k + 1 \in 1..N
    BY <1>1, <1>6
  <2> QED BY <2>1, <1>1, <1>2, <1>3 DEF Cut
<1>8. DOMAIN t = 1..(N - 1)
  BY <1>1, <1>3
<1>9. t = [k \in 1..(N - 1) |-> t[k]]
  BY <1>3, <1>8
<1> QED BY <1>5, <1>7, <1>9 DEF t, c
-----------------------------------------------------------------------------
\* A refused call is one the sequence sees refused.
LEMMA RefuseMaps ==
    ASSUME IInv, pc = "ready", NEW o \in InsertOps \cup RemoveOps, NEW b, Refuse(o, b)
    PROVE  Abs!ARefuse
<1>1. op' = o /\ ret' = -1 /\ pc' = pc /\ order' = order /\ data' = data
  BY DEF Refuse, links
<1>2. o \in Abs!Ops \ {"init", "destroy"}
  BY DEF InsertOps, RemoveOps, Abs!Ops
<1>3. Contents' = Contents
  BY <1>1 DEF Contents
<1> QED BY <1>1, <1>2, <1>3 DEF Abs!ARefuse, Contents

\* The place at which the sequence sees an insertion next to e or into nothing.
InsertedAt(o, q) ==
    /\ q \in 1..(Len(order) + 1)
    /\ \/ o \in {"insert_next", "insert_prev"} /\ Len(order) = 0 /\ q = 1
       \/ o = "insert_next" /\ q - 1 \in 1..Len(order)
       \/ o = "insert_prev" /\ q \in 1..Len(order)
       \/ o = "insert_begin" /\ q = 1
       \/ o = "insert_end" /\ q = Len(order) + 1

\* A successful insertion is one of the sequence's.
LEMMA InsertMaps ==
    ASSUME IInv, LinksTyped', pc = "ready", NEW o \in InsertOps, NEW n \in Node \ live,
           NEW d \in Data, Allocate(o, n, d), NEW q, InsertedAt(o, q),
           order' = InsertAt(order, q, n)
    PROVE  Abs!ANext
<1>1. q \in 1..(Len(order) + 1)
  BY DEF InsertedAt
<1>2. /\ Len(Contents) = Len(order) /\ DOMAIN Contents = 1..Len(order)
      /\ Contents \in Seq(Data)
  BY ContentsSeq DEF IInv
<1>3. Contents' = InsertAt(Contents, q, d)
  BY <1>1, InsertContents DEF IInv, Allocate
<1>4. o \in Abs!Ops
  BY DEF InsertOps, Abs!Ops
<1>5. Len(order) = 0 => Contents = <<>>
  BY <1>2, EmptySeq
<1>6. Abs!InsertPlace(o, q)
  BY <1>2, <1>5 DEF InsertedAt, Abs!InsertPlace, Abs!Positions, Contents
<1>7. op' = o /\ ret' = 0 /\ pc' = pc
  BY DEF Allocate
<1>8. Abs!AInsert(o, q, d)
  BY <1>3, <1>6, <1>7 DEF Abs!AInsert, Contents, InsertAt, Abs!InsertAt
<1>9. q \in 1..(Len(Contents) + 1)
  BY <1>1, <1>2
<1> QED BY <1>4, <1>8, <1>9 DEF Abs!ANext, Contents

\* list_insert_next, called for itself or by list_insert_end on the tail.
LEMMA InsertNextMaps ==
    ASSUME IInv, NEW o \in InsertOps, NEW e \in live \cup {NULL}, NEW d \in Data \ owned,
           InsertNext(o, e, d), o = "insert_next" \/ (o = "insert_end" /\ e = tail)
    PROVE  Abs!ANext
<1>1. pc = "ready"
  BY DEF InsertNext
<1>2. CASE \E b \in BOOLEAN : Refuse(o, b)
  BY <1>1, <1>2, RefuseMaps DEF Abs!ANext
<1>3. CASE \E n \in Node \ live : /\ Allocate(o, n, d) /\ (e # NULL \/ size = 0)
                                  /\ IF size = 0 THEN LinkFirst(n) ELSE LinkNext(n, e)
  <2>1. PICK n \in Node \ live : /\ Allocate(o, n, d) /\ (e # NULL \/ size = 0)
                                 /\ IF size = 0 THEN LinkFirst(n) ELSE LinkNext(n, e)
    BY <1>3
  <2>2. LinksTyped'
    BY <2>1, LinkFirstStep, LinkNextStep DEF IInv
  <2>3. /\ size = Len(order) /\ Len(order) \in Nat /\ order \in Seq(Node)
        /\ tail = NULL \/ (Len(order) # 0 /\ tail = order[Len(order)])
    BY ChainFacts DEF IInv, LinksTyped
  <2>4. CASE size = 0
    <3>1. order = <<>> /\ order' = <<n>>
      BY <2>1, <2>3, <2>4, EmptySeq DEF LinkFirst
    <3>2. InsertAt(<<>>, 1, n) = <<n>>
      BY InsertAtFirst
    <3>3. InsertedAt(o, 1)
      BY <2>3, <2>4 DEF InsertedAt
    <3> QED BY <1>1, <2>1, <2>2, <3>1, <3>2, <3>3, InsertMaps
  <2>5. CASE size # 0
    <3>1. e \in live /\ order' = InsertAt(order, Pos(e) + 1, n)
      BY <2>1, <2>5 DEF LinkNext
    <3>2. /\ Pos(e) \in 1..Len(order)
          /\ \A i \in 1..Len(order) : order[i] = e => i = Pos(e)
      BY <3>1, PosOfLive DEF IInv, LinksTyped
    <3>3. e = tail => Pos(e) = Len(order)
      BY <2>1, <2>3, <2>5, <3>2
    <3>4. InsertedAt(o, Pos(e) + 1)
      BY <2>3, <3>2, <3>3 DEF InsertedAt
    <3> QED BY <1>1, <2>1, <2>2, <3>1, <3>4, InsertMaps
  <2> QED BY <2>4, <2>5
<1> QED BY <1>2, <1>3 DEF InsertNext

\* list_insert_prev, called for itself or by list_insert_begin on the head.
LEMMA InsertPrevMaps ==
    ASSUME IInv, NEW o \in InsertOps, NEW e \in live \cup {NULL}, NEW d \in Data \ owned,
           InsertPrev(o, e, d), o = "insert_prev" \/ (o = "insert_begin" /\ e = head)
    PROVE  Abs!ANext
<1>1. pc = "ready"
  BY DEF InsertPrev
<1>2. CASE \E b \in BOOLEAN : Refuse(o, b)
  BY <1>1, <1>2, RefuseMaps DEF Abs!ANext
<1>3. CASE \E n \in Node \ live : /\ Allocate(o, n, d) /\ (e # NULL \/ size = 0)
                                  /\ IF size = 0 THEN LinkFirst(n) ELSE LinkPrev(n, e)
  <2>1. PICK n \in Node \ live : /\ Allocate(o, n, d) /\ (e # NULL \/ size = 0)
                                 /\ IF size = 0 THEN LinkFirst(n) ELSE LinkPrev(n, e)
    BY <1>3
  <2>2. LinksTyped'
    BY <2>1, LinkFirstStep, LinkPrevStep DEF IInv
  <2>3. /\ size = Len(order) /\ Len(order) \in Nat /\ order \in Seq(Node)
        /\ head = IF Len(order) = 0 THEN NULL ELSE order[1]
    BY ChainFacts DEF IInv, LinksTyped
  <2>4. CASE size = 0
    <3>1. order = <<>> /\ order' = <<n>>
      BY <2>1, <2>3, <2>4, EmptySeq DEF LinkFirst
    <3>2. InsertAt(<<>>, 1, n) = <<n>>
      BY InsertAtFirst
    <3>3. InsertedAt(o, 1)
      BY <2>3, <2>4 DEF InsertedAt
    <3> QED BY <1>1, <2>1, <2>2, <3>1, <3>2, <3>3, InsertMaps
  <2>5. CASE size # 0
    <3>1. e \in live /\ order' = InsertAt(order, Pos(e), n)
      BY <2>1, <2>5 DEF LinkPrev
    <3>2. /\ Pos(e) \in 1..Len(order)
          /\ \A i \in 1..Len(order) : order[i] = e => i = Pos(e)
      BY <3>1, PosOfLive DEF IInv, LinksTyped
    <3>3. e = head => Pos(e) = 1
      BY <2>3, <2>5, <3>2
    <3>4. InsertedAt(o, Pos(e))
      BY <2>3, <3>2, <3>3 DEF InsertedAt
    <3> QED BY <1>1, <2>1, <2>2, <3>1, <3>4, InsertMaps
  <2> QED BY <2>4, <2>5
<1> QED BY <1>2, <1>3 DEF InsertPrev

\* Unlinking a node takes one datum out of the sequence.
LEMMA UnlinkMaps ==
    ASSUME IInv, NEW e \in live, Unlink(e)
    PROVE  /\ Pos(e) \in 1..Len(order) /\ Len(order) # 0
           /\ Contents' = RemoveAt(Contents, Pos(e))
           /\ e = head => Pos(e) = 1
           /\ e = tail => Pos(e) = Len(order)
<1>1. /\ Pos(e) \in 1..Len(order)
      /\ \A i \in 1..Len(order) : order[i] = e => i = Pos(e)
  BY PosOfLive DEF IInv, LinksTyped
<1>2. Len(order) \in Nat /\ Len(order) # 0
  BY <1>1 DEF IInv, LinksTyped
<1>3. LinksTyped'
  BY UnlinkStep DEF IInv
<1>4. Contents' = RemoveAt(Contents, Pos(e))
  BY <1>1, <1>3, RemoveContents DEF IInv, Unlink
<1>5. e # NULL
  BY NullAssumption DEF IInv, LinksTyped
<1>6. /\ e = head => e = order[1]
      /\ e = tail => e = order[Len(order)]
  BY <1>2, <1>5, ChainFacts DEF IInv
<1>7. 1 \in 1..Len(order) /\ Len(order) \in 1..Len(order)
  BY <1>2
<1> QED BY <1>1, <1>2, <1>4, <1>6, <1>7

\* list_remove, called for itself or on one of the ends.
LEMMA ListRemoveMaps ==
    ASSUME IInv, NEW o \in RemoveOps, NEW e \in live \cup {NULL}, ListRemove(o, e),
           \/ o = "remove" \/ (o = "remove_begin" /\ e = head)
           \/ (o = "remove_last" /\ e = tail)
    PROVE  Abs!ANext
<1>1. pc = "ready"
  BY DEF ListRemove
<1>2. CASE Refuse(o, FALSE)
  BY <1>1, <1>2, RefuseMaps DEF Abs!ANext
<1>3. CASE e # NULL /\ Unlink(e) /\ op' = o /\ ret' = 0 /\ UNCHANGED <<aux, pc>>
  <2>1. PICK p : /\ p \in 1..Len(order)
                 /\ Contents' = RemoveAt(Contents, p)
                 /\ e = head => p = 1
                 /\ e = tail => p = Len(order)
    <3>1. PICK p : p = Pos(e)
      OBVIOUS
    <3> QED BY <1>3, <3>1, UnlinkMaps
  <2>2. Len(Contents) = Len(order) /\ DOMAIN Contents = 1..Len(order)
    BY ContentsSeq DEF IInv
  <2>3. Abs!RemovePlace(o, p)
    BY <2>1, <2>2 DEF Abs!RemovePlace, Contents
  <2>4. Abs!ARemove(o, p)
    BY <1>1, <1>3, <2>1, <2>3 DEF Abs!ARemove, Contents, RemoveAt, Abs!RemoveAt
  <2>5. p \in Abs!Positions
    BY <2>1, <2>2 DEF Abs!Positions, Contents
  <2>6. o \in {"remove", "remove_begin", "remove_last"}
    BY DEF RemoveOps
  <2> QED BY <2>4, <2>5, <2>6 DEF Abs!ANext
<1> QED BY <1>2, <1>3 DEF ListRemove

\* One turn of list_destroy's loop takes the front of the sequence away.
LEMMA DestroyStepMaps ==
    ASSUME IInv, CursorIsHead, DestroyStep
    PROVE  Abs!AClearHead
<1>1. pc = "destroy" /\ aux \in live /\ aux = head /\ Unlink(aux) /\ UNCHANGED <<pc, op, ret>>
  BY DEF DestroyStep, CursorIsHead
<1>2. Contents' = RemoveAt(Contents, 1) /\ Len(order) # 0
  BY <1>1, UnlinkMaps
<1>3. /\ Contents \in Seq(Data) /\ Len(Contents) = Len(order) /\ Len(order) \in Nat
      /\ DOMAIN Contents = 1..Len(order)
  BY ContentsSeq DEF IInv
<1>4. RemoveAt(Contents, 1) = Tail(Contents)
  BY <1>2, <1>3, RemoveAtFirst
<1>5. Contents # <<>>
  BY <1>2, <1>3, EmptySeq
<1> QED BY <1>1, <1>2, <1>4, <1>5 DEF Abs!AClearHead, Contents

\* The initial state is the sequence's.
LEMMA InitMaps ==
    ASSUME Init PROVE Abs!AInit
<1>1. Contents = <<>>
  BY DEF Init, Contents
<1> QED BY <1>1 DEF Abs!AInit, Init, Contents

\* A list of no nodes stands for the empty sequence.
LEMMA EmptyContents ==
    ASSUME LinksTyped, WellLinked, size = 0
    PROVE  Contents = <<>> /\ order = <<>>
<1>1. Len(order) = 0 /\ Contents \in Seq(Data) /\ Len(Contents) = Len(order)
  BY ContentsSeq, ChainFacts
<1> QED BY <1>1, EmptySeq DEF LinksTyped

\* Every step of the list is a step of the sequence or changes nothing in it.
LEMMA NextMaps ==
    ASSUME IInv, CursorIsHead, [Next]_vars
    PROVE  [Abs!ANext]_Abs!absVars
<1>1. CASE ListInit
  <2>1. size = 0 /\ order' = order /\ data' = data
    BY <1>1 DEF ListInit, IInv, NoneBeforeInit
  <2>2. Contents = <<>> /\ Contents' = Contents
    BY <2>1, EmptyContents DEF IInv, Contents
  <2> QED BY <1>1, <2>2 DEF ListInit, Abs!AOpen, Abs!ANext, Contents
<1>2. CASE \E e \in live \cup {NULL}, d \in Data \ owned :
              InsertNext("insert_next", e, d) \/ InsertPrev("insert_prev", e, d)
  BY <1>2, InsertNextMaps, InsertPrevMaps DEF InsertOps
<1>3. CASE \E d \in Data \ owned : InsertBegin(d) \/ InsertEnd(d)
  <2>1. PICK h, t : h = head /\ t = tail
    OBVIOUS
  <2>2. h \in live \cup {NULL} /\ t \in live \cup {NULL}
    BY <2>1, EndsAreLive DEF IInv
  <2>3. PICK d \in Data \ owned :
           InsertPrev("insert_begin", h, d) \/ InsertNext("insert_end", t, d)
    BY <1>3, <2>1 DEF InsertBegin, InsertEnd
  <2> QED BY <2>1, <2>2, <2>3, InsertNextMaps, InsertPrevMaps DEF InsertOps
<1>4. CASE \E e \in live \cup {NULL} : ListRemove("remove", e)
  BY <1>4, ListRemoveMaps DEF RemoveOps
<1>5. CASE RemoveBegin \/ RemoveLast
  <2>1. PICK h, t : h = head /\ t = tail
    OBVIOUS
  <2>2. h \in live \cup {NULL} /\ t \in live \cup {NULL}
    BY <2>1, EndsAreLive DEF IInv
  <2>3. ListRemove("remove_begin", h) \/ ListRemove("remove_last", t)
    BY <1>5, <2>1 DEF RemoveBegin, RemoveLast
  <2> QED BY <2>1, <2>2, <2>3, ListRemoveMaps DEF RemoveOps
<1>6. CASE DestroyStart
  <2>1. Contents' = Contents
    BY <1>6 DEF DestroyStart, links, Contents
  <2> QED BY <1>6, <2>1 DEF DestroyStart, Abs!AClearStart, Abs!ANext, Contents
<1>7. CASE DestroyStep
  BY <1>7, DestroyStepMaps DEF Abs!ANext
<1>8. CASE DestroyEnd
  <2>1. size = 0 /\ order' = order /\ data' = data
    BY <1>8 DEF DestroyEnd, IInv, LinksTyped
  <2>2. Contents = <<>> /\ Contents' = Contents
    BY <2>1, EmptyContents DEF IInv, Contents
  <2> QED BY <1>8, <2>2 DEF DestroyEnd, Abs!AClose, Abs!ANext, Contents
<1>9. CASE UNCHANGED vars
  <2>1. Contents' = Contents
    BY <1>9 DEF vars, Contents
  <2> QED BY <1>9, <2>1 DEF vars, Abs!absVars, Contents
<1> QED BY <1>1, <1>2, <1>3, <1>4, <1>5, <1>6, <1>7, <1>8, <1>9 DEF Next

\* The safety part of ImplementsSeqList: when free leaves the node's next field
\* alone, every call of list.c changes the sequence of data as list.h says, the
\* two ends included although list->tail may be NULL, and list_destroy empties it
\* front first.  (That list_destroy goes on is fairness, and left to TLC.)
THEOREM ListImplementsSeqList ==
    ASSUME Clobber = {}
    PROVE  Spec => Abs!AInit /\ [][Abs!ANext]_Abs!absVars
<1>1. IInv /\ CursorIsHead /\ [Next]_vars => [Abs!ANext]_Abs!absVars
  BY NextMaps
<1>2. Spec => []CursorIsHead
  BY CursorStaysHead
<1> QED BY <1>1, <1>2, InitMaps, AlwaysIInv, PTL DEF Spec
=============================================================================
