---------------------------- MODULE DriverProofs ----------------------------
(***************************************************************************)
(* What the run of Driver checks on two names, proved for every source and *)
(* for a memory that runs out anywhere.  Driver's counters are bounded by  *)
(* MaxSize and MaxDepth, whatever these are.                               *)
(***************************************************************************)
EXTENDS Driver, SequenceTheorems, NaturalLemmas

Slot == [Name -> 1..MaxSize \cup {NULL}] \cup {NULL}
Held(s) == {j \in DOMAIN s : s[j] # NULL}

\* No insertion into the list and no growth of a map was refused.
NoneRefused == failed \cap {"node", "grow"} = {}

\* An allocated name is in a bucket or lost, never both.
Placed == \A v \in live : v \in lost.names <=> \A j \in DOMAIN scopes : v \notin Ids(scopes[j])

\* The names in the buckets are allocated, each has one bucket, and what is
\* allocated and in no bucket or place of the list is lost.
HeapInv ==
    /\ scopes \in Seq(Slot) /\ live \subseteq 1..size
    /\ OneOwner
    /\ lost \in [maps : Nat, names : SUBSET Nat] /\ lost.names \subseteq live
    /\ Placed
    /\ maps = lost.maps + Cardinality(Held(scopes))
    /\ (\E j \in DOMAIN scopes : scopes[j] = NULL) => "map" \in failed

\* While main runs, the scopes are those of the open blocks.
Mirror == Running /\ NoneRefused =>
    /\ Len(scopes) = Len(blocks) /\ errors = faults
    /\ \A j \in DOMAIN scopes : Names(scopes[j]) = blocks[j]

\* What each phase begins with.
Phases ==
    /\ phase # "check" => errors = 0 /\ faults = 0 /\ size = 0
    /\ phase \in {"open", "environment"} => scopes = <<>> /\ blocks = <<>> /\ maps = 0
    /\ Running /\ phase = "print" => scopes = <<>> /\ blocks = <<>>
    /\ Running /\ phase = "parse" => Len(blocks) = 1
    /\ Running /\ phase = "check" => Len(blocks) >= 1

\* TypeOK less what HeapInv says of the heap.
Counters ==
    /\ phase \in {"open", "environment", "parse", "aborted", "print", "check"}
    /\ status \in {"running", "crash", "failure", "success"} /\ failed \subseteq Kinds
    /\ errors \in 0..size /\ faults \in 0..size /\ size \in 0..MaxSize
    /\ blocks \in Seq(SUBSET Name) /\ extracted \in BOOLEAN

IInv == Counters /\ HeapInv /\ Mirror /\ Phases /\ NothingLeft /\ EndsAsItShould

-----------------------------------------------------------------------------
\* What list_remove and list_insert do to the list, place by place.
LEMMA FreedScopes ==
    ASSUME scopes \in Seq(Slot), NEW k \in Nat, FreeScopes(k)
    PROVE  \E n \in 0..Len(scopes) :
              /\ n = (IF k < Len(scopes) THEN k ELSE Len(scopes))
              /\ scopes' \in Seq(Slot) /\ Len(scopes') = Len(scopes) - n
              /\ DOMAIN scopes' = 1..(Len(scopes) - n)
              /\ \A j \in 1..(Len(scopes) - n) : scopes'[j] = scopes[j + n]
              /\ live' = live \ UNION {Ids(scopes[j]) : j \in 1..n}
              /\ maps' = maps - Cardinality({j \in 1..n : scopes[j] # NULL})
<1> DEFINE n == IF k < Len(scopes) THEN k ELSE Len(scopes)
<1>1. n \in 0..Len(scopes) /\ Len(scopes) \in Nat
  OBVIOUS
<1>2. scopes' = SubSeq(scopes, n + 1, Len(scopes))
  BY DEF FreeScopes
<1>3. \A j \in (n + 1)..Len(scopes) : scopes[j] \in Slot
  BY <1>1
<1>4. /\ scopes' \in Seq(Slot) /\ Len(scopes') = Len(scopes) - n
      /\ \A j \in 1..(Len(scopes) - n) : scopes'[j] = scopes[j + n]
  <2> HIDE DEF n
  <2>1. /\ scopes' \in Seq(Slot)
        /\ Len(scopes') = IF n + 1 <= Len(scopes) THEN Len(scopes) - (n + 1) + 1 ELSE 0
        /\ \A j \in 1..(Len(scopes) - (n + 1) + 1) : scopes'[j] = scopes[(n + 1) + j - 1]
    BY <1>1, <1>2, <1>3, SubSeqProperties
  <2> QED BY <1>1, <2>1
<1>5. DOMAIN scopes' = 1..(Len(scopes) - n)
  BY <1>4
<1> QED BY <1>1, <1>4, <1>5 DEF FreeScopes

LEMMA PushedScopes ==
    ASSUME scopes \in Seq(Slot), NEW scope \in Slot, NEW after, after = <<scope>> \o scopes
    PROVE  /\ after \in Seq(Slot) /\ Len(after) = Len(scopes) + 1
           /\ DOMAIN after = 1..(Len(scopes) + 1) /\ after[1] = scope
           /\ \A j \in 2..(Len(scopes) + 1) : after[j] = scopes[j - 1]
OBVIOUS
-----------------------------------------------------------------------------
\* A new scope has no names, so it owns none.
LEMMA NewScopeIsEmpty ==
    /\ NoScope \in Slot /\ NULL \in Slot /\ NoScope # NULL
    /\ Names(NoScope) = {} /\ Names(NULL) = {}
BY DriverAssumption DEF NoScope, Slot, Names

\* The counts of what is lost.
LEMMA LostCounts ==
    ASSUME lost \in [maps : Nat, names : SUBSET Nat]
    PROVE  /\ lost.maps \in Nat /\ lost.names \subseteq Nat
           /\ \A more, b : more = [lost EXCEPT !.maps = @ + One(b)] =>
                 /\ more \in [maps : Nat, names : SUBSET Nat]
                 /\ more.maps = lost.maps + One(b) /\ more.names = lost.names
           /\ \A more : \A n \in Nat : more = [lost EXCEPT !.names = @ \cup {n}] =>
                 /\ more \in [maps : Nat, names : SUBSET Nat]
                 /\ more.maps = lost.maps /\ more.names = lost.names \cup {n}
BY DEF One

\* Pushing keeps the heap in order, whichever allocation fails.
LEMMA PushHeap ==
    ASSUME HeapInv, PushScope, size' \in Nat, size <= size', size \in Nat
    PROVE  HeapInv'
<1>1. PICK map, node \in BOOLEAN :
         /\ scopes' = IF node THEN <<IF map THEN NoScope ELSE NULL>> \o scopes ELSE scopes
         /\ maps' = maps + One(map)
         /\ failed' = failed \cup (IF map THEN {} ELSE {"map"})
                             \cup (IF node THEN {} ELSE {"node"})
         /\ lost' = [lost EXCEPT !.maps = @ + One(map /\ ~node)]
         /\ live' = live
  BY DEF PushScope
<1> DEFINE scope == IF map THEN NoScope ELSE NULL
<1>2. scope \in Slot /\ Names(scope) = {} /\ (scope = NULL <=> ~map)
  BY NewScopeIsEmpty
<1>3. /\ scopes \in Seq(Slot) /\ DOMAIN scopes = 1..Len(scopes) /\ Len(scopes) \in Nat
      /\ live' \subseteq 1..size'
  BY <1>1 DEF HeapInv
<1>7. /\ lost' \in [maps : Nat, names : SUBSET Nat] /\ lost.maps \in Nat
      /\ lost'.maps = lost.maps + One(map /\ ~node) /\ lost'.names = lost.names
      /\ lost'.names \subseteq live'
  BY <1>1, LostCounts DEF HeapInv
<1>4. IsFiniteSet(Held(scopes)) /\ Held(scopes) \subseteq Int
  <2>1. IsFiniteSet(1..Len(scopes))
    BY <1>3, FS_Interval
  <2> QED BY <1>3, <2>1, FS_Subset DEF Held
<1>5. CASE ~node
  <2>1. scopes' = scopes
    BY <1>1, <1>5
  <2>2. failed \subseteq failed' /\ Placed'
    BY <1>1, <1>7, <2>1 DEF HeapInv, Placed
  <2>3. OneOwner'
    BY <1>1, <2>1 DEF HeapInv, OneOwner, Ids, Names
  <2>4. maps' = lost'.maps + Cardinality(Held(scopes'))
    <3>1. Cardinality(Held(scopes)) \in Nat
      BY <1>4, FS_CardinalityType
    <3>2. One(map /\ ~node) = One(map) /\ One(map) \in Nat
      BY <1>5 DEF One
    <3>3. maps = lost.maps + Cardinality(Held(scopes))
      BY DEF HeapInv
    <3> QED BY <1>1, <1>7, <2>1, <3>1, <3>2, <3>3
  <2> QED BY <1>3, <1>7, <2>1, <2>2, <2>3, <2>4 DEF HeapInv
<1>6. CASE node
  <2>1. scopes' = <<scope>> \o scopes /\ failed' = failed \cup (IF map THEN {} ELSE {"map"})
    BY <1>1, <1>6
  <2>2. /\ scopes' \in Seq(Slot) /\ DOMAIN scopes' = 1..(Len(scopes) + 1)
        /\ scopes'[1] = scope /\ \A j \in 2..(Len(scopes) + 1) : scopes'[j] = scopes[j - 1]
    <3> HIDE DEF scope
    <3> QED BY <1>2, <1>3, <2>1, PushedScopes
  <2> HIDE DEF scope
  <2>3. \A j \in DOMAIN scopes' : Names(scopes'[j]) # {} =>
           j \in 2..(Len(scopes) + 1) /\ j - 1 \in DOMAIN scopes /\ scopes'[j] = scopes[j - 1]
    BY <1>2, <1>3, <2>2
  <2>4. OneOwner'
    <3>1. ASSUME NEW j \in DOMAIN scopes' PROVE Ids(scopes'[j]) \subseteq live'
      <4>1. CASE Names(scopes'[j]) = {}
        BY <4>1 DEF Ids
      <4>2. CASE Names(scopes'[j]) # {}
        <5>1. scopes'[j] \in Range(scopes)
          BY <2>3, <4>2 DEF Range
        <5> QED BY <1>1, <5>1 DEF HeapInv, OneOwner
      <4> QED BY <4>1, <4>2
    <3>2. ASSUME NEW j \in DOMAIN scopes', NEW m \in DOMAIN scopes',
                 NEW x \in Names(scopes'[j]), NEW y \in Names(scopes'[m]),
                 scopes'[j][x] = scopes'[m][y]
          PROVE  j = m /\ x = y
      <4>1. /\ j \in 2..(Len(scopes) + 1) /\ j - 1 \in DOMAIN scopes /\ scopes'[j] = scopes[j - 1]
            /\ m \in 2..(Len(scopes) + 1) /\ m - 1 \in DOMAIN scopes /\ scopes'[m] = scopes[m - 1]
        BY <2>3
      <4>2. j - 1 = m - 1 /\ x = y
        BY <3>2, <4>1 DEF HeapInv, OneOwner
      <4> QED BY <1>3, <4>1, <4>2
    <3> QED BY <3>1, <3>2 DEF OneOwner, Range, Ids, Names
  <2>5. Placed'
    <3> SUFFICES ASSUME NEW v \in live
                 PROVE  (\E j \in DOMAIN scopes : v \in Ids(scopes[j])) <=>
                        (\E j \in DOMAIN scopes' : v \in Ids(scopes'[j]))
      BY <1>1, <1>7 DEF HeapInv, Placed
    <3>1. ASSUME NEW j \in DOMAIN scopes, v \in Ids(scopes[j])
          PROVE  \E i \in DOMAIN scopes' : v \in Ids(scopes'[i])
      <4>1. j + 1 \in DOMAIN scopes' /\ scopes'[j + 1] = scopes[j]
        BY <1>3, <2>2
      <4> QED BY <3>1, <4>1
    <3>2. ASSUME NEW j \in DOMAIN scopes', v \in Ids(scopes'[j])
          PROVE  \E i \in DOMAIN scopes : v \in Ids(scopes[i])
      BY <2>3, <3>2 DEF Ids
    <3> QED BY <3>1, <3>2
  <2>6. /\ IsFiniteSet(Held(scopes'))
        /\ Cardinality(Held(scopes')) = Cardinality(Held(scopes)) + One(map)
    <3> DEFINE up == {j + 1 : j \in Held(scopes)}
    <3>1. IsFiniteSet(up) /\ Cardinality(up) = Cardinality(Held(scopes))
      <4>1. up \in SUBSET Int /\ \A j \in Held(scopes) : j + 1 \in up
        BY <1>4
      <4>2. \A t \in up : t - 1 \in Held(scopes)
        BY <1>4
      <4> HIDE DEF up
      <4> QED BY <1>4, <4>1, <4>2, ShiftedSize
    <3>2. Held(scopes') = IF map THEN up \cup {1} ELSE up
      <4>1. ASSUME NEW j \in Held(scopes') PROVE j \in (IF map THEN up \cup {1} ELSE up)
        <5>1. CASE j = 1
          BY <1>2, <2>2, <4>1, <5>1 DEF Held
        <5>2. CASE j # 1
          <6>1. j \in 2..(Len(scopes) + 1) /\ scopes'[j] = scopes[j - 1] /\ scopes'[j] # NULL
            BY <1>3, <2>2, <4>1, <5>2 DEF Held
          <6>2. j - 1 \in Held(scopes) /\ j = (j - 1) + 1
            BY <1>3, <6>1 DEF Held
          <6> QED BY <6>2
        <5> QED BY <5>1, <5>2
      <4>2. ASSUME NEW j \in Held(scopes) PROVE j + 1 \in Held(scopes')
        BY <1>3, <2>2, <4>2 DEF Held
      <4>3. map => 1 \in Held(scopes')
        BY <1>2, <1>3, <2>2 DEF Held
      <4> QED BY <4>1, <4>2, <4>3
    <3>3. 1 \notin up
      BY <1>3 DEF Held
    <3> HIDE DEF up
    <3>4. IsFiniteSet(up \cup {1}) /\ Cardinality(up \cup {1}) = Cardinality(up) + 1
      BY <3>1, <3>3, FS_AddElement
    <3>5. CASE map
      BY <3>1, <3>2, <3>4, <3>5 DEF One
    <3>6. CASE ~map
      <4>1. Cardinality(Held(scopes)) \in Nat
        BY <1>4, FS_CardinalityType
      <4> QED BY <3>1, <3>2, <3>6, <4>1 DEF One
    <3> QED BY <3>5, <3>6
  <2>7. maps' = lost'.maps + Cardinality(Held(scopes'))
    <3>1. Cardinality(Held(scopes)) \in Nat /\ maps = lost.maps + Cardinality(Held(scopes))
      BY <1>4, FS_CardinalityType DEF HeapInv
    <3>2. lost'.maps = lost.maps + 0 /\ One(map) \in Nat
      BY <1>6, <1>7 DEF One
    <3> QED BY <1>1, <1>7, <2>6, <3>1, <3>2
  <2>8. (\E j \in DOMAIN scopes' : scopes'[j] = NULL) => "map" \in failed'
    <3> SUFFICES ASSUME NEW j \in DOMAIN scopes', scopes'[j] = NULL PROVE "map" \in failed'
      OBVIOUS
    <3>1. CASE j = 1
      BY <1>2, <2>1, <2>2, <3>1
    <3>2. CASE j # 1
      BY <1>3, <2>1, <2>2, <3>2 DEF HeapInv
    <3> QED BY <3>1, <3>2
  <2> QED BY <1>3, <1>7, <2>2, <2>4, <2>5, <2>7, <2>8 DEF HeapInv
<1> QED BY <1>5, <1>6

\* list_remove takes with a scope its map and the names that only it has.
LEMMA FreeHeap ==
    ASSUME HeapInv, NEW k \in Nat, FreeScopes(k), failed' = failed, lost' = lost,
           size' = size
    PROVE  HeapInv'
<1>1. PICK n \in 0..Len(scopes) :
              /\ scopes' \in Seq(Slot) /\ DOMAIN scopes' = 1..(Len(scopes) - n)
              /\ \A j \in 1..(Len(scopes) - n) : scopes'[j] = scopes[j + n]
              /\ live' = live \ UNION {Ids(scopes[j]) : j \in 1..n}
              /\ maps' = maps - Cardinality({j \in 1..n : scopes[j] # NULL})
  BY FreedScopes DEF HeapInv
<1>2. /\ DOMAIN scopes = 1..Len(scopes) /\ Len(scopes) \in Nat /\ n \in Nat
      /\ lost.maps \in Nat
  BY LostCounts DEF HeapInv
<1>3. \A j \in DOMAIN scopes' : j + n \in DOMAIN scopes /\ scopes'[j] = scopes[j + n]
  BY <1>1, <1>2
<1>4. OneOwner'
  <2>1. ASSUME NEW j \in DOMAIN scopes' PROVE Ids(scopes'[j]) \subseteq live'
    <3>1. Ids(scopes'[j]) \subseteq live
      BY <1>3 DEF HeapInv, OneOwner, Range
    <3>2. ASSUME NEW i \in 1..n PROVE Ids(scopes'[j]) \cap Ids(scopes[i]) = {}
      <4>1. i \in DOMAIN scopes /\ i # j + n
        BY <1>1, <1>2
      <4> QED BY <1>3, <4>1 DEF HeapInv, OneOwner, Ids
    <3> QED BY <1>1, <3>1, <3>2
  <2>2. ASSUME NEW j \in DOMAIN scopes', NEW m \in DOMAIN scopes',
               NEW x \in Names(scopes'[j]), NEW y \in Names(scopes'[m]),
               scopes'[j][x] = scopes'[m][y]
        PROVE  j = m /\ x = y
    <3>1. j + n = m + n /\ x = y
      BY <1>3, <2>2 DEF HeapInv, OneOwner
    <3> QED BY <1>1, <1>2, <3>1
  <2> QED BY <2>1, <2>2 DEF OneOwner, Range, Ids, Names
<1>5. Placed' /\ lost.names \subseteq live'
  <2>1. ASSUME NEW v \in live'
        PROVE  (\E j \in DOMAIN scopes : v \in Ids(scopes[j])) <=>
               (\E j \in DOMAIN scopes' : v \in Ids(scopes'[j]))
    <3>1. ASSUME NEW j \in DOMAIN scopes, v \in Ids(scopes[j])
          PROVE  \E i \in DOMAIN scopes' : v \in Ids(scopes'[i])
      <4>1. j \notin 1..n
        BY <1>1, <3>1
      <4>2. j - n \in DOMAIN scopes' /\ scopes'[j - n] = scopes[j]
        BY <1>1, <1>2, <4>1
      <4> QED BY <3>1, <4>2
    <3> QED BY <1>3, <3>1
  <2>2. \A i \in 1..n : i \in DOMAIN scopes
    BY <1>1, <1>2
  <2>3. \A v \in live : v \in lost.names => \A i \in 1..n : v \notin Ids(scopes[i])
    BY <2>2 DEF HeapInv, Placed
  <2>4. lost.names \subseteq live'
    BY <1>1, <2>3 DEF HeapInv
  <2>5. live' \subseteq live
    BY <1>1
  <2> QED BY <2>1, <2>4, <2>5 DEF HeapInv, Placed
<1> DEFINE low == {j \in 1..n : scopes[j] # NULL}
<1>6. /\ IsFiniteSet(Held(scopes)) /\ low \subseteq Held(scopes) /\ IsFiniteSet(low)
      /\ Held(scopes) \subseteq Int
  <2>1. IsFiniteSet(1..Len(scopes)) /\ IsFiniteSet(1..n)
    BY <1>2, FS_Interval
  <2> QED BY <1>2, <2>1, FS_Subset DEF Held
<1>7. Cardinality(Held(scopes')) = Cardinality(Held(scopes)) - Cardinality(low)
  <2> DEFINE high == Held(scopes) \ low
  <2>1. IsFiniteSet(high) /\ Cardinality(high) = Cardinality(Held(scopes)) - Cardinality(low)
    <3>1. Held(scopes) \cap low = low
      BY <1>6
    <3> HIDE DEF low
    <3> QED BY <1>6, <3>1, FS_Difference
  <2>2. ASSUME NEW j \in high PROVE j + (-n) \in Held(scopes')
    <3>1. j \in (n + 1)..Len(scopes) /\ scopes[j] # NULL
      BY <1>2 DEF Held
    <3>2. j - n \in DOMAIN scopes' /\ scopes'[j - n] = scopes[j] /\ j + (-n) = j - n
      BY <1>1, <1>2, <3>1
    <3> QED BY <3>1, <3>2 DEF Held
  <2>3. ASSUME NEW j \in Held(scopes') PROVE j - (-n) \in high
    <3>1. j \in 1..(Len(scopes) - n) /\ scopes'[j] # NULL /\ scopes'[j] = scopes[j + n]
      BY <1>1 DEF Held
    <3>2. j + n \in DOMAIN scopes /\ j + n \notin 1..n /\ j - (-n) = j + n
      BY <1>2, <3>1
    <3> QED BY <3>1, <3>2 DEF Held
  <2>4. high \in SUBSET Int /\ Held(scopes') \in SUBSET Int /\ -n \in Int
    BY <1>1, <1>6 DEF Held
  <2>5. Cardinality(Held(scopes')) = Cardinality(high)
    <3> HIDE DEF high
    <3> QED BY <2>1, <2>2, <2>3, <2>4, ShiftedSize
  <2> QED BY <2>1, <2>5
<1>8. Cardinality(Held(scopes)) \in Nat /\ Cardinality(low) \in Nat
      /\ Cardinality(low) <= Cardinality(Held(scopes))
  <2> HIDE DEF low
  <2> QED BY <1>6, FS_CardinalityType, FS_Subset
<1>9. maps' = lost.maps + Cardinality(Held(scopes'))
  <2>1. maps' = maps - Cardinality(low)
    BY <1>1
  <2> HIDE DEF low
  <2> QED BY <1>2, <1>7, <1>8, <2>1 DEF HeapInv
<1>10. (\E j \in DOMAIN scopes' : scopes'[j] = NULL) => "map" \in failed'
  BY <1>3 DEF HeapInv
<1>11. live' \subseteq 1..size'
  BY <1>1 DEF HeapInv
<1> QED BY <1>1, <1>4, <1>5, <1>9, <1>10, <1>11 DEF HeapInv

\* malloc gives an address that is not in use.
LEMMA FreshIsFree ==
    ASSUME size \in Nat, size < MaxSize, live \subseteq 1..size
    PROVE  Fresh \in 1..(size + 1) /\ Fresh \in 1..MaxSize /\ Fresh \notin live /\ Fresh # NULL
<1> DEFINE free == {n \in 1..MaxSize : n \notin live}
<1>1. size + 1 \in free /\ free \in SUBSET Nat /\ MaxSize \in Nat
  BY DriverAssumption
<1>2. PICK n \in free : \A m \in free : n <= m
  <2> HIDE DEF free
  <2> QED BY <1>1, LeastNatural
<1>3. 1..(n - 1) \subseteq live
  <2> SUFFICES ASSUME NEW m \in 1..(n - 1) PROVE m \in live
    OBVIOUS
  <2>1. m \in 1..MaxSize /\ ~(n <= m)
    BY <1>1
  <2> QED BY <1>2, <2>1
<1>4. /\ Fresh \in 1..MaxSize /\ Fresh \notin live /\ 1..(Fresh - 1) \subseteq live
  BY <1>2, <1>3 DEF Fresh
<1>5. Fresh <= size + 1
  <2>1. ASSUME Fresh > size + 1 PROVE FALSE
    <3>1. size + 1 \in 1..(Fresh - 1)
      BY <1>4, <2>1
    <3> QED BY <1>1, <1>4, <3>1
  <2> QED BY <1>4, <2>1
<1> QED BY <1>4, <1>5, DriverAssumption

\* The list after a symbol of a new name was stored in its first map.
LEMMA StoredScopes ==
    ASSUME scopes \in Seq(Slot), scopes # <<>>, Head(scopes) # NULL, NEW x \in Name,
           NEW n \in 1..MaxSize,
           scopes' = [scopes EXCEPT ![1] = [@ EXCEPT ![x] = n]]
    PROVE  /\ scopes' \in Seq(Slot) /\ DOMAIN scopes' = DOMAIN scopes
           /\ Len(scopes') = Len(scopes) /\ 1 \in DOMAIN scopes
           /\ scopes'[1] # NULL /\ Names(scopes'[1]) = Names(scopes[1]) \cup {x}
           /\ scopes'[1][x] = n /\ \A y \in Name \ {x} : scopes'[1][y] = scopes[1][y]
           /\ \A j \in DOMAIN scopes \ {1} : scopes'[j] = scopes[j]
<1>1. 1 \in DOMAIN scopes /\ scopes[1] # NULL
  OBVIOUS
<1>2. scopes[1] \in [Name -> 1..MaxSize \cup {NULL}]
  BY <1>1 DEF Slot
<1> DEFINE new == [scopes[1] EXCEPT ![x] = n]
<1>3. /\ new \in [Name -> 1..MaxSize \cup {NULL}] /\ new[x] = n
      /\ \A y \in Name \ {x} : new[y] = scopes[1][y]
  BY <1>2
<1>4. new \in Slot /\ new # NULL
  BY <1>3, DriverAssumption DEF Slot
<1>5. scopes' = [scopes EXCEPT ![1] = new]
  OBVIOUS
<1> HIDE DEF new
<1>6. /\ scopes' \in Seq(Slot) /\ Len(scopes') = Len(scopes) /\ scopes'[1] = new
      /\ \A j \in DOMAIN scopes \ {1} : scopes'[j] = scopes[j]
  BY <1>1, <1>4, <1>5
<1>7. Names(new) = Names(scopes[1]) \cup {x}
  BY <1>1, <1>2, <1>3, <1>4, DriverAssumption DEF Names
<1> QED BY <1>1, <1>3, <1>4, <1>6, <1>7

\* A symbol that is stored brings a copy of its name that no bucket has.
LEMMA StoreHeap ==
    ASSUME HeapInv, size \in Nat, size < MaxSize, size' = size + 1,
           scopes # <<>>, Head(scopes) # NULL, NEW x \in Name, x \notin Names(Head(scopes)),
           live' = live \cup {Fresh}, maps' = maps, failed' = failed, lost' = lost,
           scopes' = [scopes EXCEPT ![1] = [@ EXCEPT ![x] = Fresh]]
    PROVE  HeapInv'
<1>1. scopes \in Seq(Slot) /\ live \subseteq 1..size /\ DOMAIN scopes = 1..Len(scopes)
  BY DEF HeapInv
<1>2. Fresh \in 1..(size + 1) /\ Fresh \in 1..MaxSize /\ Fresh \notin live
  BY <1>1, FreshIsFree
<1> DEFINE id == Fresh
<1>3. /\ scopes' \in Seq(Slot) /\ DOMAIN scopes' = DOMAIN scopes /\ 1 \in DOMAIN scopes
      /\ scopes'[1] # NULL /\ Names(scopes'[1]) = Names(scopes[1]) \cup {x}
      /\ scopes'[1][x] = id /\ \A y \in Name \ {x} : scopes'[1][y] = scopes[1][y]
      /\ \A j \in DOMAIN scopes \ {1} : scopes'[j] = scopes[j]
  BY <1>1, <1>2, StoredScopes
<1> HIDE DEF id
<1>4. scopes[1] # NULL /\ x \notin Names(scopes[1]) /\ live' = live \cup {id} /\ id \notin live
      /\ live' \subseteq 1..size'
  BY <1>1, <1>2 DEF id
\* Every bucket is an old one or the new one.
<1>5. ASSUME NEW j \in DOMAIN scopes', NEW y \in Names(scopes'[j])
      PROVE  \/ j = 1 /\ y = x /\ scopes'[j][y] = id
             \/ /\ j # 1 \/ y # x
                /\ y \in Names(scopes[j]) /\ scopes'[j][y] = scopes[j][y]
                /\ scopes[j][y] \in live
  <2>1. \A s \in Range(scopes) : Ids(s) \subseteq live
    BY DEF HeapInv, OneOwner
  <2>2. y \in Names(scopes[j]) => scopes[j][y] \in live
    BY <1>3, <2>1 DEF Range, Ids
  <2>3. y \in Name
    BY DEF Names
  <2> QED BY <1>3, <1>4, <2>2, <2>3
<1>6. OneOwner'
  <2>1. ASSUME NEW j \in DOMAIN scopes' PROVE Ids(scopes'[j]) \subseteq live'
    BY <1>4, <1>5 DEF Ids
  <2>2. ASSUME NEW j \in DOMAIN scopes', NEW m \in DOMAIN scopes',
               NEW y \in Names(scopes'[j]), NEW z \in Names(scopes'[m]),
               scopes'[j][y] = scopes'[m][z]
        PROVE  j = m /\ y = z
    <3>1. CASE j = 1 /\ y = x
      BY <1>4, <1>5, <2>2, <3>1
    <3>2. CASE m = 1 /\ z = x
      BY <1>4, <1>5, <2>2, <3>2
    <3>3. CASE ~(j = 1 /\ y = x) /\ ~(m = 1 /\ z = x)
      <4>1. /\ y \in Names(scopes[j]) /\ z \in Names(scopes[m])
            /\ scopes[j][y] = scopes[m][z]
        BY <1>5, <2>2, <3>3
      <4> QED BY <1>3, <4>1 DEF HeapInv, OneOwner
    <3> QED BY <3>1, <3>2, <3>3
  <2> QED BY <2>1, <2>2 DEF OneOwner, Range
<1>7. Placed'
  <2>0. lost.names \subseteq live
    BY DEF HeapInv
  <2>1. id \notin lost'.names /\ id \in Ids(scopes'[1])
    BY <1>3, <1>4, <2>0 DEF Ids
  <2>2. ASSUME NEW v \in live
        PROVE  (\E j \in DOMAIN scopes : v \in Ids(scopes[j])) <=>
               (\E j \in DOMAIN scopes' : v \in Ids(scopes'[j]))
    <3>1. ASSUME NEW j \in DOMAIN scopes, NEW y \in Names(scopes[j])
          PROVE  y \in Names(scopes'[j]) /\ scopes'[j][y] = scopes[j][y]
      <4>1. y \in Name
        BY DEF Names
      <4> QED BY <1>3, <1>4, <4>1
    <3>2. ASSUME NEW j \in DOMAIN scopes', v \in Ids(scopes'[j]) PROVE v \in Ids(scopes[j])
      BY <1>4, <1>5, <3>2 DEF Ids
    <3> QED BY <1>3, <3>1, <3>2 DEF Ids
  <2>3. \A v \in live : v \in lost'.names <=> \A j \in DOMAIN scopes' : v \notin Ids(scopes'[j])
    BY <2>2 DEF HeapInv, Placed
  <2> QED BY <1>3, <1>4, <2>1, <2>3 DEF Placed
<1>8. Held(scopes') = Held(scopes)
  BY <1>3, <1>4 DEF Held
<1>9. (\E j \in DOMAIN scopes' : scopes'[j] = NULL) => "map" \in failed'
  BY <1>3 DEF HeapInv
<1>10. lost'.names \subseteq live'
  BY DEF HeapInv
<1> QED BY <1>3, <1>4, <1>6, <1>7, <1>8, <1>9, <1>10 DEF HeapInv

\* A step that leaves the heap alone, and one that loses a copy of a name.
LEMMA SameHeap ==
    ASSUME HeapInv, UNCHANGED heap, lost' = lost, failed \subseteq failed',
           size \in Nat, size' \in Nat, size <= size'
    PROVE  HeapInv'
<1>1. UNCHANGED <<scopes, live, maps>>
  BY DEF heap
<1>2. OneOwner' /\ Placed'
  BY <1>1 DEF HeapInv, OneOwner, Placed
<1> QED BY <1>1, <1>2 DEF HeapInv

LEMMA LeakHeap ==
    ASSUME HeapInv, scopes' = scopes, maps' = maps, live' = live \cup {Fresh},
           lost' = [lost EXCEPT !.names = @ \cup {Fresh}],
           failed \subseteq failed', size \in Nat, size < MaxSize, size' = size + 1
    PROVE  HeapInv'
<1>1. live \subseteq 1..size /\ lost.names \subseteq live
  BY DEF HeapInv
<1>2. Fresh \in 1..(size + 1) /\ Fresh \notin live
  BY <1>1, FreshIsFree
<1>3. live' \subseteq 1..size'
  BY <1>1, <1>2
<1>4. /\ lost' \in [maps : Nat, names : SUBSET Nat]
      /\ lost'.maps = lost.maps /\ lost'.names = lost.names \cup {Fresh}
  BY <1>2, LostCounts DEF HeapInv
<1>5. OneOwner'
  BY DEF HeapInv, OneOwner
<1>6. Placed'
  <2>1. \A j \in DOMAIN scopes : Fresh \notin Ids(scopes[j])
    <3>1. \A j \in DOMAIN scopes : Ids(scopes[j]) \subseteq live
      BY DEF HeapInv, OneOwner, Range
    <3> QED BY <1>2, <3>1
  <2> QED BY <1>2, <1>4, <2>1 DEF HeapInv, Placed
<1> QED BY <1>1, <1>3, <1>4, <1>5, <1>6 DEF HeapInv
-----------------------------------------------------------------------------
\* Blocks and scopes come together.
LEMMA PushMirror ==
    ASSUME HeapInv, Mirror, Running, PushScope, blocks \in Seq(SUBSET Name),
           errors' = errors, faults' = faults
    PROVE  Mirror' /\ blocks' \in Seq(SUBSET Name) /\ Len(blocks') = Len(blocks) + 1
<1>1. /\ blocks' \in Seq(SUBSET Name) /\ Len(blocks') = Len(blocks) + 1 /\ blocks'[1] = {}
      /\ \A j \in 2..(Len(blocks) + 1) : blocks'[j] = blocks[j - 1]
  BY DEF PushScope
<1>2. ASSUME NoneRefused' PROVE /\ Len(scopes') = Len(blocks')
                                /\ \A j \in DOMAIN scopes' : Names(scopes'[j]) = blocks'[j]
  <2>1. PICK map, node \in BOOLEAN :
           /\ scopes' = IF node THEN <<IF map THEN NoScope ELSE NULL>> \o scopes ELSE scopes
           /\ failed' = failed \cup (IF map THEN {} ELSE {"map"})
                               \cup (IF node THEN {} ELSE {"node"})
    BY DEF PushScope
  <2> DEFINE scope == IF map THEN NoScope ELSE NULL
  <2>2. node /\ NoneRefused
    BY <1>2, <2>1 DEF NoneRefused
  <2>3. scopes' = <<scope>> \o scopes /\ scope \in Slot /\ Names(scope) = {}
    BY <2>1, <2>2, NewScopeIsEmpty
  <2>4. /\ scopes \in Seq(Slot) /\ Len(scopes) = Len(blocks) /\ Len(scopes) \in Nat
        /\ \A j \in DOMAIN scopes : Names(scopes[j]) = blocks[j]
    BY <2>2 DEF HeapInv, Mirror
  <2> HIDE DEF scope
  <2>5. /\ Len(scopes') = Len(scopes) + 1 /\ DOMAIN scopes' = 1..(Len(scopes) + 1)
        /\ scopes'[1] = scope /\ \A j \in 2..(Len(scopes) + 1) : scopes'[j] = scopes[j - 1]
    BY <2>3, <2>4, PushedScopes
  <2>6. ASSUME NEW j \in 2..(Len(scopes) + 1) PROVE Names(scopes'[j]) = blocks'[j]
    <3>1. j - 1 \in DOMAIN scopes
      BY <2>4
    <3> QED BY <1>1, <2>4, <2>5, <3>1
  <2>7. ASSUME NEW j \in DOMAIN scopes' PROVE Names(scopes'[j]) = blocks'[j]
    <3>1. CASE j = 1
      BY <1>1, <2>3, <2>5, <3>1
    <3>2. CASE j # 1
      BY <2>4, <2>5, <2>6, <3>2
    <3> QED BY <3>1, <3>2
  <2>8. Len(scopes') = Len(blocks')
    BY <1>1, <2>4, <2>5
  <2> QED BY <2>7, <2>8
<1>3. NoneRefused' => NoneRefused
  BY DEF PushScope, NoneRefused
<1> QED BY <1>1, <1>2, <1>3 DEF Mirror

LEMMA PopMirror ==
    ASSUME HeapInv, Mirror, Running, PopScope, blocks \in Seq(SUBSET Name), Len(blocks) > 1,
           errors' = errors, faults' = faults, failed' = failed
    PROVE  Mirror' /\ blocks' \in Seq(SUBSET Name) /\ Len(blocks') = Len(blocks) - 1
<1>1. /\ blocks' \in Seq(SUBSET Name) /\ Len(blocks') = Len(blocks) - 1
      /\ \A j \in 1..(Len(blocks) - 1) : blocks'[j] = blocks[j + 1]
  BY DEF PopScope
<1>2. ASSUME NoneRefused PROVE /\ Len(scopes') = Len(blocks')
                               /\ \A j \in DOMAIN scopes' : Names(scopes'[j]) = blocks'[j]
  <2>1. /\ scopes \in Seq(Slot) /\ Len(scopes) = Len(blocks) /\ Len(scopes) \in Nat
        /\ \A j \in DOMAIN scopes : Names(scopes[j]) = blocks[j]
    BY <1>2 DEF HeapInv, Mirror
  <2>2. PICK n \in 0..Len(scopes) :
                /\ n = (IF 1 < Len(scopes) THEN 1 ELSE Len(scopes))
                /\ Len(scopes') = Len(scopes) - n
                /\ DOMAIN scopes' = 1..(Len(scopes) - n)
                /\ \A j \in 1..(Len(scopes) - n) : scopes'[j] = scopes[j + n]
    BY <2>1, FreedScopes DEF PopScope
  <2>3. n = 1
    BY <2>1, <2>2
  <2>4. ASSUME NEW j \in 1..(Len(scopes) - 1) PROVE Names(scopes'[j]) = blocks'[j]
    BY <1>1, <2>1, <2>2, <2>3
  <2> QED BY <1>1, <2>1, <2>2, <2>3, <2>4
<1> QED BY <1>1, <1>2 DEF Mirror, NoneRefused

\* The last scope takes everything with it that something points to.
LEMMA FreeAll ==
    ASSUME HeapInv, FreeEnv
    PROVE  scopes' = <<>> /\ blocks' = <<>> /\ live' = lost.names /\ maps' = lost.maps
<1>1. Len(scopes) \in Nat /\ scopes \in Seq(Slot) /\ DOMAIN scopes = 1..Len(scopes)
  BY DEF HeapInv
<1>2. PICK n \in 0..Len(scopes) :
              /\ n = (IF Len(scopes) < Len(scopes) THEN Len(scopes) ELSE Len(scopes))
              /\ scopes' \in Seq(Slot) /\ Len(scopes') = Len(scopes) - n
              /\ live' = live \ UNION {Ids(scopes[j]) : j \in 1..n}
              /\ maps' = maps - Cardinality({j \in 1..n : scopes[j] # NULL})
  BY <1>1, FreedScopes DEF FreeEnv
<1>3. n = Len(scopes)
  BY <1>2
<1>4. scopes' = <<>>
  BY <1>1, <1>2, <1>3
<1>5. live' = lost.names
  <2>1. \A v \in live : v \in lost.names <=> \A j \in 1..n : v \notin Ids(scopes[j])
    BY <1>1, <1>3 DEF HeapInv, Placed
  <2>2. \A v : v \in live' <=> v \in live /\ \A j \in 1..n : v \notin Ids(scopes[j])
    BY <1>2
  <2>3. lost.names \subseteq live
    BY DEF HeapInv
  <2>4. \A v : v \in live' <=> v \in lost.names
    BY <2>1, <2>2, <2>3
  <2> QED BY <2>4
<1>6. maps' = lost.maps
  <2>1. IsFiniteSet(Held(scopes)) /\ Cardinality(Held(scopes)) \in Nat
    <3>1. IsFiniteSet(1..Len(scopes))
      BY <1>1, FS_Interval
    <3>2. IsFiniteSet(Held(scopes))
      BY <1>1, <3>1, FS_Subset DEF Held
    <3> QED BY <3>2, FS_CardinalityType
  <2>2. maps = lost.maps + Cardinality(Held(scopes)) /\ lost.maps \in Nat
    BY LostCounts DEF HeapInv
  <2>3. {j \in 1..n : scopes[j] # NULL} = Held(scopes)
    BY <1>1, <1>3 DEF Held
  <2>4. maps' = maps - Cardinality(Held(scopes))
    BY <1>2, <2>3
  <2> QED BY <2>1, <2>2, <2>4
<1> QED BY <1>4, <1>5, <1>6 DEF FreeEnv
-----------------------------------------------------------------------------
LEMMA InitIInv == Init => IInv
<1> SUFFICES ASSUME Init PROVE IInv
  OBVIOUS
<1>1. Held(scopes) = {} /\ Cardinality(Held(scopes)) = 0 /\ OneOwner
  BY FS_EmptySet DEF Init, Held, OneOwner, Range
<1>2. HeapInv
  <2>1. /\ lost = [maps |-> 0, names |-> {}] /\ scopes = <<>> /\ live = {} /\ maps = 0
        /\ size = 0
    BY DEF Init
  <2>2. lost \in [maps : Nat, names : SUBSET Nat] /\ lost.names = {} /\ lost.maps = 0
    BY <2>1
  <2> QED BY <1>1, <2>1, <2>2 DEF HeapInv, Placed
<1>3. extracted \in BOOLEAN
  BY DEF Init
<1> QED
  BY <1>2, <1>3, DriverAssumption DEF Init, IInv, Counters, Kinds, Mirror, Phases, NothingLeft,
     EndsAsItShould, Running

\* A step that crashes, with a failed allocation or at a function.
LEMMA CrashIInv ==
    ASSUME IInv, status' = "crash", failed' \in SUBSET Kinds, extracted' \in BOOLEAN,
           failed' \ {"node", "grow"} # {} \/ extracted', HeapInv', phase # "aborted", blocks' \in Seq(SUBSET Name),
           phase' = phase, size' \in 0..MaxSize, errors' \in 0..size', faults' \in 0..size',
           \/ phase = "check"
           \/ UNCHANGED <<errors, faults, size, blocks>> /\ heap' = heap
    PROVE  IInv'
<1>1. Counters'
  BY DEF IInv, Counters
<1>2. Phases'
  BY DEF IInv, Phases, Running, heap
<1>3. Mirror' /\ NothingLeft' /\ EndsAsItShould'
  BY DEF Mirror, NothingLeft, EndsAsItShould, Running
<1> QED BY <1>1, <1>2, <1>3 DEF IInv

LEMMA OpenIInv == IInv /\ Open => IInv'
<1> SUFFICES ASSUME IInv, Open PROVE IInv'
  OBVIOUS
<1>1. /\ UNCHANGED <<errors, scopes, live, maps, failed, lost, extracted, blocks, faults, size>>
      /\ heap' = heap /\ Running /\ phase = "open"
      /\ \/ phase' = "environment" /\ status' = "running"
         \/ phase' = "open" /\ status' = "failure"
  BY DEF Open, heap, history, refused, Running
<1>2. HeapInv'
  BY <1>1, SameHeap DEF IInv, Counters
<1>3. Counters'
  BY <1>1 DEF IInv, Counters
<1>4. Mirror'
  BY <1>1 DEF IInv, Mirror, Running, NoneRefused
<1>5. Phases' /\ NothingLeft' /\ EndsAsItShould'
  BY <1>1 DEF IInv, Phases, NothingLeft, EndsAsItShould, Running
<1> QED BY <1>2, <1>3, <1>4, <1>5 DEF IInv

\* Both environments are made with nothing in the list.
LEMMA EnvNewIInv ==
    ASSUME IInv, Running, NEW next, EnvNew(next),
           <<phase, next>> \in {<<"environment", "parse">>, <<"print", "check">>}
    PROVE  IInv'
<1>1. /\ scopes = <<>> /\ blocks = <<>> /\ errors = 0 /\ faults = 0 /\ size = 0
      /\ phase \in {"environment", "print"}
  BY DEF IInv, Phases
<1>2. CASE phase' = next /\ PushScope /\ UNCHANGED <<status, errors, faults, size>>
  <2>1. HeapInv'
    BY <1>1, <1>2, PushHeap DEF IInv
  <2>2. Mirror' /\ blocks' \in Seq(SUBSET Name) /\ Len(blocks') = 1
    BY <1>1, <1>2, PushMirror DEF IInv, Counters
  <2>3. failed' \subseteq Kinds /\ extracted' \in BOOLEAN
    BY <1>2 DEF PushScope, Kinds, IInv, Counters
  <2>4. Counters' /\ Phases' /\ NothingLeft' /\ EndsAsItShould'
    BY <1>1, <1>2, <2>2, <2>3 DEF IInv, Counters, Phases, NothingLeft, EndsAsItShould, Running
  <2> QED BY <2>1, <2>2, <2>4 DEF IInv
<1>3. CASE Crash({"env"}) /\ UNCHANGED <<phase, errors, heap, blocks, faults, size>>
  <2>1. /\ failed' = failed \cup {"env"} /\ failed' \in SUBSET Kinds /\ status' = "crash"
        /\ failed' \ {"node", "grow"} # {} /\ lost' = lost /\ extracted' \in BOOLEAN
    BY <1>3 DEF Crash, Kinds, IInv, Counters
  <2>2. HeapInv'
    BY <1>3, <2>1, SameHeap DEF IInv, Counters
  <2>3. errors' \in 0..size' /\ faults' \in 0..size' /\ size' \in 0..MaxSize
        /\ blocks' \in Seq(SUBSET Name)
    BY <1>3 DEF IInv, Counters
  <2>4. phase' = phase /\ UNCHANGED <<errors, faults, size, blocks>> /\ heap' = heap
    BY <1>3
  <2> QED BY <1>1, <2>1, <2>2, <2>3, <2>4, CrashIInv
<1> QED BY <1>2, <1>3 DEF EnvNew

LEMMA MakeEnvIInv == IInv /\ MakeEnv => IInv'
<1> SUFFICES ASSUME IInv, MakeEnv PROVE IInv'
  OBVIOUS
<1>1. Running /\ EnvNew("parse") /\ phase = "environment"
  BY DEF MakeEnv
<1> QED BY <1>1, EnvNewIInv

LEMMA BeginCheckIInv == IInv /\ BeginCheck => IInv'
BY EnvNewIInv DEF BeginCheck

LEMMA ParseIInv == IInv /\ Parse => IInv'
<1> SUFFICES ASSUME IInv, Parse PROVE IInv'
  OBVIOUS
<1>1. /\ Running /\ phase = "parse"
      /\ UNCHANGED <<errors, failed, lost, extracted, faults, size>>
      /\ errors = 0 /\ faults = 0 /\ size = 0
  BY DEF Parse, refused, IInv, Phases
<1>2. CASE /\ FreeEnv
           /\ \/ phase' = "print" /\ status' = status
              \/ phase' = "aborted" /\ status' = "failure"
  <2>1. HeapInv'
    <3>1. Len(scopes) \in Nat
      BY DEF IInv, HeapInv
    <3> QED BY <1>1, <1>2, <3>1, FreeHeap DEF IInv, FreeEnv
  <2>2. scopes' = <<>> /\ blocks' = <<>> /\ live' = lost.names /\ maps' = lost.maps
    BY <1>2, FreeAll DEF IInv
  <2>3. Counters' /\ Mirror' /\ Phases'
    BY <1>1, <1>2, <2>2 DEF IInv, Counters, Mirror, Phases, Running
  <2>4. NothingLeft' /\ EndsAsItShould'
    BY <1>1, <1>2, <2>2 DEF NothingLeft, EndsAsItShould, Running
  <2> QED BY <2>1, <2>3, <2>4 DEF IInv
<1>3. CASE phase' = phase /\ status' = "failure" /\ heap' = heap /\ blocks' = blocks
  <2>1. HeapInv'
    BY <1>1, <1>3, SameHeap DEF IInv
  <2>2. Counters' /\ Mirror' /\ Phases' /\ NothingLeft' /\ EndsAsItShould'
    BY <1>1, <1>3 DEF IInv, Counters, Mirror, Phases, NothingLeft, EndsAsItShould, Running
  <2> QED BY <2>1, <2>2 DEF IInv
<1> QED BY <1>2, <1>3 DEF Parse

LEMMA EnterBlockIInv == IInv /\ EnterBlock => IInv'
<1> SUFFICES ASSUME IInv, EnterBlock PROVE IInv'
  OBVIOUS
<1>1. /\ Running /\ phase = "check" /\ size' = size + 1 /\ size < MaxSize /\ size \in Nat
      /\ PushScope /\ UNCHANGED <<phase, status, errors, faults>> /\ MaxSize \in Nat
  BY DriverAssumption DEF EnterBlock, Checking, main, IInv, Counters
<1>2. HeapInv'
  BY <1>1, PushHeap DEF IInv
<1>3. Mirror' /\ blocks' \in Seq(SUBSET Name) /\ Len(blocks') = Len(blocks) + 1
  BY <1>1, PushMirror DEF IInv, Counters
<1>4. failed' \subseteq Kinds /\ extracted' \in BOOLEAN
  BY <1>1 DEF PushScope, Kinds, IInv, Counters
<1>5. Counters'
  BY <1>1, <1>3, <1>4 DEF IInv, Counters
<1>6. Phases' /\ NothingLeft' /\ EndsAsItShould'
  BY <1>1, <1>3 DEF IInv, Counters, Phases, NothingLeft, EndsAsItShould, Running
<1> QED BY <1>2, <1>3, <1>5, <1>6 DEF IInv

LEMMA LeaveBlockIInv == IInv /\ LeaveBlock => IInv'
<1> SUFFICES ASSUME IInv, LeaveBlock PROVE IInv'
  OBVIOUS
<1>1. /\ Running /\ phase = "check" /\ Len(blocks) > 1 /\ PopScope
      /\ UNCHANGED <<phase, status, errors, failed, lost, extracted, faults, size>>
  BY DEF LeaveBlock, main, refused
<1>2. HeapInv'
  BY <1>1, FreeHeap DEF IInv, PopScope
<1>3. Mirror' /\ blocks' \in Seq(SUBSET Name) /\ Len(blocks') = Len(blocks) - 1
  BY <1>1, PopMirror DEF IInv, Counters
<1>4. Counters'
  BY <1>1, <1>3 DEF IInv, Counters
<1>5. Phases' /\ NothingLeft' /\ EndsAsItShould'
  BY <1>1, <1>3 DEF IInv, Counters, Phases, NothingLeft, EndsAsItShould, Running
<1> QED BY <1>2, <1>3, <1>4, <1>5 DEF IInv

\* A map that could not be allocated is in the list as NULL.
LEMMA NullMeansFailed ==
    ASSUME HeapInv, NEW j \in DOMAIN scopes, scopes[j] = NULL
    PROVE  failed \ {"node", "grow"} # {}
BY DEF HeapInv

\* A lookup that reports what is wrong.
LEMMA LookupIInv ==
    ASSUME IInv, NEW x \in Name, NEW reports \in BOOLEAN, NEW wrong \in BOOLEAN,
           Lookup(x, reports, wrong), NoneRefused => (reports <=> wrong)
    PROVE  IInv'
<1>1. /\ Running /\ phase = "check" /\ size' = size + 1 /\ size < MaxSize
      /\ phase' = phase /\ heap' = heap /\ blocks' = blocks
      /\ faults' = faults + One(wrong)
      /\ size \in Nat /\ MaxSize \in Nat /\ errors \in 0..size /\ faults \in 0..size
  BY DriverAssumption DEF Lookup, Checking, IInv, Counters
<1>2. UNCHANGED <<scopes, live, maps>>
  BY <1>1 DEF heap
<1>3. faults' \in 0..size' /\ size' \in 0..MaxSize /\ blocks' \in Seq(SUBSET Name)
  BY <1>1 DEF One, IInv, Counters
<1>4. CASE SearchCrashes(x) /\ Crash({}) /\ errors' = errors
  <2>1. HeapInv'
    BY <1>1, <1>3, <1>4, SameHeap DEF IInv, Crash
  <2>2. failed \ {"node", "grow"} # {}
    BY <1>4, NullMeansFailed DEF IInv, SearchCrashes
  <2>3. /\ failed' \in SUBSET Kinds /\ failed' \ {"node", "grow"} # {} /\ status' = "crash"
        /\ extracted' \in BOOLEAN
    BY <1>4, <2>2 DEF IInv, Counters, Crash
  <2>4. errors' \in 0..size'
    BY <1>1, <1>4
  <2> QED BY <1>1, <1>3, <2>1, <2>3, <2>4, CrashIInv
<1>5. CASE errors' = errors + One(reports) /\ UNCHANGED <<status, refused>>
  <2>0. UNCHANGED <<failed, lost, extracted>>
    BY <1>5 DEF refused
  <2>1. HeapInv'
    BY <1>1, <1>3, <2>0, SameHeap DEF IInv
  <2>2. Counters'
    BY <1>1, <1>3, <1>5, <2>0 DEF One, IInv, Counters
  <2>3. Mirror'
    <3>1. NoneRefused => /\ Len(scopes) = Len(blocks) /\ errors = faults
                         /\ \A j \in DOMAIN scopes : Names(scopes[j]) = blocks[j]
      BY <1>1 DEF IInv, Mirror
    <3>2. NoneRefused => errors' = faults'
      BY <1>1, <1>5, <3>1 DEF One
    <3>3. NoneRefused' => NoneRefused
      BY <2>0 DEF NoneRefused
    <3> QED BY <1>1, <1>2, <3>1, <3>2, <3>3 DEF Mirror
  <2>4. Phases' /\ NothingLeft' /\ EndsAsItShould'
    BY <1>1, <1>2, <1>5 DEF IInv, Phases, NothingLeft, EndsAsItShould, Running
  <2> QED BY <2>1, <2>2, <2>3, <2>4 DEF IInv
<1> QED BY <1>4, <1>5 DEF Lookup

LEMMA LeiaIInv == ASSUME IInv, NEW x \in Name, Leia(x) PROVE IInv'
<1> DEFINE reports == Hits(x) = {}
           wrong == \A j \in DOMAIN blocks : x \notin blocks[j]
<1>1. Running
  BY DEF Leia, Lookup, Checking
<1>2. NoneRefused => (reports <=> wrong)
  <2>1. NoneRefused => /\ DOMAIN scopes = DOMAIN blocks
                       /\ \A j \in DOMAIN scopes : Names(scopes[j]) = blocks[j]
    BY <1>1 DEF IInv, Mirror, HeapInv, Counters
  <2> QED BY <2>1 DEF Hits
<1>3. Lookup(x, reports, wrong) /\ reports \in BOOLEAN /\ wrong \in BOOLEAN
  BY DEF Leia
<1> HIDE DEF reports, wrong
<1> QED BY <1>2, <1>3, LookupIInv

LEMMA UseIInv == ASSUME IInv, NEW x \in Name, Use(x) PROVE IInv'
<1>1. PICK mistyped \in BOOLEAN : Lookup(x, mistyped, mistyped)
  BY DEF Use
<1> QED BY <1>1, LookupIInv

\* What register_var does to the heap, and to the first scope.
LEMMA NewSymbolHeap ==
    ASSUME IInv, Running, phase = "check", size' = size + 1, size < MaxSize, NEW x \in Name,
           scopes = <<>> \/ Head(scopes) # NULL, ~DeclaredHere(x), NewSymbol(x)
    PROVE  /\ HeapInv' /\ failed' \subseteq Kinds /\ extracted' = extracted
           /\ \/ status' = "crash" /\ failed' \ {"node", "grow"} # {}
              \/ status' = status /\ ~NoneRefused'
              \/ /\ status' = status /\ failed' = failed
                 /\ scopes # <<>> /\ 1 \in DOMAIN scopes /\ DOMAIN scopes' = DOMAIN scopes
                 /\ Len(scopes') = Len(scopes)
                 /\ Names(scopes'[1]) = Names(scopes[1]) \cup {x}
                 /\ \A j \in DOMAIN scopes \ {1} : scopes'[j] = scopes[j]
<1>1. /\ size \in Nat /\ size' \in Nat /\ size <= size' /\ failed \subseteq Kinds
      /\ scopes \in Seq(Slot) /\ live \subseteq 1..size
  BY DEF IInv, Counters, HeapInv
<1>2. scopes = <<>> => ~NoneRefused
  <2>1. Len(blocks) >= 1
    BY DEF IInv, Phases
  <2>2. NoneRefused => Len(scopes) = Len(blocks)
    BY DEF IInv, Mirror
  <2> QED BY <2>1, <2>2
<1>3. CASE scopes # <<>> /\ (Crash({"symbol"}) \/ Crash({"id"})) /\ UNCHANGED heap
  <2>1. HeapInv'
    BY <1>1, <1>3, SameHeap DEF IInv, Crash
  <2>2. PICK k \in {"symbol", "id"} :
           failed' = failed \cup {k} /\ status' = "crash" /\ extracted' = extracted
    BY <1>3 DEF Crash
  <2> QED BY <1>1, <2>1, <2>2 DEF Kinds
<1>4. CASE /\ scopes = <<>> /\ failed' \in {failed \cup {"symbol"}, failed \cup {"id"}}
           /\ UNCHANGED <<status, heap, lost, extracted>>
  <2>1. HeapInv'
    BY <1>1, <1>4, SameHeap DEF IInv
  <2>2. ~NoneRefused'
    BY <1>2, <1>4 DEF NoneRefused
  <2> QED BY <1>1, <1>4, <2>1, <2>2 DEF Kinds
<1>5. CASE /\ live' = live \cup {Fresh} /\ UNCHANGED <<status, maps>>
           /\ scopes # <<>> /\ UNCHANGED <<failed, lost, extracted>>
           /\ scopes' = [scopes EXCEPT ![1] = [@ EXCEPT ![x] = Fresh]]
  <2>1. x \notin Names(Head(scopes))
    BY <1>5 DEF DeclaredHere
  <2>2. HeapInv'
    BY <1>1, <1>5, <2>1, StoreHeap DEF IInv
  <2>3. Fresh \in 1..MaxSize
    BY <1>1, FreshIsFree
  <2>4. /\ 1 \in DOMAIN scopes /\ DOMAIN scopes' = DOMAIN scopes /\ Len(scopes') = Len(scopes)
        /\ Names(scopes'[1]) = Names(scopes[1]) \cup {x}
        /\ \A j \in DOMAIN scopes \ {1} : scopes'[j] = scopes[j]
    BY <1>1, <1>5, <2>3, StoredScopes
  <2> QED BY <1>1, <1>5, <2>2, <2>4
<1>6. CASE /\ live' = live \cup {Fresh} /\ UNCHANGED <<status, maps>>
           /\ Drop({"grow"})
  <2>1. ~NoneRefused' /\ failed' = failed \cup {"grow"} /\ extracted' = extracted
    BY <1>6 DEF NoneRefused, Drop
  <2>2. HeapInv'
    BY <1>1, <1>6, LeakHeap DEF IInv, Drop
  <2> QED BY <1>1, <1>6, <2>1, <2>2 DEF Kinds
<1>7. CASE /\ live' = live \cup {Fresh} /\ UNCHANGED <<status, maps>>
           /\ scopes = <<>> /\ Drop({})
  <2>1. ~NoneRefused' /\ failed' = failed /\ extracted' = extracted
    BY <1>2, <1>7 DEF NoneRefused, Drop
  <2>2. HeapInv'
    BY <1>1, <1>7, LeakHeap DEF IInv, Drop
  <2> QED BY <1>1, <1>7, <2>1, <2>2
<1> QED BY <1>3, <1>4, <1>5, <1>6, <1>7 DEF NewSymbol, refused

LEMMA VariableIInv == ASSUME IInv, NEW x \in Name, Variable(x) PROVE IInv'
<1>1. /\ Running /\ phase = "check" /\ size' = size + 1 /\ size < MaxSize
      /\ phase' = phase /\ RegisterVar(x)
      /\ blocks' = [blocks EXCEPT ![1] = @ \cup {x}]
      /\ faults' = faults + One(x \in Head(blocks))
      /\ size \in Nat /\ MaxSize \in Nat /\ errors \in 0..size /\ faults \in 0..size
  BY DriverAssumption DEF Variable, Checking, IInv, Counters
<1>2. /\ blocks \in Seq(SUBSET Name) /\ Len(blocks) >= 1 /\ Head(blocks) = blocks[1]
      /\ scopes \in Seq(Slot)
  BY <1>1 DEF IInv, Counters, Phases, HeapInv
<1>3. /\ blocks' \in Seq(SUBSET Name) /\ Len(blocks') = Len(blocks)
      /\ blocks'[1] = blocks[1] \cup {x} /\ \A j \in 2..Len(blocks) : blocks'[j] = blocks[j]
  <2>1. 1 \in 1..Len(blocks) /\ blocks[1] \cup {x} \in SUBSET Name
    BY <1>2
  <2> QED BY <1>1, <1>2, <2>1
<1>4. /\ size' \in 0..MaxSize /\ faults' \in 0..size'
      /\ errors \in 0..size' /\ errors + 1 \in 0..size'
  BY <1>1 DEF One
<1>5. NoneRefused => /\ Len(scopes) = Len(blocks) /\ errors = faults /\ scopes # <<>>
                     /\ \A j \in DOMAIN scopes : Names(scopes[j]) = blocks[j]
  BY <1>1, <1>2 DEF IInv, Mirror
<1>6. CASE scopes # <<>> /\ Head(scopes) = NULL
  <2>1. Crash({}) /\ errors' = errors /\ heap' = heap
    BY <1>1, <1>6 DEF RegisterVar
  <2>2. HeapInv'
    BY <1>1, <2>1, SameHeap DEF IInv, Crash
  <2>3. /\ failed' \in SUBSET Kinds /\ failed' \ {"node", "grow"} # {} /\ status' = "crash"
        /\ extracted' \in BOOLEAN
    <3>1. 1 \in DOMAIN scopes /\ scopes[1] = NULL
      BY <1>2, <1>6
    <3> QED BY <2>1, <3>1, NullMeansFailed DEF IInv, Counters, Crash
  <2> QED BY <1>1, <1>3, <1>4, <2>1, <2>2, <2>3, CrashIInv
<1>7. CASE DeclaredHere(x) /\ errors' = errors + 1
           /\ UNCHANGED <<status, failed, lost, extracted, heap>>
  <2>1. HeapInv' /\ UNCHANGED <<scopes, live, maps>>
    BY <1>1, <1>7, SameHeap DEF IInv, heap
  <2>2. Mirror'
    <3> SUFFICES ASSUME NoneRefused
                 PROVE  /\ Len(scopes') = Len(blocks') /\ errors' = faults'
                        /\ \A j \in DOMAIN scopes' : Names(scopes'[j]) = blocks'[j]
      BY <1>7 DEF Mirror, NoneRefused
    <3>1. x \in blocks[1]
      BY <1>2, <1>5, <1>7 DEF DeclaredHere
    <3>2. blocks' = blocks
      BY <1>1, <1>2, <3>1
    <3> QED BY <1>1, <1>2, <1>5, <1>7, <2>1, <3>1, <3>2 DEF One
  <2>3. Counters' /\ Phases' /\ NothingLeft' /\ EndsAsItShould'
    BY <1>1, <1>2, <1>3, <1>4, <1>7, <2>1
       DEF IInv, Counters, Phases, NothingLeft, EndsAsItShould, Running
  <2> QED BY <2>1, <2>2, <2>3 DEF IInv
<1>8. CASE /\ scopes = <<>> \/ Head(scopes) # NULL
           /\ ~DeclaredHere(x) /\ NewSymbol(x) /\ errors' = errors
  <2>0. extracted' = extracted
    BY <1>1, <1>8, NewSymbolHeap
  <2>1. HeapInv' /\ failed' \in SUBSET Kinds /\ extracted' \in BOOLEAN
    BY <1>1, <1>8, <2>0, NewSymbolHeap DEF IInv, Counters
  <2>2. CASE status' = "crash" /\ failed' \ {"node", "grow"} # {}
    BY <1>1, <1>3, <1>4, <1>8, <2>1, <2>2, CrashIInv
  <2>3. CASE status' = status /\ ~NoneRefused'
    <3>1. Mirror' /\ Counters' /\ Phases' /\ NothingLeft' /\ EndsAsItShould'
      BY <1>1, <1>2, <1>3, <1>4, <1>8, <2>1, <2>3
         DEF IInv, Mirror, Counters, Phases, NothingLeft, EndsAsItShould, Running
    <3> QED BY <2>1, <3>1 DEF IInv
  <2>4. CASE /\ status' = status /\ failed' = failed
             /\ scopes # <<>> /\ 1 \in DOMAIN scopes /\ DOMAIN scopes' = DOMAIN scopes
             /\ Len(scopes') = Len(scopes)
             /\ Names(scopes'[1]) = Names(scopes[1]) \cup {x}
             /\ \A j \in DOMAIN scopes \ {1} : scopes'[j] = scopes[j]
    <3>1. Mirror'
      <4> SUFFICES ASSUME NoneRefused
                   PROVE  /\ Len(scopes') = Len(blocks') /\ errors' = faults'
                          /\ \A j \in DOMAIN scopes' : Names(scopes'[j]) = blocks'[j]
        BY <2>4 DEF Mirror, NoneRefused
      <4>1. x \notin blocks[1]
        BY <1>2, <1>5, <1>8 DEF DeclaredHere
      <4>2. errors' = faults'
        BY <1>1, <1>2, <1>5, <1>8, <4>1 DEF One
      <4>3. ASSUME NEW j \in DOMAIN scopes' PROVE Names(scopes'[j]) = blocks'[j]
        <5>1. j \in DOMAIN scopes /\ j \in 1..Len(blocks) /\ Names(scopes[j]) = blocks[j]
          BY <1>2, <1>5, <2>4
        <5>2. CASE j = 1
          BY <1>3, <2>4, <5>1, <5>2
        <5>3. CASE j # 1
          BY <1>3, <2>4, <5>1, <5>3
        <5> QED BY <5>2, <5>3
      <4> QED BY <1>3, <1>5, <2>4, <4>2, <4>3
    <3>2. Counters' /\ Phases' /\ NothingLeft' /\ EndsAsItShould'
      BY <1>1, <1>2, <1>3, <1>4, <1>8, <2>1, <2>4
         DEF IInv, Counters, Phases, NothingLeft, EndsAsItShould, Running
    <3> QED BY <2>1, <3>1, <3>2 DEF IInv
  <2> QED BY <1>1, <1>8, <2>2, <2>3, <2>4, NewSymbolHeap
<1> QED BY <1>1, <1>6, <1>7, <1>8 DEF RegisterVar, refused

LEMMA FunctionIInv == ASSUME IInv, NEW x \in Name, Function(x) PROVE IInv'
<1>1. /\ Running /\ phase = "check" /\ size' = size + 1 /\ size < MaxSize
      /\ phase' = phase /\ heap' = heap /\ blocks' = blocks /\ Len(blocks) = 1
      /\ faults' = faults + One(x \in Head(blocks))
      /\ size \in Nat /\ MaxSize \in Nat /\ errors \in 0..size /\ faults \in 0..size
      /\ UNCHANGED <<scopes, live, maps>>
  BY DriverAssumption DEF Function, Checking, IInv, Counters, heap
<1>2. /\ blocks \in Seq(SUBSET Name) /\ Head(blocks) = blocks[1] /\ scopes \in Seq(Slot)
  BY <1>1 DEF IInv, Counters, HeapInv
<1>3. /\ size' \in 0..MaxSize /\ faults' \in 0..size'
      /\ errors \in 0..size' /\ errors + 1 \in 0..size'
  BY <1>1 DEF One
<1>4. CASE DeclaredHere(x) /\ errors' = errors + 1 /\ UNCHANGED <<status, failed, lost, extracted>>
  <2>1. HeapInv'
    BY <1>1, <1>4, SameHeap DEF IInv
  <2>2. Mirror'
    <3> SUFFICES ASSUME NoneRefused
                 PROVE  /\ Len(scopes) = Len(blocks) /\ errors' = faults'
                        /\ \A j \in DOMAIN scopes : Names(scopes[j]) = blocks[j]
      BY <1>1, <1>4 DEF Mirror, NoneRefused
    <3>1. /\ Len(scopes) = Len(blocks) /\ errors = faults
          /\ \A j \in DOMAIN scopes : Names(scopes[j]) = blocks[j]
      BY <1>1 DEF IInv, Mirror
    <3>2. x \in Head(blocks)
      BY <1>2, <1>4, <3>1 DEF DeclaredHere
    <3> QED BY <1>1, <1>4, <3>1, <3>2 DEF One
  <2>3. Counters' /\ Phases' /\ NothingLeft' /\ EndsAsItShould'
    BY <1>1, <1>2, <1>3, <1>4 DEF IInv, Counters, Phases, NothingLeft, EndsAsItShould, Running
  <2> QED BY <2>1, <2>2, <2>3 DEF IInv
<1>5. CASE scopes # <<>> /\ Head(scopes) = NULL /\ Crash({}) /\ errors' = errors
  <2>1. HeapInv'
    BY <1>1, <1>5, SameHeap DEF IInv, Crash
  <2>2. 1 \in DOMAIN scopes /\ scopes[1] = NULL
    BY <1>2, <1>5
  <2>3. /\ failed' \in SUBSET Kinds /\ failed' \ {"node", "grow"} # {} /\ status' = "crash"
        /\ extracted' \in BOOLEAN
    BY <1>5, <2>2, NullMeansFailed DEF Crash, IInv, Counters
  <2> QED BY <1>1, <1>2, <1>3, <1>5, <2>1, <2>3, CrashIInv
<1>6. CASE status' = "crash" /\ extracted' = TRUE /\ UNCHANGED <<errors, failed, lost>>
  <2>1. HeapInv'
    BY <1>1, <1>6, SameHeap DEF IInv
  <2>2. failed' \in SUBSET Kinds /\ extracted' \in BOOLEAN
    BY <1>6 DEF IInv, Counters
  <2> QED BY <1>1, <1>2, <1>3, <1>6, <2>1, <2>2, CrashIInv
<1> QED BY <1>4, <1>5, <1>6 DEF Function, refused

LEMMA FinishIInv == IInv /\ Finish => IInv'
<1> SUFFICES ASSUME IInv, Finish PROVE IInv'
  OBVIOUS
<1>1. /\ Running /\ phase = "check" /\ FreeEnv
      /\ status' = IF errors > 0 THEN "failure" ELSE "success"
      /\ UNCHANGED <<phase, errors, failed, lost, extracted, faults, size>>
      /\ errors \in Nat /\ faults \in Nat
  BY DEF Finish, refused, IInv, Counters
<1>2. HeapInv'
  <2>1. Len(scopes) \in Nat
    BY DEF IInv, HeapInv
  <2> QED BY <1>1, <2>1, FreeHeap DEF IInv, FreeEnv
<1>3. scopes' = <<>> /\ blocks' = <<>> /\ live' = lost.names /\ maps' = lost.maps
  BY <1>1, FreeAll DEF IInv
<1>4. NoneRefused => errors = faults
  BY <1>1 DEF IInv, Mirror
<1>5. Counters' /\ Phases' /\ Mirror' /\ NothingLeft'
  BY <1>1, <1>3 DEF IInv, Counters, Phases, Mirror, NothingLeft, Running
<1>6. EndsAsItShould'
  BY <1>1, <1>4 DEF EndsAsItShould, NoneRefused
<1> QED BY <1>2, <1>5, <1>6 DEF IInv

\* The invariant is inductive.
LEMMA NextIInv == IInv /\ [Next]_vars => IInv'
<1> SUFFICES ASSUME IInv, [Next]_vars PROVE IInv'
  OBVIOUS
<1>1. CASE Open \/ MakeEnv \/ Parse \/ BeginCheck \/ EnterBlock \/ LeaveBlock \/ Finish
  BY <1>1, OpenIInv, MakeEnvIInv, ParseIInv, BeginCheckIInv, EnterBlockIInv, LeaveBlockIInv,
     FinishIInv
<1>2. CASE \E x \in Name : Leia(x) \/ Use(x) \/ Variable(x) \/ Function(x)
  BY <1>2, LeiaIInv, UseIInv, VariableIInv, FunctionIInv
<1>3. CASE UNCHANGED vars
  <2>1. /\ UNCHANGED <<phase, status, errors, scopes, live, maps, failed, lost, extracted>>
        /\ UNCHANGED <<heap, blocks, faults, size>>
    BY <1>3 DEF vars, main, heap, history, refused
  <2>2. HeapInv'
    BY <2>1, SameHeap DEF IInv, Counters
  <2>3. Counters' /\ Mirror' /\ Phases' /\ NothingLeft' /\ EndsAsItShould'
    BY <2>1 DEF IInv, Counters, Mirror, NoneRefused, Phases, NothingLeft, EndsAsItShould, Running
  <2> QED BY <2>2, <2>3 DEF IInv
<1> QED BY <1>1, <1>2, <1>3 DEF Next

LEMMA AlwaysIInv == Spec => []IInv
BY InitIInv, NextIInv, PTL DEF Spec

\* Main keeps its type.
THEOREM DriverTypeCorrect == Spec => []TypeOK
<1>1. IInv => TypeOK
  <2> SUFFICES ASSUME IInv PROVE TypeOK
    OBVIOUS
  <2>1. live \subseteq 1..MaxSize
    <3>1. size \in Nat /\ MaxSize \in Nat /\ size <= MaxSize /\ live \subseteq 1..size
      BY DriverAssumption DEF IInv, Counters, HeapInv
    <3> QED BY <3>1
  <2>2. \A j \in DOMAIN scopes :
           scopes[j] = NULL \/ scopes[j] \in [Name -> 1..MaxSize \cup {NULL}]
    <3>1. \A j \in DOMAIN scopes : scopes[j] \in Slot
      BY DEF IInv, HeapInv
    <3> QED BY <3>1 DEF Slot
  <2>3. maps \in Nat /\ lost \in [maps : Nat, names : SUBSET (1..MaxSize)]
    <3>1. IsFiniteSet(1..Len(scopes)) /\ DOMAIN scopes = 1..Len(scopes)
      BY FS_Interval DEF IInv, HeapInv
    <3>2. IsFiniteSet(Held(scopes))
      BY <3>1, FS_Subset DEF Held
    <3>3. Cardinality(Held(scopes)) \in Nat
      BY <3>2, FS_CardinalityType
    <3> QED BY <2>1, <3>3, LostCounts DEF IInv, HeapInv
  <2> QED BY <2>1, <2>2, <2>3 DEF TypeOK, IInv, Counters, HeapInv
<1> QED BY <1>1, AlwaysIInv, PTL

\* Every bucket's name is allocated and no two buckets share one, after any
\* calls and any failures: symbol_free never frees a name twice.
THEOREM EveryNameHasOneOwner == Spec => []OneOwner
<1>1. IInv => OneOwner
  BY DEF IInv, HeapInv
<1> QED BY <1>1, AlwaysIInv, PTL

\* When main returns, from a failed parse or a check, what is still allocated is
\* what nothing pointed to any more.
THEOREM MainLeavesNothing == Spec => []NothingLeft
<1>1. IInv => NothingLeft
  BY DEF IInv
<1> QED BY <1>1, AlwaysIInv, PTL

\* main crashes only after an allocation nobody checks failed or at a function of
\* a new name, and without a refused insertion it accepts exactly the checked
\* sources that repeat no declaration, read no undeclared name and have no report
\* of a type.
THEOREM MainEndsAsItShould == Spec => []EndsAsItShould
<1>1. IInv => EndsAsItShould
  BY DEF IInv
<1> QED BY <1>1, AlwaysIInv, PTL
-----------------------------------------------------------------------------
\* The table of SymbolTable that the list, the maps and the open blocks make.
Env == [j \in DOMAIN scopes |-> [x \in Name |-> IF x \in Names(scopes[j])
                                                THEN "symbol" ELSE NULL]]
Declaration(d, x) == [depth |-> d, name |-> x, sym |-> "symbol"]
Decls == UNION {{Declaration(Len(blocks) + 1 - j, x) : x \in blocks[j]} : j \in DOMAIN blocks}

TableScope == [Name -> {"symbol", NULL}]

\* While nothing failed, the list has one map for each open block.
Intact ==
    /\ scopes \in Seq(Slot) /\ blocks \in Seq(SUBSET Name) /\ Len(scopes) = Len(blocks)
    /\ \A j \in DOMAIN scopes : scopes[j] # NULL /\ Names(scopes[j]) = blocks[j]

LEMMA EnvPlaces ==
    ASSUME scopes \in Seq(Slot)
    PROVE  /\ Env \in Seq(TableScope) /\ Len(Env) = Len(scopes)
           /\ \A j \in DOMAIN scopes : \A x \in Name :
                 Env[j][x] = IF x \in Names(scopes[j]) THEN "symbol" ELSE NULL
<1>1. /\ DOMAIN scopes = 1..Len(scopes) /\ Len(scopes) \in Nat
  OBVIOUS
<1> QED BY <1>1 DEF Env, TableScope

LEMMA DeclsAre ==
    ASSUME NEW d
    PROVE  d \in Decls <=> \E j \in DOMAIN blocks : \E x \in blocks[j] :
                              d = Declaration(Len(blocks) + 1 - j, x)
BY DEF Decls

\* env_push_scope, when both allocations succeed.
LEMMA TablePushed ==
    ASSUME Intact, Intact', blocks' = <<{}>> \o blocks,
           \E scope \in Slot : scopes' = <<scope>> \o scopes
    PROVE  Table!EnvPushScope
<1> DEFINE n == Len(blocks)
           empty == [x \in Name |-> NULL]
<1>1. /\ n \in Nat /\ Len(scopes) = n /\ DOMAIN scopes = 1..n /\ DOMAIN blocks = 1..n
      /\ Len(blocks') = n + 1 /\ DOMAIN blocks' = 1..(n + 1) /\ blocks'[1] = {}
      /\ \A j \in 2..(n + 1) : blocks'[j] = blocks[j - 1]
  BY DEF Intact
<1>2. /\ Len(scopes') = n + 1 /\ DOMAIN scopes' = 1..(n + 1)
      /\ \A j \in 1..(n + 1) : Names(scopes'[j]) = blocks'[j]
  BY <1>1 DEF Intact
<1>3. /\ Env \in Seq(TableScope) /\ Len(Env) = n
      /\ \A j \in 1..n : \A x \in Name :
            Env[j][x] = IF x \in blocks[j] THEN "symbol" ELSE NULL
  <2>1. \A j \in 1..n : Names(scopes[j]) = blocks[j]
    BY <1>1 DEF Intact
  <2>2. scopes \in Seq(Slot)
    BY DEF Intact
  <2>3. /\ Env \in Seq(TableScope) /\ Len(Env) = Len(scopes)
        /\ \A j \in 1..n : \A x \in Name :
              Env[j][x] = IF x \in Names(scopes[j]) THEN "symbol" ELSE NULL
    BY <1>1, <2>2, EnvPlaces
  <2> QED BY <1>1, <2>1, <2>3
<1>4. /\ Env' \in Seq(TableScope) /\ Len(Env') = n + 1
      /\ \A j \in 1..(n + 1) : \A x \in Name :
            Env'[j][x] = IF x \in blocks'[j] THEN "symbol" ELSE NULL
  <2>1. /\ DOMAIN scopes' = 1..Len(scopes') /\ Len(scopes') \in Nat
    BY <1>1, <1>2
  <2> QED BY <1>2, <2>1 DEF Env, TableScope
<1>5. Env' = <<empty>> \o Env
  <2>1. /\ empty \in TableScope /\ <<empty>> \o Env \in Seq(TableScope)
        /\ Len(<<empty>> \o Env) = n + 1 /\ (<<empty>> \o Env)[1] = empty
        /\ \A j \in 2..(n + 1) : (<<empty>> \o Env)[j] = Env[j - 1]
    BY <1>1, <1>3 DEF TableScope
  <2>2. ASSUME NEW j \in 1..(n + 1) PROVE Env'[j] = (<<empty>> \o Env)[j]
    <3>1. Env'[j] \in TableScope
      BY <1>4
    <3>2. CASE j = 1
      <4>1. \A x \in Name : Env'[1][x] = NULL
        BY <1>1, <1>4, <3>2
      <4> QED BY <2>1, <3>1, <3>2, <4>1 DEF TableScope
    <3>3. CASE j # 1
      <4>1. j \in 2..(n + 1) /\ j - 1 \in 1..n /\ Env[j - 1] \in TableScope
        BY <1>1, <1>3, <3>3
      <4>2. blocks'[j] = blocks[j - 1]
        BY <1>1, <4>1
      <4>3. \A x \in Name : Env[j - 1][x] = IF x \in blocks[j - 1] THEN "symbol" ELSE NULL
        BY <1>3, <4>1
      <4>4. \A x \in Name : Env'[j][x] = IF x \in blocks'[j] THEN "symbol" ELSE NULL
        BY <1>4
      <4>5. \A x \in Name : Env'[j][x] = Env[j - 1][x]
        BY <4>2, <4>3, <4>4
      <4> QED BY <2>1, <3>1, <4>1, <4>5 DEF TableScope
    <3> QED BY <3>2, <3>3
  <2> HIDE DEF empty
  <2> QED BY <1>1, <1>4, <2>1, <2>2, SeqEqual
<1>6. Decls' = Decls
  <2>1. ASSUME NEW j \in 1..(n + 1), NEW x \in blocks'[j]
        PROVE  \E i \in 1..n : x \in blocks[i] /\ (n + 1) + 1 - j = n + 1 - i
    <3>1. j \in 2..(n + 1) /\ j - 1 \in 1..n /\ x \in blocks[j - 1]
      BY <1>1
    <3>2. (n + 1) + 1 - j = n + 1 - (j - 1)
      BY <1>1
    <3> QED BY <3>1, <3>2
  <2>2. ASSUME NEW i \in 1..n, NEW x \in blocks[i]
        PROVE  i + 1 \in 1..(n + 1) /\ x \in blocks'[i + 1] /\ n + 1 - i = (n + 1) + 1 - (i + 1)
    <3>1. i + 1 \in 2..(n + 1) /\ (i + 1) - 1 = i
      BY <1>1
    <3> QED BY <1>1, <3>1
  <2>3. ASSUME NEW d \in Decls' PROVE d \in Decls
    <3>1. PICK j \in 1..(n + 1) : \E x \in blocks'[j] : d = Declaration((n + 1) + 1 - j, x)
      BY <1>1 DEF Decls
    <3> QED BY <1>1, <2>1, <3>1, DeclsAre
  <2>4. ASSUME NEW d \in Decls PROVE d \in Decls'
    <3>1. PICK i \in 1..n : \E x \in blocks[i] : d = Declaration(n + 1 - i, x)
      BY <1>1, DeclsAre
    <3>2. PICK j \in 1..(n + 1) : \E x \in blocks'[j] : d = Declaration((n + 1) + 1 - j, x)
      BY <2>2, <3>1
    <3> QED BY <1>1, <3>2 DEF Decls
  <2> QED BY <2>3, <2>4
<1> QED BY <1>1, <1>5, <1>6 DEF Table!EnvPushScope, Table!PushScope, Table!NoScope, Env, Decls,
                                Declaration

\* env_pop_scope of the innermost scope.
LEMMA TablePopped ==
    ASSUME Intact, Intact', Len(blocks) >= 1, blocks' = Tail(blocks), scopes' = Tail(scopes)
    PROVE  Table!EnvPopScope
<1> DEFINE n == Len(blocks)
<1>1. /\ n \in Nat /\ n >= 1 /\ Len(scopes) = n /\ DOMAIN scopes = 1..n /\ DOMAIN blocks = 1..n
      /\ Len(blocks') = n - 1 /\ DOMAIN blocks' = 1..(n - 1)
      /\ \A j \in 1..(n - 1) : blocks'[j] = blocks[j + 1]
  BY DEF Intact
<1>2. /\ Len(scopes') = n - 1 /\ DOMAIN scopes' = 1..(n - 1)
      /\ \A j \in 1..(n - 1) : Names(scopes'[j]) = blocks'[j]
  BY <1>1 DEF Intact
<1>3. /\ Env \in Seq(TableScope) /\ Len(Env) = n /\ Env # <<>>
      /\ \A j \in 1..n : \A x \in Name :
            Env[j][x] = IF x \in blocks[j] THEN "symbol" ELSE NULL
  <2>1. \A j \in 1..n : Names(scopes[j]) = blocks[j]
    BY <1>1 DEF Intact
  <2>2. scopes \in Seq(Slot)
    BY DEF Intact
  <2>3. /\ Env \in Seq(TableScope) /\ Len(Env) = Len(scopes)
        /\ \A j \in 1..n : \A x \in Name :
              Env[j][x] = IF x \in Names(scopes[j]) THEN "symbol" ELSE NULL
    BY <1>1, <2>2, EnvPlaces
  <2> QED BY <1>1, <2>1, <2>3
<1>4. /\ Env' \in Seq(TableScope) /\ Len(Env') = n - 1
      /\ \A j \in 1..(n - 1) : \A x \in Name :
            Env'[j][x] = IF x \in blocks'[j] THEN "symbol" ELSE NULL
  <2>1. Len(scopes') \in Nat /\ n - 1 \in Nat
    BY <1>1, <1>2
  <2>2. Env' = [j \in 1..(n - 1) |-> [x \in Name |-> IF x \in Names(scopes'[j])
                                                  THEN "symbol" ELSE NULL]]
    BY <1>2 DEF Env
  <2>3. Env' \in [1..(n - 1) -> TableScope]
    BY <2>2 DEF TableScope
  <2>4. Env' \in Seq(TableScope) /\ Len(Env') = n - 1
    BY <2>1, <2>3
  <2> QED BY <1>2, <2>2, <2>4
<1>5. Env' = Tail(Env)
  <2>1. /\ Tail(Env) \in Seq(TableScope) /\ Len(Tail(Env)) = n - 1
        /\ \A j \in 1..(n - 1) : Tail(Env)[j] = Env[j + 1]
    BY <1>1, <1>3
  <2>2. ASSUME NEW j \in 1..(n - 1) PROVE Env'[j] = Tail(Env)[j]
    <3>1. /\ j + 1 \in 1..n /\ Env'[j] \in TableScope /\ Env[j + 1] \in TableScope
      BY <1>1, <1>3, <1>4
    <3>2. \A x \in Name : Env'[j][x] = Env[j + 1][x]
      BY <1>1, <1>3, <1>4, <3>1
    <3> QED BY <2>1, <3>1, <3>2 DEF TableScope
  <2> QED BY <1>1, <1>4, <2>1, <2>2, SeqEqual
<1>6. Decls' = {d \in Decls : d.depth < n}
  <2>1. ASSUME NEW d \in Decls' PROVE d \in Decls /\ d.depth < n
    <3>0. PICK j \in 1..(n - 1) : \E x \in blocks'[j] : d = Declaration((n - 1) + 1 - j, x)
      BY <1>1 DEF Decls
    <3>1. PICK x \in blocks'[j] : d = Declaration((n - 1) + 1 - j, x)
      BY <3>0
    <3>2. /\ j + 1 \in 1..n /\ (n - 1) + 1 - j = n + 1 - (j + 1)
          /\ (n - 1) + 1 - j < n
      <4>1. n \in Nat /\ j \in 1..(n - 1)
        BY <1>1
      <4> HIDE DEF n
      <4> QED BY <4>1
    <3>3. x \in blocks[j + 1]
      BY <1>1, <3>1
    <3> QED BY <1>1, <3>1, <3>2, <3>3, DeclsAre DEF Declaration
  <2>2. ASSUME NEW d \in Decls, d.depth < n PROVE d \in Decls'
    <3>0. PICK j \in 1..n : \E x \in blocks[j] : d = Declaration(n + 1 - j, x)
      BY <1>1, DeclsAre
    <3>1. PICK x \in blocks[j] : d = Declaration(n + 1 - j, x)
      BY <3>0
    <3>2. j - 1 \in 1..(n - 1) /\ n + 1 - j = (n - 1) + 1 - (j - 1) /\ (j - 1) + 1 = j
      BY <1>1, <2>2, <3>1 DEF Declaration
    <3>3. x \in blocks'[j - 1]
      BY <1>1, <3>1, <3>2
    <3>4. \E i \in 1..(n - 1) : \E y \in blocks'[i] : d = Declaration((n - 1) + 1 - i, y)
      BY <3>1, <3>2, <3>3
    <3> QED BY <1>1, <3>4 DEF Decls
  <2> QED BY <2>1, <2>2
<1> QED BY <1>1, <1>3, <1>5, <1>6 DEF Table!EnvPopScope, Table!PopScope, Env, Decls, Declaration

\* register_var, of a name that is new in the innermost scope or is not.
LEMMA TableDeclared ==
    ASSUME Intact, Intact', Len(blocks) >= 1, NEW x \in Name,
           blocks' = [blocks EXCEPT ![1] = @ \cup {x}]
    PROVE  Table!Declare(x, "symbol")
<1> DEFINE n == Len(blocks)
<1>1. /\ n \in Nat /\ n >= 1 /\ Len(scopes) = n /\ DOMAIN scopes = 1..n /\ DOMAIN blocks = 1..n
      /\ Len(blocks') = n /\ DOMAIN blocks' = 1..n /\ blocks'[1] = blocks[1] \cup {x}
      /\ \A j \in 2..n : blocks'[j] = blocks[j]
  BY DEF Intact
<1>2. Len(scopes') = n /\ DOMAIN scopes' = 1..n
  BY <1>1 DEF Intact
<1>3. Env = [j \in 1..n |-> [y \in Name |-> IF y \in blocks[j] THEN "symbol" ELSE NULL]]
  BY <1>1 DEF Intact, Env
<1>4. Env' = [j \in 1..n |-> [y \in Name |-> IF y \in blocks'[j] THEN "symbol" ELSE NULL]]
  BY <1>1, <1>2 DEF Intact, Env
<1>5. Env # <<>> /\ Head(Env) = Env[1] /\ Env[1][x] = (IF x \in blocks[1] THEN "symbol" ELSE NULL)
  <2>1. Env \in [1..n -> TableScope]
    BY <1>3 DEF TableScope
  <2>2. Env \in Seq(TableScope) /\ Len(Env) = n
    BY <1>1, <2>1
  <2> QED BY <1>1, <1>3, <2>2
<1>6. Env' = IF Env[1][x] # NULL THEN Env ELSE [Env EXCEPT ![1] = [@ EXCEPT ![x] = "symbol"]]
  <2>1. CASE x \in blocks[1]
    <3>1. \A j \in 1..n : blocks'[j] = blocks[j]
      <4>1. blocks[1] \cup {x} = blocks[1]
        BY <2>1
      <4> QED BY <1>1, <4>1
    <3>2. Env' = Env
      BY <1>3, <1>4, <3>1
    <3>3. Env[1][x] # NULL
      BY <1>5, <2>1, DriverAssumption
    <3> QED BY <3>2, <3>3
  <2>2. CASE x \notin blocks[1]
    <3>1. ASSUME NEW j \in 1..n
          PROVE  Env'[j] = [Env EXCEPT ![1] = [@ EXCEPT ![x] = "symbol"]][j]
      <4>1. CASE j = 1
        BY <1>1, <1>3, <1>4, <4>1
      <4>2. CASE j # 1
        BY <1>1, <1>3, <1>4, <4>2
      <4> QED BY <4>1, <4>2
    <3>2. Env' = [Env EXCEPT ![1] = [@ EXCEPT ![x] = "symbol"]]
      BY <1>3, <1>4, <3>1
    <3> QED BY <1>5, <2>2, <3>2
  <2> QED BY <2>1, <2>2
<1>7. (\E d \in Decls : d.depth = n /\ d.name = x) <=> x \in blocks[1]
  <2>1. ASSUME NEW d \in Decls, d.depth = n, d.name = x PROVE x \in blocks[1]
    <3>1. PICK j \in 1..n : \E y \in blocks[j] : d = Declaration(n + 1 - j, y)
      BY <1>1, DeclsAre
    <3>2. PICK y \in blocks[j] : d = Declaration(n + 1 - j, y)
      BY <3>1
    <3>3. y = x /\ n + 1 - j = n
      BY <2>1, <3>2 DEF Declaration
    <3>4. j = 1
      BY <1>1, <3>3
    <3> QED BY <3>2, <3>3, <3>4
  <2>2. ASSUME x \in blocks[1] PROVE \E d \in Decls : d.depth = n /\ d.name = x
    <3>1. n + 1 - 1 = n /\ 1 \in 1..n
      BY <1>1
    <3>2. Declaration(n, x) \in Decls
      BY <1>1, <2>2, <3>1, DeclsAre
    <3> QED BY <3>2 DEF Declaration
  <2> QED BY <2>1, <2>2
<1>8. Decls' = Decls \cup {Declaration(n, x)}
  <2>1. n + 1 - 1 = n /\ 1 \in 1..n
    BY <1>1
  <2>2. ASSUME NEW d \in Decls' PROVE d \in Decls \cup {Declaration(n, x)}
    <3>1. PICK j \in 1..n : \E y \in blocks'[j] : d = Declaration(n + 1 - j, y)
      BY <1>1 DEF Decls
    <3>2. PICK y \in blocks'[j] : d = Declaration(n + 1 - j, y)
      BY <3>1
    <3>3. y \in blocks[j] \/ (j = 1 /\ y = x)
      BY <1>1, <3>2
    <3> QED BY <1>1, <2>1, <3>2, <3>3, DeclsAre
  <2>3. ASSUME NEW d \in Decls PROVE d \in Decls'
    <3>1. PICK j \in 1..n : \E y \in blocks[j] : d = Declaration(n + 1 - j, y)
      BY <1>1, DeclsAre
    <3>2. blocks[j] \subseteq blocks'[j]
      BY <1>1
    <3>3. \E y \in blocks'[j] : d = Declaration(n + 1 - j, y)
      BY <3>1, <3>2
    <3> QED BY <1>1, <3>3 DEF Decls
  <2>4. Declaration(n, x) \in Decls'
    <3>1. \E y \in blocks'[1] : Declaration(n, x) = Declaration(n + 1 - 1, y)
      BY <1>1, <2>1
    <3> QED BY <1>1, <2>1, <3>1 DEF Decls
  <2> QED BY <2>2, <2>3, <2>4
<1>9. x \in blocks[1] => Decls' = Decls
  <2> SUFFICES ASSUME x \in blocks[1] PROVE Declaration(n, x) \in Decls
    BY <1>8
  <2>1. n + 1 - 1 = n /\ 1 \in 1..n
    BY <1>1
  <2> QED BY <1>1, <2>1, DeclsAre
<1> QED BY <1>1, <1>5, <1>6, <1>7, <1>8, <1>9
        DEF Table!Declare, Table!SymbolAdd, Table!SymbolSearchCurrent, Table!DeclaredHere,
            Env, Decls, Declaration

\* While nothing failed, the table is as the open blocks make it.
LEMMA StillIntact == IInv /\ failed = {} /\ Running => Intact
BY DEF IInv, Counters, HeapInv, Mirror, NoneRefused, Intact

\* A scope more, or none more where an allocation failed.
LEMMA PushStep ==
    ASSUME IInv, IInv', Running, Running', PushScope, failed' = {}, Len(blocks) < MaxDepth
    PROVE  Table!TableNext
<1>1. PICK map, node \in BOOLEAN :
         /\ scopes' = IF node THEN <<IF map THEN NoScope ELSE NULL>> \o scopes ELSE scopes
         /\ failed' = failed \cup (IF map THEN {} ELSE {"map"})
                             \cup (IF node THEN {} ELSE {"node"})
         /\ blocks' = <<{}>> \o blocks
  BY DEF PushScope
<1>2. map /\ node /\ failed = {}
  BY <1>1
<1>3. \E scope \in Slot : scopes' = <<scope>> \o scopes
  BY <1>1, <1>2, NewScopeIsEmpty
<1>4. Intact
  BY <1>2, StillIntact
<1>5. Intact'
  BY DEF IInv, Counters, HeapInv, Mirror, NoneRefused, Intact
<1>6. Table!EnvPushScope
  BY <1>1, <1>3, <1>4, <1>5, TablePushed
<1> QED BY <1>6 DEF Table!TableNext

\* The last scope goes with the list.
LEMMA FreeStep ==
    ASSUME IInv, Running, FreeEnv, failed = {}, Len(blocks) = 1
    PROVE  Table!TableNext
<1>1. Intact
  BY StillIntact
<1>2. scopes' = <<>> /\ blocks' = <<>>
  BY FreeAll DEF IInv, FreeEnv
<1>3. Len(scopes) = 1 /\ scopes \in Seq(Slot) /\ blocks \in Seq(SUBSET Name)
  BY <1>1 DEF Intact
<1>4. scopes' = Tail(scopes) /\ blocks' = Tail(blocks)
  <2>1. Tail(scopes) \in Seq(Slot) /\ Len(Tail(scopes)) = 0
    BY <1>3
  <2>2. Tail(blocks) \in Seq(SUBSET Name) /\ Len(Tail(blocks)) = 0
    BY <1>3
  <2>3. Tail(scopes) = <<>>
    BY <2>1, EmptySeq
  <2>4. Tail(blocks) = <<>>
    BY <2>2, EmptySeq
  <2> QED BY <1>2, <2>3, <2>4
<1>5. Intact'
  BY <1>2 DEF Intact
<1>6. Table!EnvPopScope
  BY <1>1, <1>4, <1>5, TablePopped
<1> QED BY <1>6 DEF Table!TableNext

\* A block closes, and another one stays open.
LEMMA PopStep ==
    ASSUME IInv, IInv', LeaveBlock, failed' = {}
    PROVE  Table!TableNext
<1>1. Running /\ Running' /\ Len(blocks) > 1 /\ FreeScopes(1) /\ blocks' = Tail(blocks) /\ failed = {}
  BY DEF LeaveBlock, PopScope, main, refused, Running
<1>2. Intact
  BY <1>1, StillIntact
<1>3. Intact'
  BY <1>1 DEF IInv, Counters, HeapInv, Mirror, NoneRefused, Intact
<1>4. scopes \in Seq(Slot) /\ Len(scopes) > 1
  BY <1>1, <1>2 DEF Intact
<1>5. scopes' = SubSeq(scopes, 2, Len(scopes))
  BY <1>1, <1>4 DEF FreeScopes
<1>6. scopes' = Tail(scopes)
  <2>1. /\ scopes' \in Seq(Slot) /\ Len(scopes') = Len(scopes) - 1
        /\ \A j \in 1..(Len(scopes) - 1) : scopes'[j] = scopes[j + 1]
    BY <1>1, <1>4, FreedScopes
  <2>2. /\ Tail(scopes) \in Seq(Slot) /\ Len(Tail(scopes)) = Len(scopes) - 1
        /\ \A j \in 1..(Len(scopes) - 1) : Tail(scopes)[j] = scopes[j + 1]
    BY <1>4
  <2> QED BY <2>1, <2>2, SeqEqual
<1>7. Len(blocks) >= 1 /\ Len(blocks) > 0
  BY <1>1, <1>2 DEF Intact
<1>8. Table!EnvPopScope
  BY <1>1, <1>2, <1>3, <1>6, <1>7, TablePopped
<1> QED BY <1>7, <1>8 DEF Table!TableNext

\* A declaration; what fails on the way of one is in failed.
LEMMA VariableStep ==
    ASSUME IInv, IInv', NEW x \in Name, Variable(x), failed' = {}
    PROVE  Table!TableNext
<1>1. /\ Running /\ phase = "check" /\ RegisterVar(x)
      /\ blocks' = [blocks EXCEPT ![1] = @ \cup {x}]
  BY DEF Variable, Checking
<1>2. failed = {}
  BY <1>1 DEF RegisterVar, NewSymbol, Crash, Drop, refused
<1>3. Intact
  BY <1>1, <1>2, StillIntact
<1>4. Len(blocks) >= 1 /\ Len(blocks) \in Nat
  BY <1>1, <1>3 DEF IInv, Phases, Intact
<1>5. scopes # <<>> /\ Head(scopes) # NULL
  BY <1>3, <1>4 DEF Intact
<1>6. status' = status
  BY <1>1, <1>5 DEF RegisterVar, NewSymbol, Crash
<1>7. Intact'
  BY <1>1, <1>6 DEF IInv, Counters, HeapInv, Mirror, NoneRefused, Intact, Running
<1>8. Table!Declare(x, "symbol")
  BY <1>1, <1>3, <1>4, <1>7, TableDeclared
<1> QED BY <1>4, <1>8 DEF Table!TableNext

\* Every step is a step of the table or leaves it alone, as long as nothing
\* failed.
LEMMA NextTable ==
    ASSUME IInv, IInv', Next, failed' = {}
    PROVE  Table!TableNext \/ UNCHANGED Table!tableVars
<1>1. ASSUME UNCHANGED <<scopes, blocks>> PROVE UNCHANGED Table!tableVars
  BY <1>1 DEF Table!tableVars, Names
<1>2. MaxDepth \in Nat /\ MaxDepth >= 1
  BY DriverAssumption
<1>3. CASE Open \/ \E x \in Name : Leia(x) \/ Use(x) \/ Function(x)
  <2>1. UNCHANGED <<scopes, blocks>>
    BY <1>3 DEF Open, Leia, Use, Lookup, Function, heap, history
  <2> QED BY <1>1, <2>1
<1>4. CASE MakeEnv
  <2>1. PushScope /\ Running /\ Running'
    BY <1>4 DEF MakeEnv, EnvNew, Crash, Running
  <2>2. Len(blocks) < MaxDepth
    BY <1>2, <1>4 DEF MakeEnv, IInv, Phases
  <2> QED BY <2>1, <2>2, PushStep
<1>5. CASE BeginCheck
  <2>1. PushScope /\ Running /\ Running'
    BY <1>5 DEF BeginCheck, EnvNew, Crash, Running
  <2>2. Len(blocks) < MaxDepth
    BY <1>2, <1>5 DEF BeginCheck, IInv, Phases
  <2> QED BY <2>1, <2>2, PushStep
<1>6. CASE EnterBlock
  <2>1. PushScope /\ Running /\ Running' /\ Len(blocks) < MaxDepth
    BY <1>6 DEF EnterBlock, Checking, Running, main
  <2> QED BY <2>1, PushStep
<1>7. CASE LeaveBlock
  BY <1>7, PopStep
<1>8. CASE Parse \/ Finish
  <2>1. CASE UNCHANGED <<heap, blocks>>
    BY <1>1, <2>1 DEF heap
  <2>2. CASE FreeEnv
    <3>1. Running /\ failed = {}
      BY <1>8 DEF Parse, Finish, refused
    <3>2. Len(blocks) = 1
      BY <1>8, <3>1 DEF Parse, Finish, IInv, Phases
    <3> QED BY <2>2, <3>1, <3>2, FreeStep
  <2> QED BY <1>8, <2>1, <2>2 DEF Parse, Finish
<1>9. CASE \E x \in Name : Variable(x)
  BY <1>9, VariableStep
<1> QED BY <1>3, <1>4, <1>5, <1>6, <1>7, <1>8, <1>9 DEF Next

\* Until an allocation fails, main and semantic_program use the list, the maps
\* and the copies of the names as the table of SymbolTable: all that is proved
\* of the table holds of the environment with its memory.
THEOREM DriverImplementsTable == Spec => ImplementsTable
<1>1. IInv /\ IInv' /\ [Next]_vars =>
        [failed' = {} => Table!TableNext \/ UNCHANGED Table!tableVars]_vars
  BY NextTable
<1> QED BY <1>1, AlwaysIInv, PTL DEF Spec, ImplementsTable
=============================================================================
