---------------------------- MODULE HashMapProofs ----------------------------
(***************************************************************************)
(* What the run of HashMap checks on four keys, proved for every hash      *)
(* function, every size and all the calls of hashmap.c: the tables are in  *)
(* robin hood order and never full, no entry is lost or doubled while a    *)
(* set, a delete or a rehash is under way, and so a map is a function from *)
(* keys to items that each call reads and changes at one instant; and that *)
(* an iteration gets all of them while no call moves an entry.             *)
(***************************************************************************)
EXTENDS HashIter, NaturalLemmas, SequenceTheorems

\* A table of n buckets, whose entries are items.
Table(t, n) == /\ t \in [0..(n - 1) -> Bucket]
               /\ \A x \in Occupied(t, n) : t[x] \in Item

\* Bucket x holds k, or item v of k.
Has(t, x, k) == t[x].dib > 0 /\ t[x].key = k
HasItem(t, x, k, v) == t[x].dib > 0 /\ t[x].key = k /\ t[x].val = v
Keeps(t, n, k) == \E x \in 0..(n - 1) : Has(t, x, k)
KeepsItem(t, n, k, v) == \E x \in 0..(n - 1) : HasItem(t, x, k, v)

\* The probe for k has not got past it after d - 1 buckets.
NotPassed(t, n, k, d) == \A x \in 0..(n - 1) : Has(t, x, k) => d <= t[x].dib

\* Entry e has probed its way to bucket x of a table: it is as far from home as
\* its dib says, and the bucket before it is not closer to its own home.
AtProbe(t, n, e, x) ==
    /\ e \in Item /\ x \in 0..(n - 1) /\ Spot(e.key, e.dib, n) = x
    /\ \A p \in 0..(n - 1) : Nxt(p, n) = x => e.dib - 1 <= t[p].dib


\* What TypeOK says, with what each loop keeps in the scratch variables.
Typed ==
    /\ pc \in Busy \cup {"none", "idle"} /\ oom \in BOOLEAN
    /\ nb \in Nat /\ nb2 \in Nat /\ cap \in Nat /\ count \in Nat /\ growat \in Nat
    /\ Table(bkt, nb) /\ Table(tab2, nb2)
    /\ entry \in Bucket /\ r \in 0..nb /\ i \in Nat
    /\ pc \in {"none", "idle"} => i = 0
    /\ pc \in {"get", "set", "find", "shift"} => i \in 0..(nb - 1)
    /\ pc = "rehash" => i = 0
    /\ pc = "place" => i \in 0..(nb2 - 1) /\ r < nb
    /\ pc \notin {"rehash", "place"} => nb2 = 0 /\ r = 0

\* The sizes of the tables: no call finds a table full.
Sized ==
    /\ pc = "none" => nb = 0 /\ count = 0
    /\ pc # "none" => /\ nb > 0 /\ cap > 0 /\ loadfactor \in 50..95 /\ growpower \in 1..16
                      /\ growat < nb /\ count < nb
    /\ pc = "set" => count + 1 < nb
    /\ pc \in {"rehash", "place"} => count < nb2 /\ (call.op = "set" => count + 1 < nb2)

\* The call each loop works for, and what it began with.
Request == [op : {"get", "set", "delete"}, key : Key, val : Val \cup {NoVal}]
Calling ==
    /\ pc \in Busy => call \in Request /\ before \in [Key -> Val \cup {NoVal}]
    /\ pc = "get" => call.op = "get"
    /\ pc = "set" => call.op = "set"
    /\ pc \in {"find", "shift"} => call.op = "delete"
    /\ pc \in {"rehash", "place"} => call.op \in {"set", "delete"}
    /\ pc \in Busy /\ call.op = "set" => call.val \in Val
    /\ pc \in {"shift", "rehash", "place"} /\ call.op = "delete" => call.val = before[call.key]


\* The number of entries in the tables.
Moved == {x \in Occupied(bkt, nb) : x < r \/ (x = r /\ pc = "place")}
Counted ==
    /\ pc # "shift" => count = Cardinality(Occupied(bkt, nb))
    /\ pc = "shift" => count = Cardinality(Occupied(bkt, nb) \ {i}) + 1
    /\ pc = "rehash" => Cardinality(Occupied(tab2, nb2)) = Cardinality(Moved)
    /\ pc = "place" => Cardinality(Occupied(tab2, nb2)) + 1 = Cardinality(Moved)

\* The entry in flight and the probes.
Probing ==
    /\ pc \in {"get", "find"} =>
          \E d \in Nat \ {0} : Spot(call.key, d, nb) = i /\ NotPassed(bkt, nb, call.key, d)
    /\ pc = "set" =>
          /\ AtProbe(bkt, nb, entry, i)
          /\ entry.key = call.key => entry.val = call.val /\ NotPassed(bkt, nb, entry.key, entry.dib)
          /\ entry.key # call.key => before[call.key] = NoVal /\ ~Keeps(bkt, nb, entry.key)
    /\ pc = "place" => AtProbe(tab2, nb2, entry, i) /\ ~Keeps(tab2, nb2, entry.key)

\* The items of the table and the entry in flight are those of before, with what
\* the call has done.
Same ==
    /\ pc \in {"get", "find"} \/ (pc = "set" /\ entry.key = call.key)
          \/ (pc \in {"rehash", "place"} /\ call.op = "set") =>
          \A k \in Key, v \in Val : KeepsItem(bkt, nb, k, v) <=> before[k] = v
    /\ pc \in {"rehash", "place"} /\ call.op = "delete" =>
          \A k \in Key, v \in Val : KeepsItem(bkt, nb, k, v) <=> before[k] = v /\ k # call.key
    /\ pc = "shift" =>
          \A k \in Key, v \in Val : (\E x \in 0..(nb - 1) \ {i} : HasItem(bkt, x, k, v))
                                       <=> before[k] = v /\ k # call.key
    /\ pc = "set" /\ entry.key # call.key =>
          \A k \in Key, v \in Val : (KeepsItem(bkt, nb, k, v) \/ (entry.key = k /\ entry.val = v))
                                       <=> IF k = call.key THEN v = call.val ELSE before[k] = v
    /\ pc = "rehash" =>
          \A k \in Key, v \in Val : KeepsItem(tab2, nb2, k, v)
                                       <=> \E x \in Moved : HasItem(bkt, x, k, v)
    /\ pc = "place" =>
          \A k \in Key, v \in Val : (KeepsItem(tab2, nb2, k, v) \/ (entry.key = k /\ entry.val = v))
                                       <=> \E x \in Moved : HasItem(bkt, x, k, v)

IInv == Typed /\ Sized /\ Calling /\ TablesInOrder /\ Counted /\ Probing /\ Same
-----------------------------------------------------------------------------
\* Robin hood order, spelled out for the solvers.
InOrder(t, n) ==
    /\ \A x \in 0..(n - 1) : t[x].dib > 0 => Spot(t[x].key, t[x].dib, n) = x
    /\ \A x \in 0..(n - 1) : t[Nxt(x, n)].dib <= t[x].dib + 1
    /\ \A x, y \in 0..(n - 1) :
          t[x].dib > 0 /\ t[y].dib > 0 /\ t[x].key = t[y].key => x = y

LEMMA RobinHoodIs ==
    ASSUME NEW t, NEW n PROVE RobinHood(t, n) <=> InOrder(t, n)
<1>1. AtDistance(t, n) <=> \A x \in 0..(n - 1) : t[x].dib > 0 => Spot(t[x].key, t[x].dib, n) = x
  BY DEF AtDistance, Occupied, Spot
<1>2. Distinct(t, n) <=> \A x, y \in 0..(n - 1) :
          t[x].dib > 0 /\ t[y].dib > 0 /\ t[x].key = t[y].key => x = y
  BY DEF Distinct, Occupied
<1> QED BY <1>1, <1>2 DEF RobinHood, NoGap, InOrder

\* The buckets of a table are records of their fields.
LEMMA Cells ==
    ASSUME NEW n, NEW t, Table(t, n), NEW x \in 0..(n - 1)
    PROVE  /\ t[x] \in Bucket /\ t[x].dib \in Nat
           /\ t[x].dib > 0 => t[x] \in Item /\ t[x].key \in Key /\ t[x].val \in Val
<1>1. t[x] \in Bucket
  BY DEF Table
<1>2. t[x].dib \in Nat
  BY <1>1 DEF Bucket
<1>3. t[x].dib > 0 => t[x] \in Item
  BY DEF Table, Occupied
<1> QED BY <1>1, <1>2, <1>3 DEF Item

\* The bucket after another goes round the table and has one before it.
LEMMA NextBucket ==
    ASSUME NEW n \in Nat, NEW x \in 0..(n - 1)
    PROVE  /\ Nxt(x, n) \in 0..(n - 1)
           /\ \A y \in 0..(n - 1) : Nxt(y, n) = Nxt(x, n) => y = x
           /\ n > 1 => Nxt(x, n) # x
BY DEF Nxt

\* The first bucket of a probe is the home of its key, the next one is the next.
LEMMA Spots ==
    ASSUME NEW n \in Nat, n > 0, NEW k \in Key, NEW d \in Nat \ {0}
    PROVE  /\ Home(k, n) \in 0..(n - 1) /\ Spot(k, 1, n) = Home(k, n)
           /\ Spot(k, d, n) \in 0..(n - 1)
           /\ Spot(k, d + 1, n) = Nxt(Spot(k, d, n), n)
<1>1. HashOf[k] \in Nat
  BY HashAssumption
<1>2. Home(k, n) \in 0..(n - 1)
  BY <1>1, Euclid DEF Home
<1>3. Spot(k, 1, n) = Home(k, n)
  <2>1. Home(k, n) + 1 - 1 = Home(k, n) /\ Home(k, n) \in Int
    BY <1>2
  <2>2. Home(k, n) % n = Home(k, n)
    <3>1. Home(k, n) = n * 0 + Home(k, n)
      BY <1>2
    <3> QED BY <1>2, <2>1, <3>1, ModIs
  <2> QED BY <2>1, <2>2 DEF Spot
<1> DEFINE a == Home(k, n) + d - 1
<1>4. a \in Int /\ Home(k, n) + (d + 1) - 1 = a + 1
  BY <1>2
<1> HIDE DEF a
<1>5. a % n \in 0..(n - 1)
  BY <1>4, Euclid
<1>6. (a + 1) % n = Nxt(a % n, n)
  BY <1>4, ModNext DEF Nxt
<1>7. Spot(k, d, n) = a % n /\ Spot(k, d + 1, n) = (a + 1) % n
  BY <1>4 DEF Spot, a
<1> QED BY <1>2, <1>3, <1>5, <1>6, <1>7

\* The run of buckets from a key's home to its entry is full: the j-th of them is
\* at least j from home.
LEMMA RunFull ==
    ASSUME NEW n \in Nat, n > 0, NEW t, Table(t, n), InOrder(t, n), NEW k \in Key,
           NEW x \in 0..(n - 1), Has(t, x, k), NEW d \in 1..t[x].dib
    PROVE  d <= t[Spot(k, d, n)].dib
<1> DEFINE Bad == {j \in 1..t[x].dib : ~(j <= t[Spot(k, j, n)].dib)}
<1>0. t[x].dib \in Nat /\ t[x].dib > 0
  BY Cells DEF Has
<1> SUFFICES ASSUME Bad # {} PROVE FALSE
  OBVIOUS
<1>1. PICK m \in Bad : \A j \in Bad : j <= m
  <2>1. Bad \in SUBSET (0..t[x].dib)
    BY <1>0
  <2> HIDE DEF Bad
  <2> QED BY <1>0, <2>1, GreatestNatural
<1>2. m \in 1..t[x].dib /\ ~(m <= t[Spot(k, m, n)].dib)
  BY <1>1
<1>3. m + 1 \notin Bad
  BY <1>1, <1>2, <1>0
<1>4. Spot(k, t[x].dib, n) = x
  BY DEF Has, InOrder
<1>5. m < t[x].dib
  BY <1>0, <1>2, <1>4
<1>6. m + 1 <= t[Spot(k, m + 1, n)].dib
  BY <1>0, <1>2, <1>3, <1>5
<1>7. Spot(k, m, n) \in 0..(n - 1) /\ Spot(k, m + 1, n) = Nxt(Spot(k, m, n), n)
  BY <1>0, <1>2, Spots
<1>8. t[Nxt(Spot(k, m, n), n)].dib <= t[Spot(k, m, n)].dib + 1
  BY <1>7 DEF InOrder
<1>9. t[Spot(k, m, n)].dib \in Nat /\ t[Nxt(Spot(k, m, n), n)].dib \in Nat
  BY <1>7, NextBucket, Cells
<1> QED BY <1>0, <1>2, <1>6, <1>7, <1>8, <1>9

\* So a probe meets its key before an empty bucket, and before one that would
\* have to give way to it; and past another entry it still has its key ahead.
LEMMA ProbeMeets ==
    ASSUME NEW n \in Nat, n > 0, NEW t, Table(t, n), InOrder(t, n), NEW k \in Key,
           NEW d \in Nat \ {0}, NEW x, Spot(k, d, n) = x, NotPassed(t, n, k, d)
    PROVE  /\ Keeps(t, n, k) => d <= t[x].dib
           /\ ~Has(t, x, k) => NotPassed(t, n, k, d + 1)
<1>1. ASSUME NEW y \in 0..(n - 1), Has(t, y, k)
      PROVE  d \in 1..t[y].dib /\ t[y].dib \in Nat /\ Spot(k, t[y].dib, n) = y
  <2>1. t[y].dib \in Nat /\ d <= t[y].dib
    BY <1>1, Cells DEF NotPassed
  <2>2. Spot(k, t[y].dib, n) = y
    BY <1>1 DEF InOrder, Has
  <2> QED BY <2>1, <2>2
<1>2. Keeps(t, n, k) => d <= t[x].dib
  BY <1>1, RunFull DEF Keeps
<1>3. ASSUME ~Has(t, x, k), NEW y \in 0..(n - 1), Has(t, y, k) PROVE d + 1 <= t[y].dib
  <2>1. d # t[y].dib
    BY <1>1, <1>3
  <2> QED BY <1>1, <1>3, <2>1
<1> QED BY <1>2, <1>3 DEF NotPassed
-----------------------------------------------------------------------------
\* Entry e is written over bucket x: u is the table after it; and f is e, one
\* bucket further from its home.
Put(t, u, x, e) == u = [t EXCEPT ![x] = e]
Further(e, f) == f = [e EXCEPT !.dib = @ + 1]
Written(t, u, n, x, e) ==
    /\ x \in 0..(n - 1) /\ e \in Item
    /\ \A y \in 0..(n - 1) : u[y] = IF y = x THEN e ELSE t[y]

LEMMA WrittenIs ==
    ASSUME NEW n \in Nat, NEW t, Table(t, n), NEW x \in 0..(n - 1), NEW e \in Item,
           NEW u, Put(t, u, x, e)
    PROVE  Table(u, n) /\ Written(t, u, n, x, e)
<1>1. t \in [0..(n - 1) -> Bucket] /\ e \in Bucket
  BY DEF Table, Item, Bucket
<1>2. u \in [0..(n - 1) -> Bucket] /\ \A y \in 0..(n - 1) : u[y] = IF y = x THEN e ELSE t[y]
  BY <1>1 DEF Put
<1>3. \A y \in Occupied(u, n) : u[y] \in Item
  BY <1>2 DEF Occupied, Table
<1> QED BY <1>2, <1>3 DEF Table, Written

\* An item has a distance from home and belongs in a bucket.
LEMMA ItemParts ==
    ASSUME NEW e \in Item
    PROVE  e \in Bucket /\ e.dib \in Nat /\ e.dib > 0 /\ e.key \in Key /\ e.val \in Val
BY DEF Item, Bucket

\* One bucket further it is one further from home.
LEMMA FurtherIs ==
    ASSUME NEW e \in Item, NEW f, Further(e, f)
    PROVE  f \in Item /\ f.dib = e.dib + 1 /\ f.key = e.key /\ f.val = e.val
BY DEF Item, Further

\* The items of a table after one of its buckets was written over.
LEMMA WrittenKeeps ==
    ASSUME NEW n \in Nat, NEW t, NEW u, NEW x, NEW e, Written(t, u, n, x, e), NEW k, NEW v
    PROVE  KeepsItem(u, n, k, v) <=> \/ e.key = k /\ e.val = v
                                     \/ \E y \in 0..(n - 1) \ {x} : HasItem(t, y, k, v)
<1>1. e.dib > 0 /\ x \in 0..(n - 1)
  BY ItemParts DEF Written
<1> QED BY <1>1 DEF Written, KeepsItem, HasItem

\* An entry that comes to an empty bucket, and whose key is nowhere, is put there.
LEMMA PutEmpty ==
    ASSUME NEW n \in Nat, n > 0, NEW t, Table(t, n), InOrder(t, n),
           NEW e, NEW x, AtProbe(t, n, e, x), t[x].dib = 0, ~Keeps(t, n, e.key),
           NEW u, Put(t, u, x, e)
    PROVE  /\ Table(u, n) /\ InOrder(u, n)
           /\ Occupied(u, n) = Occupied(t, n) \cup {x} /\ x \notin Occupied(t, n)
           /\ \A k, v : KeepsItem(u, n, k, v) <=>
                           KeepsItem(t, n, k, v) \/ (e.key = k /\ e.val = v)
<1>1. /\ x \in 0..(n - 1) /\ e \in Item /\ Spot(e.key, e.dib, n) = x
      /\ \A p \in 0..(n - 1) : Nxt(p, n) = x => e.dib - 1 <= t[p].dib
  BY DEF AtProbe
<1>2. Table(u, n) /\ Written(t, u, n, x, e)
  BY <1>1, WrittenIs
<1>3. e.dib \in Nat /\ e.dib > 0
  BY <1>1, ItemParts
<1>4. \A y \in 0..(n - 1) : u[y] = IF y = x THEN e ELSE t[y]
  BY <1>2 DEF Written
<1>5. \A y \in 0..(n - 1) : t[y].dib \in Nat /\ Nxt(y, n) \in 0..(n - 1)
  BY Cells, NextBucket
<1>6. InOrder(u, n)
  <2>1. ASSUME NEW y \in 0..(n - 1), u[y].dib > 0 PROVE Spot(u[y].key, u[y].dib, n) = y
    BY <2>1, <1>1, <1>4 DEF InOrder
  <2>2. ASSUME NEW y \in 0..(n - 1) PROVE u[Nxt(y, n)].dib <= u[y].dib + 1
    <3>1. t[Nxt(y, n)].dib <= t[y].dib + 1
      BY DEF InOrder
    <3>2. Nxt(y, n) = x => e.dib - 1 <= t[y].dib
      BY <1>1
    <3>3. y = x => t[Nxt(y, n)].dib <= 1
      BY <3>1
    <3> QED BY <3>1, <3>2, <3>3, <1>3, <1>4, <1>5
  <2>3. ASSUME NEW y \in 0..(n - 1), NEW z \in 0..(n - 1),
               u[y].dib > 0, u[z].dib > 0, u[y].key = u[z].key
        PROVE  y = z
    BY <2>3, <1>4 DEF InOrder, Keeps, Has
  <2> QED BY <2>1, <2>2, <2>3 DEF InOrder
<1>7. Occupied(u, n) = Occupied(t, n) \cup {x} /\ x \notin Occupied(t, n)
  BY <1>1, <1>3, <1>4, <1>5 DEF Occupied
<1>8. ASSUME NEW k, NEW v
      PROVE  KeepsItem(u, n, k, v) <=> KeepsItem(t, n, k, v) \/ (e.key = k /\ e.val = v)
  <2>1. ~HasItem(t, x, k, v)
    BY DEF HasItem
  <2> QED BY <2>1, <1>1, <1>2, WrittenKeeps DEF KeepsItem
<1> QED BY <1>2, <1>6, <1>7, <1>8

\* An entry that comes to one closer to its home takes its place, and the other
\* goes on from there: its key is nowhere else.
LEMMA TakePlace ==
    ASSUME NEW n \in Nat, n > 0, NEW t, Table(t, n), InOrder(t, n),
           NEW e, NEW x, AtProbe(t, n, e, x), t[x].dib # 0, t[x].dib < e.dib,
           ~Keeps(t, n, e.key),
           NEW u, Put(t, u, x, e), NEW f, Further(t[x], f)
    PROVE  /\ Table(u, n) /\ InOrder(u, n) /\ AtProbe(u, n, f, Nxt(x, n))
           /\ ~Keeps(u, n, f.key) /\ f.key # e.key /\ Keeps(t, n, f.key)
           /\ Occupied(u, n) = Occupied(t, n)
           /\ \A k, v : KeepsItem(u, n, k, v) \/ (f.key = k /\ f.val = v) <=>
                           KeepsItem(t, n, k, v) \/ (e.key = k /\ e.val = v)
<1> DEFINE b == t[x]
<1>1. /\ x \in 0..(n - 1) /\ e \in Item /\ Spot(e.key, e.dib, n) = x
      /\ \A p \in 0..(n - 1) : Nxt(p, n) = x => e.dib - 1 <= t[p].dib
  BY DEF AtProbe
<1>2. Table(u, n) /\ Written(t, u, n, x, e)
  BY <1>1, WrittenIs
<1>3. /\ e.dib \in Nat /\ e.dib > 0 /\ b.dib \in Nat /\ b.dib > 0 /\ b.dib < e.dib
      /\ b \in Item
  <2>1. e.dib \in Nat /\ e.dib > 0
    BY <1>1, ItemParts
  <2>2. t[x].dib \in Nat /\ (t[x].dib > 0 => t[x] \in Item)
    BY <1>1, Cells
  <2> QED BY <2>1, <2>2
<1>4. f \in Item /\ f.dib = b.dib + 1 /\ f.key = b.key /\ f.val = b.val /\ b.key \in Key
  BY <1>3, ItemParts, FurtherIs
<1>5. \A y \in 0..(n - 1) : u[y] = IF y = x THEN e ELSE t[y]
  BY <1>2 DEF Written
<1>6. \A y \in 0..(n - 1) : t[y].dib \in Nat /\ Nxt(y, n) \in 0..(n - 1)
  BY Cells, NextBucket
<1>7. b.key # e.key
  BY <1>1, <1>3 DEF Keeps, Has
<1>8. InOrder(u, n)
  <2>1. ASSUME NEW y \in 0..(n - 1), u[y].dib > 0 PROVE Spot(u[y].key, u[y].dib, n) = y
    BY <2>1, <1>1, <1>5 DEF InOrder
  <2>2. ASSUME NEW y \in 0..(n - 1) PROVE u[Nxt(y, n)].dib <= u[y].dib + 1
    <3>1. t[Nxt(y, n)].dib <= t[y].dib + 1
      BY DEF InOrder
    <3>2. Nxt(y, n) = x => e.dib - 1 <= t[y].dib
      BY <1>1
    <3>3. y = x => t[Nxt(y, n)].dib <= b.dib + 1
      BY <3>1
    <3> QED BY <3>1, <3>2, <3>3, <1>3, <1>5, <1>6
  <2>3. ASSUME NEW y \in 0..(n - 1), NEW z \in 0..(n - 1),
               u[y].dib > 0, u[z].dib > 0, u[y].key = u[z].key
        PROVE  y = z
    BY <2>3, <1>5 DEF InOrder, Keeps, Has
  <2> QED BY <2>1, <2>2, <2>3 DEF InOrder
<1>9. AtProbe(u, n, f, Nxt(x, n))
  <2>1. Spot(b.key, b.dib, n) = x
    BY <1>1, <1>3 DEF InOrder
  <2>2. Spot(f.key, f.dib, n) = Nxt(x, n)
    BY <2>1, <1>3, <1>4, Spots
  <2>3. ASSUME NEW p \in 0..(n - 1), Nxt(p, n) = Nxt(x, n) PROVE f.dib - 1 <= u[p].dib
    <3>1. p = x
      BY <2>3, <1>1, NextBucket
    <3> QED BY <3>1, <1>1, <1>3, <1>4, <1>5
  <2> QED BY <2>2, <2>3, <1>1, <1>4, <1>6 DEF AtProbe
<1>10. ~Keeps(u, n, f.key)
  BY <1>1, <1>3, <1>4, <1>5, <1>7 DEF Keeps, Has, InOrder
<1>11. Occupied(u, n) = Occupied(t, n)
  BY <1>1, <1>3, <1>5, <1>6 DEF Occupied
<1>12. ASSUME NEW k, NEW v
       PROVE  KeepsItem(u, n, k, v) \/ (f.key = k /\ f.val = v) <=>
                 KeepsItem(t, n, k, v) \/ (e.key = k /\ e.val = v)
  <2>1. HasItem(t, x, k, v) <=> f.key = k /\ f.val = v
    BY <1>3, <1>4 DEF HasItem
  <2> QED BY <2>1, <1>1, <1>2, WrittenKeeps DEF KeepsItem
<1>13. Keeps(t, n, f.key)
  BY <1>1, <1>3, <1>4 DEF Keeps, Has
<1> QED BY <1>2, <1>4, <1>7, <1>8, <1>9, <1>10, <1>11, <1>12, <1>13

\* An entry that comes to one at least as far from its home goes on.
LEMMA GoOn ==
    ASSUME NEW n \in Nat, n > 0, NEW t, Table(t, n),
           NEW e, NEW x, AtProbe(t, n, e, x), ~(t[x].dib < e.dib),
           NEW f, Further(e, f)
    PROVE  AtProbe(t, n, f, Nxt(x, n))
<1>1. x \in 0..(n - 1) /\ e \in Item /\ Spot(e.key, e.dib, n) = x
  BY DEF AtProbe
<1>2. /\ e.dib \in Nat /\ e.dib > 0 /\ e.key \in Key /\ f \in Item
      /\ f.dib = e.dib + 1 /\ f.key = e.key
  BY <1>1, ItemParts, FurtherIs
<1>3. t[x].dib \in Nat
  BY <1>1, Cells
<1>4. Spot(f.key, f.dib, n) = Nxt(x, n)
  BY <1>1, <1>2, Spots
<1>5. ASSUME NEW p \in 0..(n - 1), Nxt(p, n) = Nxt(x, n) PROVE f.dib - 1 <= t[p].dib
  <2>1. p = x
    BY <1>1, <1>5, NextBucket
  <2> QED BY <2>1, <1>2, <1>3
<1>6. Nxt(x, n) \in 0..(n - 1)
  BY <1>1, NextBucket
<1> QED BY <1>2, <1>4, <1>5, <1>6 DEF AtProbe

\* A probe begins at the home of its key.
LEMMA StartProbe ==
    ASSUME NEW n \in Nat, n > 0, NEW t, Table(t, n), NEW e \in Item, e.dib = 1
    PROVE  AtProbe(t, n, e, Home(e.key, n)) /\ NotPassed(t, n, e.key, 1)
<1>1. e.key \in Key
  BY ItemParts
<1>2. Home(e.key, n) \in 0..(n - 1) /\ Spot(e.key, 1, n) = Home(e.key, n)
  BY <1>1, Spots
<1>3. \A p \in 0..(n - 1) : t[p].dib \in Nat
  BY Cells
<1> QED BY <1>2, <1>3 DEF AtProbe, NotPassed, Has

\* A set of a key that is there writes its item over the old one.
LEMMA OverWrite ==
    ASSUME NEW n \in Nat, NEW t, Table(t, n), InOrder(t, n),
           NEW x \in 0..(n - 1), t[x].dib # 0, NEW v \in Val,
           NEW u, Put(t, u, x, [t[x] EXCEPT !.val = v])
    PROVE  /\ Table(u, n) /\ InOrder(u, n) /\ Occupied(u, n) = Occupied(t, n)
           /\ \A k, w : KeepsItem(u, n, k, w) <=>
                           IF k = t[x].key THEN w = v ELSE KeepsItem(t, n, k, w)
<1> DEFINE e == [t[x] EXCEPT !.val = v]
<1>1. t[x] \in Item /\ t[x].dib > 0
  <2>1. t[x].dib \in Nat /\ (t[x].dib > 0 => t[x] \in Item)
    BY Cells
  <2> QED BY <2>1
<1>2. e \in Item /\ e.dib = t[x].dib /\ e.key = t[x].key /\ e.val = v
  BY <1>1 DEF Item
<1>3. Put(t, u, x, e)
  OBVIOUS
<1> HIDE DEF e
<1>4. Table(u, n) /\ Written(t, u, n, x, e)
  BY <1>2, <1>3, WrittenIs
<1>5. \A y \in 0..(n - 1) : u[y] = IF y = x THEN e ELSE t[y]
  BY <1>4 DEF Written
<1>6. \A y \in 0..(n - 1) : u[y].dib = t[y].dib /\ u[y].key = t[y].key
  BY <1>2, <1>5
<1>7. InOrder(u, n)
  BY <1>6, NextBucket DEF InOrder
<1>8. Occupied(u, n) = Occupied(t, n)
  BY <1>6 DEF Occupied
<1>9. ASSUME NEW k, NEW w
      PROVE  KeepsItem(u, n, k, w) <=> IF k = t[x].key THEN w = v ELSE KeepsItem(t, n, k, w)
  <2>1. KeepsItem(u, n, k, w) <=> \/ e.key = k /\ e.val = w
                                  \/ \E y \in 0..(n - 1) \ {x} : HasItem(t, y, k, w)
    BY <1>4, WrittenKeeps
  <2>2. CASE k = t[x].key
    <3>1. \A y \in 0..(n - 1) \ {x} : ~HasItem(t, y, k, w)
      BY <1>1, <2>2 DEF HasItem, InOrder
    <3> QED BY <2>1, <2>2, <3>1, <1>2
  <2>3. CASE k # t[x].key
    <3>1. ~HasItem(t, x, k, w)
      BY <2>3 DEF HasItem
    <3> QED BY <2>1, <2>3, <3>1, <1>2 DEF KeepsItem
  <2> QED BY <2>2, <2>3
<1> QED BY <1>4, <1>7, <1>8, <1>9

\* An empty table is in order, and there is nothing in it.
LEMMA EmptyIs ==
    ASSUME NEW n \in Nat
    PROVE  /\ Table(EmptyTable(n), n) /\ InOrder(EmptyTable(n), n)
           /\ Occupied(EmptyTable(n), n) = {}
           /\ \A k : ~Keeps(EmptyTable(n), n, k)
           /\ \A k, v : ~KeepsItem(EmptyTable(n), n, k, v)
           /\ Cardinality(Occupied(EmptyTable(n), n)) = 0
<1> DEFINE t == EmptyTable(n)
<1>1. Empty \in Bucket /\ Empty.dib = 0
  BY DEF Empty, Bucket
<1>2. t \in [0..(n - 1) -> Bucket] /\ \A x \in 0..(n - 1) : t[x].dib = 0
  BY <1>1 DEF EmptyTable
<1> HIDE DEF t
<1>3. Occupied(t, n) = {}
  BY <1>2 DEF Occupied
<1>4. Table(t, n)
  BY <1>2, <1>3 DEF Table
<1>5. InOrder(t, n)
  <2>1. \A x \in 0..(n - 1) : t[Nxt(x, n)].dib = 0 /\ t[x].dib = 0
    BY <1>2, NextBucket
  <2> QED BY <2>1 DEF InOrder
<1>6. \A k, v : ~Keeps(t, n, k) /\ ~KeepsItem(t, n, k, v)
  BY <1>2 DEF Keeps, KeepsItem, Has, HasItem
<1>7. Cardinality(Occupied(t, n)) = 0
  BY <1>3, FS_EmptySet
<1> QED BY <1>3, <1>4, <1>5, <1>6, <1>7 DEF t

\* The buckets of a table that hold an entry can be counted.
LEMMA CountOccupied ==
    ASSUME NEW n \in Nat, NEW t
    PROVE  /\ IsFiniteSet(Occupied(t, n)) /\ Occupied(t, n) \subseteq 0..(n - 1)
           /\ Cardinality(Occupied(t, n)) \in Nat
           /\ \A x : /\ x \notin Occupied(t, n) =>
                           Cardinality(Occupied(t, n) \cup {x}) = Cardinality(Occupied(t, n)) + 1
                     /\ x \in Occupied(t, n) =>
                           Cardinality(Occupied(t, n) \ {x}) = Cardinality(Occupied(t, n)) - 1
<1>1. IsFiniteSet(0..(n - 1))
  <2>1. 0 \in Int /\ n - 1 \in Int
    OBVIOUS
  <2> QED BY <2>1, FS_Interval
<1>2. Occupied(t, n) \subseteq 0..(n - 1)
  BY DEF Occupied
<1>3. IsFiniteSet(Occupied(t, n))
  BY <1>1, <1>2, FS_Subset
<1>4. Cardinality(Occupied(t, n)) \in Nat
  BY <1>3, FS_CardinalityType
<1> QED BY <1>2, <1>3, <1>4, FS_AddElement, FS_RemoveElement
-----------------------------------------------------------------------------
\* The hole that hashmap_delete makes.
Emptied(t, u, n, x) ==
    \A k, v : (\E y \in 0..(n - 1) \ {x} : HasItem(u, y, k, v)) <=>
                  KeepsItem(t, n, k, v) /\ k # t[x].key

LEMMA HoleMade ==
    ASSUME NEW n \in Nat, NEW t, Table(t, n), InOrder(t, n),
           NEW x \in 0..(n - 1), t[x].dib # 0,
           NEW u, Put(t, u, x, [t[x] EXCEPT !.dib = 0])
    PROVE  /\ Table(u, n) /\ Holed(u, n, x)
           /\ Occupied(u, n) \ {x} = Occupied(t, n) \ {x} /\ x \in Occupied(t, n)
           /\ Emptied(t, u, n, x)
<1> DEFINE b == [t[x] EXCEPT !.dib = 0]
<1>1. t[x].dib \in Nat /\ t[x].dib > 0 /\ t[x] \in Bucket /\ t \in [0..(n - 1) -> Bucket]
  <2>1. t[x].dib \in Nat /\ t[x] \in Bucket
    BY Cells
  <2> QED BY <2>1 DEF Table
<1>2. b \in Bucket /\ b.dib = 0
  BY <1>1 DEF Bucket
<1>3. Put(t, u, x, b)
  OBVIOUS
<1> HIDE DEF b
<1>4. u \in [0..(n - 1) -> Bucket] /\ \A y \in 0..(n - 1) : u[y] = IF y = x THEN b ELSE t[y]
  BY <1>1, <1>2, <1>3 DEF Put
<1>5. \A y \in Occupied(u, n) : u[y] \in Item
  BY <1>2, <1>4 DEF Occupied, Table
<1>6. \A y \in 0..(n - 1) : t[y].dib \in Nat /\ Nxt(y, n) \in 0..(n - 1)
  BY Cells, NextBucket
<1>7. Holed(u, n, x)
  <2>1. \A y \in 0..(n - 1) \ {x} : u[y].dib > 0 => Spot(u[y].key, u[y].dib, n) = y
    BY <1>4 DEF InOrder
  <2>2. ASSUME NEW y \in 0..(n - 1), y # x, Nxt(y, n) # x
        PROVE  u[Nxt(y, n)].dib <= u[y].dib + 1
    BY <2>2, <1>4, <1>6 DEF InOrder
  <2>3. ASSUME NEW y \in 0..(n - 1), Nxt(y, n) = x
        PROVE  u[Nxt(x, n)].dib <= u[y].dib + 2
    <3>1. t[x].dib <= t[y].dib + 1 /\ t[Nxt(x, n)].dib <= t[x].dib + 1
      BY <2>3 DEF InOrder
    <3>2. y = x => Nxt(x, n) = x
      BY <2>3
    <3>3. CASE Nxt(x, n) = x
      <4>1. u[Nxt(x, n)].dib = 0
        BY <3>3, <1>2, <1>4
      <4>2. u[y].dib \in Nat
        <5>1. y = x => u[y].dib = 0
          BY <1>2, <1>4
        <5>2. y # x => u[y].dib = t[y].dib
          BY <1>4
        <5> QED BY <5>1, <5>2, <1>6
      <4> QED BY <4>1, <4>2
    <3>4. CASE Nxt(x, n) # x
      <4>1. u[Nxt(x, n)] = t[Nxt(x, n)] /\ u[y] = t[y]
        BY <3>2, <3>4, <1>4, <1>6
      <4> QED BY <4>1, <3>1, <1>6
    <3> QED BY <3>3, <3>4
  <2>4. ASSUME NEW y \in 0..(n - 1) \ {x}, NEW z \in 0..(n - 1) \ {x},
               u[y].dib > 0, u[z].dib > 0, u[y].key = u[z].key
        PROVE  y = z
    BY <2>4, <1>4 DEF InOrder
  <2> QED BY <2>1, <2>2, <2>3, <2>4 DEF Holed
<1>8. Occupied(u, n) \ {x} = Occupied(t, n) \ {x} /\ x \in Occupied(t, n)
  BY <1>1, <1>4 DEF Occupied
<1>9. ASSUME NEW k, NEW v
      PROVE  (\E y \in 0..(n - 1) \ {x} : HasItem(u, y, k, v)) <=>
                KeepsItem(t, n, k, v) /\ k # t[x].key
  BY <1>1, <1>4 DEF HasItem, KeepsItem, InOrder
<1>10. Emptied(t, u, n, x)
  BY <1>9 DEF Emptied
<1> QED BY <1>4, <1>5, <1>7, <1>8, <1>10 DEF Table

\* A turn of the backward shift: the entry after the hole moves into it, and
\* leaves a hole where it was.
LEMMA HoleMoves ==
    ASSUME NEW n \in Nat, n > 1, NEW t, Table(t, n), NEW x, Holed(t, n, x),
           NEW y, y = Nxt(x, n), t[y].dib > 1,
           NEW u, Put(t, u, x, [t[y] EXCEPT !.dib = @ - 1])
    PROVE  /\ Table(u, n) /\ Holed(u, n, y)
           /\ Occupied(u, n) \ {y} = ((Occupied(t, n) \ {x}) \ {y}) \cup {x}
           /\ y \in Occupied(t, n) \ {x}
           /\ \A k, v : (\E z \in 0..(n - 1) \ {y} : HasItem(u, z, k, v)) <=>
                           \E z \in 0..(n - 1) \ {x} : HasItem(t, z, k, v)
<1> DEFINE b == [t[y] EXCEPT !.dib = @ - 1]
<1>1. x \in 0..(n - 1) /\ y \in 0..(n - 1) /\ y # x
  BY NextBucket DEF Holed
<1>2. t[y].dib \in Nat /\ t[y] \in Item /\ t[y].key \in Key
  <2>1. t[y].dib \in Nat /\ (t[y].dib > 0 => t[y] \in Item /\ t[y].key \in Key)
    BY <1>1, Cells
  <2> QED BY <2>1
<1>3. b \in Item /\ b.dib = t[y].dib - 1 /\ b.key = t[y].key /\ b.val = t[y].val
  BY <1>2 DEF Item
<1>0. Put(t, u, x, b)
  OBVIOUS
<1> HIDE DEF b
<1>4. Table(u, n) /\ Written(t, u, n, x, b)
  BY <1>0, <1>1, <1>3, WrittenIs
<1>5. \A z \in 0..(n - 1) : u[z] = IF z = x THEN b ELSE t[z]
  BY <1>4 DEF Written
<1>6. \A z \in 0..(n - 1) : t[z].dib \in Nat /\ Nxt(z, n) \in 0..(n - 1)
  BY Cells, NextBucket
<1>7. b.dib > 0 /\ b.dib \in Nat
  BY <1>2, <1>3
<1>8. Spot(b.key, b.dib, n) = x
  <2>1. Spot(t[y].key, t[y].dib, n) = y
    BY <1>1, <1>2 DEF Holed
  <2>2. /\ Spot(b.key, b.dib, n) \in 0..(n - 1)
        /\ Spot(b.key, b.dib + 1, n) = Nxt(Spot(b.key, b.dib, n), n)
    BY <1>2, <1>3, <1>7, Spots
  <2>3. b.dib + 1 = t[y].dib
    BY <1>2, <1>3
  <2> QED BY <2>1, <2>2, <2>3, <1>1, <1>3, NextBucket
<1>9. Holed(u, n, y)
  <2>1. ASSUME NEW z \in 0..(n - 1) \ {y}, u[z].dib > 0 PROVE Spot(u[z].key, u[z].dib, n) = z
    BY <2>1, <1>5, <1>8 DEF Holed
  <2>2. ASSUME NEW z \in 0..(n - 1), z # y, Nxt(z, n) # y
        PROVE  u[Nxt(z, n)].dib <= u[z].dib + 1
    <3>1. z # x
      BY <2>2
    <3>2. CASE Nxt(z, n) = x
      <4>1. t[y].dib <= t[z].dib + 2
        BY <3>2 DEF Holed
      <4> QED BY <4>1, <3>1, <3>2, <1>2, <1>3, <1>5, <1>6
    <3>3. CASE Nxt(z, n) # x
      <4>1. t[Nxt(z, n)].dib <= t[z].dib + 1
        BY <3>1, <3>3 DEF Holed
      <4> QED BY <4>1, <3>1, <3>3, <1>5, <1>6
    <3> QED BY <3>2, <3>3
  <2>3. ASSUME NEW z \in 0..(n - 1), Nxt(z, n) = y PROVE u[Nxt(y, n)].dib <= u[z].dib + 2
    <3>1. z = x
      BY <2>3, <1>1, NextBucket
    <3>2. CASE Nxt(y, n) = x
      BY <3>1, <3>2, <1>1, <1>5, <1>7
    <3>3. CASE Nxt(y, n) # x
      <4>1. t[Nxt(y, n)].dib <= t[y].dib + 1
        BY <1>1, <3>3 DEF Holed
      <4> QED BY <4>1, <3>1, <3>3, <1>1, <1>2, <1>3, <1>5, <1>6
    <3> QED BY <3>2, <3>3
  <2>4. ASSUME NEW z \in 0..(n - 1) \ {y}, NEW w \in 0..(n - 1) \ {y},
               u[z].dib > 0, u[w].dib > 0, u[z].key = u[w].key
        PROVE  z = w
    BY <2>4, <1>1, <1>2, <1>3, <1>5 DEF Holed
  <2> QED BY <1>1, <2>1, <2>2, <2>3, <2>4 DEF Holed
<1>10. /\ Occupied(u, n) \ {y} = ((Occupied(t, n) \ {x}) \ {y}) \cup {x}
       /\ y \in Occupied(t, n) \ {x}
  BY <1>1, <1>2, <1>5, <1>7 DEF Occupied
<1>11. ASSUME NEW k, NEW v
       PROVE  (\E z \in 0..(n - 1) \ {y} : HasItem(u, z, k, v)) <=>
                 \E z \in 0..(n - 1) \ {x} : HasItem(t, z, k, v)
  <2>1. HasItem(u, x, k, v) <=> HasItem(t, y, k, v)
    BY <1>1, <1>2, <1>3, <1>5, <1>7 DEF HasItem
  <2>2. \A z \in 0..(n - 1) \ {x} : HasItem(u, z, k, v) <=> HasItem(t, z, k, v)
    BY <1>5 DEF HasItem
  <2> QED BY <2>1, <2>2, <1>1
<1> QED BY <1>4, <1>9, <1>10, <1>11

\* The end of the shift closes the hole: the table is in order again.
LEMMA HoleCloses ==
    ASSUME NEW n \in Nat, NEW t, Table(t, n), NEW x, Holed(t, n, x),
           t[Nxt(x, n)].dib <= 1,
           NEW u, Put(t, u, x, Empty)
    PROVE  /\ Table(u, n) /\ InOrder(u, n)
           /\ Occupied(u, n) = Occupied(t, n) \ {x}
           /\ \A k, v : KeepsItem(u, n, k, v) <=>
                           \E z \in 0..(n - 1) \ {x} : HasItem(t, z, k, v)
<1>1. x \in 0..(n - 1) /\ Empty \in Bucket /\ Empty.dib = 0
  BY DEF Holed, Empty, Bucket
<1>2. u \in [0..(n - 1) -> Bucket] /\ \A y \in 0..(n - 1) : u[y] = IF y = x THEN Empty ELSE t[y]
  BY <1>1 DEF Table, Put
<1>3. \A y \in Occupied(u, n) : u[y] \in Item
  BY <1>1, <1>2 DEF Occupied, Table
<1>4. \A y \in 0..(n - 1) : t[y].dib \in Nat /\ Nxt(y, n) \in 0..(n - 1)
  BY Cells, NextBucket
<1>5. InOrder(u, n)
  <2>1. ASSUME NEW y \in 0..(n - 1), u[y].dib > 0 PROVE Spot(u[y].key, u[y].dib, n) = y
    BY <2>1, <1>1, <1>2 DEF Holed
  <2>2. ASSUME NEW y \in 0..(n - 1) PROVE u[Nxt(y, n)].dib <= u[y].dib + 1
    <3>1. CASE Nxt(y, n) = x
      BY <3>1, <1>1, <1>2, <1>4
    <3>2. CASE Nxt(y, n) # x /\ y = x
      <4>1. u[Nxt(y, n)] = t[Nxt(x, n)] /\ u[y].dib = 0
        BY <3>2, <1>1, <1>2, <1>4
      <4> QED BY <4>1, <1>1, <1>4
    <3>3. CASE Nxt(y, n) # x /\ y # x
      BY <3>3, <1>2, <1>4 DEF Holed
    <3> QED BY <3>1, <3>2, <3>3
  <2>3. ASSUME NEW y \in 0..(n - 1), NEW z \in 0..(n - 1),
               u[y].dib > 0, u[z].dib > 0, u[y].key = u[z].key
        PROVE  y = z
    BY <2>3, <1>1, <1>2 DEF Holed
  <2> QED BY <2>1, <2>2, <2>3 DEF InOrder
<1>6. Occupied(u, n) = Occupied(t, n) \ {x}
  BY <1>1, <1>2 DEF Occupied
<1>7. ASSUME NEW k, NEW v
      PROVE  KeepsItem(u, n, k, v) <=> \E z \in 0..(n - 1) \ {x} : HasItem(t, z, k, v)
  BY <1>1, <1>2 DEF KeepsItem, HasItem
<1> QED BY <1>2, <1>3, <1>5, <1>6, <1>7 DEF Table
-----------------------------------------------------------------------------
\* 1 << p satisfies the equation it is defined by.
LEMMA Pow2Recursion ==
    /\ Pow2[0] = 1
    /\ \A p \in Nat \ {0} : Pow2[p] = 2 * Pow2[p - 1]
<1> DEFINE G == [p \in Nat |-> [f \in [Nat -> Nat] |-> IF p = 0 THEN 1 ELSE 2 * f[p - 1]]]
           height == [p \in Nat |-> p]
           Total(f) == f = [p \in Nat |-> IF p = 0 THEN 1 ELSE 2 * f[p - 1]]
<1>1. LooksBelow(Nat, Nat, height, G)
  <2>1. ASSUME NEW p \in Nat, NEW f \in [Nat -> Nat]
        PROVE  (IF p = 0 THEN 1 ELSE 2 * f[p - 1]) \in Nat
    <3>1. p # 0 => p - 1 \in Nat
      OBVIOUS
    <3> QED BY <3>1
  <2>2. G \in [Nat -> [[Nat -> Nat] -> Nat]] /\ height \in [Nat -> Nat]
    BY <2>1
  <2>3. ASSUME NEW p \in Nat, NEW f \in [Nat -> Nat], NEW h \in [Nat -> Nat],
               \A q \in Nat : height[q] < height[p] => f[q] = h[q]
        PROVE  G[p][f] = G[p][h]
    <3>1. p # 0 => p - 1 \in Nat /\ p - 1 < p
      OBVIOUS
    <3> QED BY <2>3, <3>1
  <2> QED BY <2>2, <2>3 DEF LooksBelow
<1>2. PICK f \in [Nat -> Nat] : \A p \in Nat : f[p] = G[p][f]
  <2>1. \E f : Recursive(Nat, Nat, G, f)
    <3> HIDE DEF G, height
    <3> QED BY <1>1, TreeRecursion, Zenon
  <2> QED BY <2>1 DEF Recursive
<1>3. Total(f)
  BY <1>2
<1>4. Total(CHOOSE h : Total(h))
  <2> HIDE DEF Total
  <2> QED BY <1>3
<1>5. Total(Pow2)
  BY <1>4 DEF Pow2
<1> QED BY <1>5

\* It is a natural, more than p, and even if p is not zero.
LEMMA Pow2Grows ==
    ASSUME NEW p \in Nat PROVE Pow2[p] \in Nat /\ Pow2[p] > p
<1> DEFINE Bad == {q \in Nat : ~(Pow2[q] \in Nat /\ Pow2[q] > q)}
<1> SUFFICES ASSUME Bad # {} PROVE FALSE
  OBVIOUS
<1>1. PICK m \in Bad : \A q \in Bad : m <= q
  <2>1. Bad \in SUBSET Nat
    OBVIOUS
  <2> HIDE DEF Bad
  <2> QED BY <2>1, LeastNatural
<1>2. m \in Nat /\ ~(Pow2[m] \in Nat /\ Pow2[m] > m)
  BY <1>1
<1>3. CASE m = 0
  BY <1>2, <1>3, Pow2Recursion
<1>4. CASE m # 0
  <2>1. m - 1 \in Nat /\ m - 1 \notin Bad
    BY <1>1, <1>2, <1>4
  <2>2. Pow2[m - 1] \in Nat /\ Pow2[m - 1] > m - 1
    BY <2>1
  <2>3. Pow2[m] = 2 * Pow2[m - 1]
    BY <1>2, <1>4, Pow2Recursion
  <2> QED BY <1>2, <1>4, <2>2, <2>3
<1> QED BY <1>3, <1>4

\* hashmap_new rounds any capacity up to a size that is at least that.
LEMMA CapForIs ==
    ASSUME NEW c \in Nat PROVE CapFor(c) \in Nat /\ CapFor(c) > 0 /\ CapFor(c) >= c
<1> DEFINE Sizes == {MinCap * Pow2[j] : j \in 0..c}
           Enough == {n \in Sizes : n >= c}
<1>1. MinCap \in Nat /\ MinCap >= 1
  BY SizeAssumption
<1>2. ASSUME NEW j \in 0..c PROVE MinCap * Pow2[j] \in Nat /\ MinCap * Pow2[j] >= Pow2[j] /\ MinCap * Pow2[j] > 0
  <2>1. Pow2[j] \in Nat /\ Pow2[j] > 0
    BY Pow2Grows
  <2>2. Pow2[j] * MinCap >= Pow2[j] /\ Pow2[j] * MinCap \in Int
    BY <2>1, <1>1, Products
  <2>3. Pow2[j] * MinCap = MinCap * Pow2[j]
    BY <2>1, <1>1
  <2> QED BY <2>1, <2>2, <2>3
<1>3. Enough \in SUBSET Nat /\ Enough # {}
  <2>1. \A n \in Sizes : n \in Nat
    BY <1>2
  <2>2. c \in 0..c /\ MinCap * Pow2[c] \in Sizes
    OBVIOUS
  <2>3. MinCap * Pow2[c] >= c
    BY <1>2, <2>2, Pow2Grows
  <2> QED BY <2>1, <2>2, <2>3
<1>4. PICK m \in Enough : \A n \in Enough : m <= n
  <2> HIDE DEF Enough
  <2> QED BY <1>3, LeastNatural
<1> DEFINE Least(n) == n >= c /\ \A j \in 0..c : MinCap * Pow2[j] >= c => n <= MinCap * Pow2[j]
<1>5. m \in Sizes /\ Least(m)
  BY <1>4
<1>6. CapFor(c) \in Sizes /\ Least(CapFor(c))
  <2>1. CapFor(c) = CHOOSE n \in Sizes : Least(n)
    BY DEF CapFor
  <2> HIDE DEF Sizes, Least
  <2> QED BY <1>5, <2>1
<1> QED BY <1>2, <1>6

\* The sizes at which a table grows and shrinks: below it, and for one that may
\* be halved below its half.
LEMMA Loads ==
    ASSUME NEW n \in Nat, n > 0
    PROVE  /\ \A p \in 0..95 : GrowAt(n, p) \in Nat /\ GrowAt(n, p) < n
           /\ n > 1 => n \div 2 \in Nat /\ n \div 2 > 0 /\ ShrinkAt(n) \in Nat /\ ShrinkAt(n) < n \div 2
<1>1. ASSUME NEW p \in 0..95 PROVE GrowAt(n, p) \in Nat /\ GrowAt(n, p) < n
  BY DEF GrowAt, Percent
<1>2. ASSUME n > 1
      PROVE  n \div 2 \in Nat /\ n \div 2 > 0 /\ ShrinkAt(n) \in Nat /\ ShrinkAt(n) < n \div 2
  <2>1. ShrinkPct \in 0..33
    BY SizeAssumption
  <2>2. (n * ShrinkPct) \div 100 \in Nat /\ (n * ShrinkPct) \div 100 < n \div 2
    BY <1>2, <2>1
  <2> QED BY <1>2, <2>2 DEF ShrinkAt, Percent
<1> QED BY <1>1, <1>2

\* What is asked of the map is clamped.
LEMMA Clamps ==
    ASSUME NEW f \in Nat PROVE Clamp(f) \in 50..95
BY DEF Clamp
-----------------------------------------------------------------------------
\* ItemsOf is the map from keys to items that a table in order stands for.
LEMMA ItemsAre ==
    ASSUME NEW n \in Nat, NEW t, Table(t, n), InOrder(t, n)
    PROVE  /\ ItemsOf(t, n) \in [Key -> Val \cup {NoVal}]
           /\ \A k \in Key, v \in Val : KeepsItem(t, n, k, v) <=> ItemsOf(t, n)[k] = v
<1>1. ASSUME NEW k \in Key, NEW x \in 0..(n - 1), Has(t, x, k)
      PROVE  ItemsOf(t, n)[k] = t[x].val /\ t[x].val \in Val
  <2>1. x \in Occupied(t, n) /\ t[x].key = k
    BY <1>1 DEF Has, Occupied
  <2>2. \A y \in Occupied(t, n) : t[y].key = k => y = x
    BY <1>1 DEF Has, Occupied, InOrder
  <2>3. (CHOOSE y \in Occupied(t, n) : t[y].key = k) = x
    BY <2>1, <2>2
  <2>4. ItemsOf(t, n)[k] = t[x].val
    BY <2>1, <2>3 DEF ItemsOf
  <2> QED BY <2>4, <1>1, Cells DEF Has
<1>2. ASSUME NEW k \in Key, \A x \in 0..(n - 1) : ~Has(t, x, k) PROVE ItemsOf(t, n)[k] = NoVal
  <2>1. ~ \E x \in Occupied(t, n) : t[x].key = k
    BY <1>2 DEF Has, Occupied
  <2> QED BY <2>1 DEF ItemsOf
<1>3. \A k \in Key : ItemsOf(t, n)[k] \in Val \cup {NoVal}
  BY <1>1, <1>2
<1>4. ItemsOf(t, n) \in [Key -> Val \cup {NoVal}]
  <2>1. ItemsOf(t, n) = [k \in Key |-> ItemsOf(t, n)[k]]
    BY DEF ItemsOf
  <2> QED BY <2>1, <1>3
<1>5. ASSUME NEW k \in Key, NEW v \in Val PROVE KeepsItem(t, n, k, v) <=> ItemsOf(t, n)[k] = v
  <2>1. v # NoVal
    BY NoKeyAssumption
  <2>2. ASSUME KeepsItem(t, n, k, v) PROVE ItemsOf(t, n)[k] = v
    BY <2>2, <1>1 DEF KeepsItem, HasItem, Has
  <2>3. ASSUME ItemsOf(t, n)[k] = v PROVE KeepsItem(t, n, k, v)
    BY <2>1, <2>3, <1>1, <1>2 DEF KeepsItem, HasItem, Has
  <2> QED BY <2>2, <2>3
<1> QED BY <1>4, <1>5

\* Two maps from keys to items are the same if they have the same items.
LEMMA SameMap ==
    ASSUME NEW f \in [Key -> Val \cup {NoVal}], NEW h \in [Key -> Val \cup {NoVal}],
           \A k \in Key, v \in Val : f[k] = v <=> h[k] = v
    PROVE  f = h
<1>1. ASSUME NEW k \in Key PROVE f[k] = h[k]
  <2>1. f[k] \in Val \cup {NoVal} /\ h[k] \in Val \cup {NoVal}
    OBVIOUS
  <2>2. CASE f[k] \in Val
    BY <2>2
  <2>3. CASE h[k] \in Val
    BY <2>3
  <2> QED BY <2>1, <2>2, <2>3
<1> QED BY <1>1

\* A key has an item exactly if its map says so.
LEMMA KeepsIs ==
    ASSUME NEW n \in Nat, NEW t, Table(t, n), NEW k
    PROVE  Keeps(t, n, k) <=> \E v \in Val : KeepsItem(t, n, k, v)
<1>1. \A x \in 0..(n - 1) : t[x].dib > 0 => t[x].val \in Val
  BY Cells
<1> QED BY <1>1 DEF Keeps, KeepsItem, Has, HasItem
-----------------------------------------------------------------------------
\* The order of the tables, spelled out.
LEMMA OrderIs ==
    ASSUME TablesInOrder
    PROVE  (pc # "shift" => InOrder(bkt, nb)) /\ InOrder(tab2, nb2)
BY RobinHoodIs DEF TablesInOrder

\* Between two calls only the table matters.
LEMMA Settled ==
    ASSUME pc' \in {"none", "idle"}, Typed', Sized', InOrder(bkt', nb'), InOrder(tab2', nb2'),
           count' = Cardinality(Occupied(bkt', nb'))
    PROVE  IInv'
<1>1. TablesInOrder'
  BY RobinHoodIs DEF TablesInOrder
<1>2. Calling' /\ Probing' /\ Same'
  BY DEF Calling, Probing, Same, Busy
<1>3. Counted'
  BY DEF Counted
<1> QED BY <1>1, <1>2, <1>3 DEF IInv

\* No map.
LEMMA NoMap ==
    ASSUME pc' = "none", bkt' = NoTable, nb' = 0, cap' = 0, count' = 0, growat' = 0,
           oom' = FALSE, i' = 0, nb2' = 0, r' = 0, tab2' = NoTable, entry' \in Bucket
    PROVE  IInv'
<1>1. /\ Table(NoTable, 0) /\ InOrder(NoTable, 0)
      /\ Cardinality(Occupied(NoTable, 0)) = 0
  BY EmptyIs DEF NoTable
<1>0. oom' \in BOOLEAN
  OBVIOUS
<1>2. Typed'
  <2>1. Table(bkt', nb') /\ Table(tab2', nb2')
    BY <1>1
  <2> QED BY <1>0, <2>1 DEF Typed
<1>3. Sized'
  BY DEF Sized
<1> QED BY <1>1, <1>2, <1>3, Settled

LEMMA InitInv ==
    ASSUME Init PROVE IInv
<1>1. /\ Table(NoTable, 0) /\ InOrder(NoTable, 0)
      /\ Cardinality(Occupied(NoTable, 0)) = 0
  BY EmptyIs DEF NoTable
<1>2. Empty \in Bucket
  BY DEF Empty, Bucket
<1>0. oom \in BOOLEAN
  BY DEF Init
<1>3. Typed
  <2>1. Table(bkt, nb) /\ Table(tab2, nb2)
    BY <1>1 DEF Init
  <2> QED BY <1>0, <1>2, <2>1 DEF Typed, Init
<1>4. Sized
  BY DEF Sized, Init
<1>5. TablesInOrder
  BY <1>1, RobinHoodIs DEF TablesInOrder, Init
<1>6. Calling /\ Probing /\ Same
  BY DEF Calling, Probing, Same, Busy, Init
<1>7. Counted
  BY <1>1 DEF Counted, Init
<1> QED BY <1>3, <1>4, <1>5, <1>6, <1>7 DEF IInv

\* A map with an empty table of a size that is not zero.
LEMMA FreshMap ==
    ASSUME IInv, pc \in {"none", "idle"}, NEW n \in Nat, n > 0, NEW c \in Nat, c > 0,
           pc' = "idle", bkt' = EmptyTable(n), nb' = n, cap' = c, count' = 0,
           growat' = GrowAt(n, loadfactor'), loadfactor' \in 50..95, growpower' \in 1..16,
           oom' \in BOOLEAN, UNCHANGED <<entry, i, scratch>>
    PROVE  IInv'
<1>1. /\ Table(bkt', n) /\ InOrder(bkt', n)
      /\ Cardinality(Occupied(bkt', n)) = 0
  BY EmptyIs
<1>2. growat' \in Nat /\ growat' < n
  <2>1. loadfactor' \in 0..95
    OBVIOUS
  <2> QED BY <2>1, Loads
<1>3. /\ i = 0 /\ nb2 = 0 /\ r = 0 /\ entry \in Bucket /\ Table(tab2, nb2)
  BY DEF IInv, Typed
<1>4. InOrder(tab2, nb2)
  BY OrderIs DEF IInv
<1>5. Typed'
  BY <1>1, <1>2, <1>3 DEF Typed, scratch
<1>6. Sized'
  BY <1>2 DEF Sized
<1> QED BY <1>1, <1>3, <1>4, <1>5, <1>6, Settled DEF scratch

LEMMA NewInv ==
    ASSUME IInv, NEW c \in Caps, New(c) PROVE IInv'
<1>1. c \in Nat /\ GrowPct \in Nat
  BY SizeAssumption
<1>2. CapFor(c) \in Nat /\ CapFor(c) > 0 /\ Clamp(GrowPct) \in 50..95
  BY <1>1, CapForIs, Clamps
<1>3. /\ pc = "none" /\ pc' = "idle" /\ cap' = CapFor(c) /\ nb' = CapFor(c)
      /\ bkt' = EmptyTable(CapFor(c)) /\ count' = 0 /\ oom' = FALSE /\ growpower' = 1
      /\ loadfactor' = Clamp(GrowPct) /\ growat' = GrowAt(CapFor(c), Clamp(GrowPct))
      /\ UNCHANGED <<entry, i, scratch>>
  BY DEF New
<1>4. growpower' \in 1..16 /\ loadfactor' \in 50..95 /\ oom' \in BOOLEAN
  <2>1. oom' \in BOOLEAN
    BY <1>3
  <2> QED BY <1>2, <1>3, <2>1
<1> QED BY <1>2, <1>3, <1>4, FreshMap

LEMMA FreeInv ==
    ASSUME IInv, Free PROVE IInv'
<1>1. i = 0 /\ nb2 = 0 /\ r = 0 /\ entry \in Bucket /\ Table(tab2, nb2)
  BY DEF IInv, Typed, Free
<1>2. tab2 = NoTable
  BY <1>1 DEF Table, NoTable, EmptyTable
<1> QED BY <1>1, <1>2, NoMap DEF Free, scratch

LEMMA ClearInv ==
    ASSUME IInv, NEW u \in BOOLEAN, Clear(u) PROVE IInv'
<1>1. /\ nb \in Nat /\ nb > 0 /\ cap \in Nat /\ cap > 0 /\ loadfactor \in 50..95
      /\ growpower \in 1..16 /\ oom \in BOOLEAN
  BY DEF IInv, Typed, Sized, Clear
<1>2. /\ cap' \in Nat /\ cap' > 0 /\ nb' = cap' /\ bkt' = EmptyTable(cap') /\ count' = 0
      /\ growat' = GrowAt(cap', loadfactor') /\ loadfactor' \in 50..95
      /\ growpower' \in 1..16 /\ oom' \in BOOLEAN /\ pc = "idle" /\ pc' = "idle"
      /\ UNCHANGED <<entry, i, scratch>>
  BY <1>1 DEF Clear
<1> QED BY <1>2, FreshMap

\* A change of what decides when the table grows.
LEMMA SettingInv ==
    ASSUME IInv, pc = "idle", loadfactor' \in 50..95, growpower' \in 1..16,
           growat' \in Nat, growat' < nb, oom' \in BOOLEAN,
           UNCHANGED <<bkt, nb, cap, count, pc, entry, i, scratch>>
    PROVE  IInv'
<1>1. Typed'
  BY DEF IInv, Typed, scratch
<1>2. Sized'
  BY DEF IInv, Sized
<1>3. InOrder(bkt, nb) /\ InOrder(tab2, nb2) /\ count = Cardinality(Occupied(bkt, nb))
  BY OrderIs DEF IInv, Counted
<1> QED BY <1>1, <1>2, <1>3, Settled DEF scratch

LEMMA SetLoadFactorInv ==
    ASSUME IInv, NEW f \in Factors, SetLoadFactor(f) PROVE IInv'
<1>1. /\ nb \in Nat /\ nb > 0 /\ growpower \in 1..16 /\ oom \in BOOLEAN /\ pc = "idle"
  BY DEF IInv, Typed, Sized, SetLoadFactor
<1>2. Clamp(f) \in 50..95
  BY SizeAssumption, Clamps
<1>3. GrowAt(nb, Clamp(f)) \in Nat /\ GrowAt(nb, Clamp(f)) < nb
  <2>1. Clamp(f) \in 0..95
    BY <1>2
  <2> QED BY <1>1, <2>1, Loads
<1> QED BY <1>1, <1>2, <1>3, SettingInv DEF SetLoadFactor

LEMMA SetGrowByPowerInv ==
    ASSUME IInv, NEW p \in Powers, SetGrowByPower(p) PROVE IInv'
<1>1. /\ growat \in Nat /\ growat < nb /\ loadfactor \in 50..95 /\ oom \in BOOLEAN /\ pc = "idle"
  BY DEF IInv, Typed, Sized, SetGrowByPower
<1>2. p \in Nat
  BY SizeAssumption
<1>3. growpower' \in 1..16
  BY <1>2 DEF SetGrowByPower
<1> QED BY <1>1, <1>3, SettingInv DEF SetGrowByPower

LEMMA SetOutOfMemoryInv ==
    ASSUME IInv, NEW k \in Key, SetOutOfMemory(k) PROVE IInv'
<1>1. /\ growat \in Nat /\ growat < nb /\ loadfactor \in 50..95 /\ growpower \in 1..16 /\ pc = "idle"
  BY DEF IInv, Typed, Sized, SetOutOfMemory
<1>2. oom' \in BOOLEAN
  BY DEF SetOutOfMemory
<1> QED BY <1>1, <1>2, SettingInv DEF SetOutOfMemory, params
-----------------------------------------------------------------------------
\* The sizes of a map that exists.
Existing == /\ nb \in Nat /\ nb > 0 /\ cap \in Nat /\ cap > 0 /\ loadfactor \in 50..95
            /\ growpower \in 1..16 /\ growat \in Nat /\ growat < nb
            /\ count \in Nat /\ count < nb /\ oom \in BOOLEAN

LEMMA ExistingIs ==
    ASSUME IInv, pc # "none" PROVE Existing
BY DEF IInv, Typed, Sized, Existing

\* What a call starts from.
LEMMA BeginIs ==
    ASSUME IInv, NEW o \in {"get", "set", "delete"}, NEW k \in Key,
           NEW v \in Val \cup {NoVal}, Begin(o, k, v)
    PROVE  /\ pc = "idle" /\ call'.op = o /\ call'.key = k /\ call'.val = v
           /\ call' \in Request
           /\ before' = ItemsOf(bkt, nb) /\ before' \in [Key -> Val \cup {NoVal}]
           /\ \A q \in Key, w \in Val : KeepsItem(bkt, nb, q, w) <=> before'[q] = w
           /\ Table(bkt, nb) /\ InOrder(bkt, nb) /\ Table(tab2, nb2) /\ InOrder(tab2, nb2)
           /\ nb2 = 0 /\ r = 0 /\ entry \in Bucket
           /\ count = Cardinality(Occupied(bkt, nb))
<1>1. pc = "idle" /\ call' = [op |-> o, key |-> k, val |-> v] /\ before' = ItemsOf(bkt, nb)
  BY DEF Begin, Contents
<1>2. Table(bkt, nb) /\ Table(tab2, nb2) /\ nb2 = 0 /\ r = 0 /\ entry \in Bucket /\ nb \in Nat
  BY <1>1 DEF IInv, Typed
<1>3. InOrder(bkt, nb) /\ InOrder(tab2, nb2)
  BY <1>1, OrderIs DEF IInv
<1>4. count = Cardinality(Occupied(bkt, nb))
  BY <1>1 DEF IInv, Counted
<1>5. /\ before' \in [Key -> Val \cup {NoVal}]
      /\ \A q \in Key, w \in Val : KeepsItem(bkt, nb, q, w) <=> before'[q] = w
  BY <1>1, <1>2, <1>3, ItemsAre
<1>6. call' \in Request
  BY <1>1 DEF Request
<1> QED BY <1>1, <1>2, <1>3, <1>4, <1>5, <1>6

\* resize0 has its new table, and nothing in it.
LEMMA RehashStart ==
    ASSUME NEW n \in Nat, n > 0, StartResize(n), Existing', Table(bkt', nb'), InOrder(bkt', nb'),
           count' = Cardinality(Occupied(bkt', nb')), count' < n,
           call'.op \in {"set", "delete"}, call' \in Request,
           before' \in [Key -> Val \cup {NoVal}],
           call'.op = "set" =>
              /\ count' + 1 < n /\ call'.val \in Val
              /\ \A k \in Key, v \in Val : KeepsItem(bkt', nb', k, v) <=> before'[k] = v,
           call'.op = "delete" =>
              /\ call'.val = before'[call'.key]
              /\ \A k \in Key, v \in Val :
                    KeepsItem(bkt', nb', k, v) <=> before'[k] = v /\ k # call'.key
    PROVE  IInv'
<1>1. pc' = "rehash" /\ tab2' = EmptyTable(n) /\ nb2' = n /\ r' = 0 /\ entry' = Empty /\ i' = 0
  BY DEF StartResize
<1>2. /\ Table(tab2', n) /\ InOrder(tab2', n) /\ Occupied(tab2', n) = {}
      /\ \A k, v : ~KeepsItem(tab2', n, k, v)
      /\ Cardinality(Occupied(tab2', n)) = 0
  BY <1>1, EmptyIs
<1>3. Empty \in Bucket
  BY DEF Empty, Bucket
<1>4. Typed'
  BY <1>1, <1>2, <1>3 DEF Typed, Existing, Busy
<1>5. Sized'
  BY <1>1 DEF Sized, Existing
<1>6. Calling'
  BY <1>1 DEF Calling, Busy
<1>7. TablesInOrder'
  BY <1>1, <1>2, RobinHoodIs DEF TablesInOrder
<1>8. Moved' = {}
  BY <1>1 DEF Moved, Occupied
<1>9. Counted'
  BY <1>1, <1>2, <1>8 DEF Counted
<1>10. Probing'
  BY <1>1 DEF Probing
<1>11. Same'
  BY <1>1, <1>2, <1>8 DEF Same
<1> QED BY <1>4, <1>5, <1>6, <1>7, <1>9, <1>10, <1>11 DEF IInv

\* The probe of a set begins, in a table with room for one more.
LEMMA SetStart ==
    ASSUME pc' = "set", call'.op = "set", call' \in Request, call'.val \in Val,
           entry' = [dib |-> 1, key |-> call'.key, val |-> call'.val],
           i' = Home(call'.key, nb'), Existing', count' + 1 < nb',
           Table(bkt', nb'), InOrder(bkt', nb'),
           Table(tab2', nb2'), InOrder(tab2', nb2'), nb2' = 0, r' = 0,
           count' = Cardinality(Occupied(bkt', nb')),
           before' \in [Key -> Val \cup {NoVal}],
           \A k \in Key, v \in Val : KeepsItem(bkt', nb', k, v) <=> before'[k] = v
    PROVE  IInv'
<1>1. nb' \in Nat /\ nb' > 0
  BY DEF Existing
<1>2. entry' \in Item /\ entry'.dib = 1 /\ entry'.key = call'.key /\ entry'.val = call'.val
  BY DEF Item, Request
<1>3. AtProbe(bkt', nb', entry', i') /\ NotPassed(bkt', nb', entry'.key, 1)
  BY <1>1, <1>2, StartProbe
<1>4. i' \in 0..(nb' - 1)
  BY <1>3 DEF AtProbe
<1>5. Typed'
  <2>1. entry' \in Bucket
    BY <1>2, ItemParts
  <2>2. r' \in 0..nb' /\ i' \in Nat
    BY <1>1, <1>4
  <2> QED BY <1>4, <2>1, <2>2 DEF Typed, Existing, Busy
<1>6. Sized'
  BY DEF Sized, Existing
<1>7. Calling'
  BY DEF Calling, Busy
<1>8. TablesInOrder'
  BY RobinHoodIs DEF TablesInOrder
<1>9. Counted'
  BY DEF Counted
<1>10. Probing'
  BY <1>2, <1>3 DEF Probing
<1>11. Same'
  BY <1>2 DEF Same
<1> QED BY <1>5, <1>6, <1>7, <1>8, <1>9, <1>10, <1>11 DEF IInv

\* The search of a get or a delete begins.
LEMMA SearchStart ==
    ASSUME IInv, NEW o \in {"get", "delete"}, NEW k \in Key, Begin(o, k, NoVal),
           pc' = IF o = "get" THEN "get" ELSE "find", i' = Home(k, nb), oom' \in BOOLEAN,
           UNCHANGED <<bkt, nb, count, growat, params, entry, scratch>>
    PROVE  IInv'
<1>1. /\ pc = "idle" /\ call'.op = o /\ call'.key = k /\ call' \in Request
      /\ before' \in [Key -> Val \cup {NoVal}]
      /\ \A q \in Key, w \in Val : KeepsItem(bkt, nb, q, w) <=> before'[q] = w
      /\ Table(bkt, nb) /\ InOrder(bkt, nb) /\ Table(tab2, nb2) /\ InOrder(tab2, nb2)
      /\ nb2 = 0 /\ r = 0 /\ entry \in Bucket
      /\ count = Cardinality(Occupied(bkt, nb))
  BY BeginIs
<1>2. Existing /\ Existing'
  BY <1>1, ExistingIs DEF Existing, params
<1>3. /\ bkt' = bkt /\ nb' = nb /\ count' = count /\ tab2' = tab2 /\ nb2' = nb2 /\ r' = r
      /\ entry' = entry
  BY DEF scratch
<1>4. nb \in Nat /\ nb > 0
  BY <1>2 DEF Existing
<1>5. Home(k, nb) \in 0..(nb - 1) /\ Spot(k, 1, nb) = Home(k, nb)
  <2>1. 1 \in Nat \ {0}
    OBVIOUS
  <2> QED BY <1>4, <2>1, Spots
<1>6. NotPassed(bkt, nb, k, 1)
  BY <1>1, Cells DEF NotPassed, Has
<1>7. Typed'
  BY <1>1, <1>2, <1>3, <1>5 DEF Typed, Existing, Busy
<1>8. Sized'
  BY <1>2 DEF Sized, Existing
<1>9. Calling'
  BY <1>1 DEF Calling, Busy
<1>10. TablesInOrder'
  BY <1>1, <1>3, RobinHoodIs DEF TablesInOrder
<1>11. Counted'
  BY <1>1, <1>3 DEF Counted
<1>12. Probing'
  <2>1. 1 \in Nat \ {0} /\ Spot(call'.key, 1, nb') = i' /\ NotPassed(bkt', nb', call'.key, 1)
    BY <1>1, <1>3, <1>5, <1>6
  <2> QED BY <2>1 DEF Probing
<1>13. Same'
  BY <1>1, <1>3 DEF Same
<1> QED BY <1>7, <1>8, <1>9, <1>10, <1>11, <1>12, <1>13 DEF IInv
-----------------------------------------------------------------------------
\* Each call begins in a state of the invariant.
LEMMA SetCallInv ==
    ASSUME IInv, NEW k \in Key, NEW v \in Val, SetCall(k, v) PROVE IInv'
<1>1. /\ pc = "idle" /\ call'.op = "set" /\ call'.key = k /\ call'.val = v
      /\ call' \in Request /\ before' \in [Key -> Val \cup {NoVal}]
      /\ \A q \in Key, w \in Val : KeepsItem(bkt, nb, q, w) <=> before'[q] = w
      /\ Table(bkt, nb) /\ InOrder(bkt, nb) /\ Table(tab2, nb2) /\ InOrder(tab2, nb2)
      /\ nb2 = 0 /\ r = 0
      /\ count = Cardinality(Occupied(bkt, nb))
  BY BeginIs DEF SetCall
<1>2. Existing
  BY <1>1, ExistingIs
<1>3. /\ UNCHANGED <<bkt, nb, count, growat, cap, loadfactor, growpower>>
      /\ oom' = FALSE
  BY DEF SetCall, params
<1>4. oom' \in BOOLEAN
  BY <1>3
<1>5. Existing'
  BY <1>2, <1>3, <1>4 DEF Existing
<1>6. CASE count < growat
  <2>1. /\ pc' = "set" /\ entry' = [dib |-> 1, key |-> k, val |-> v] /\ i' = Home(k, nb)
        /\ UNCHANGED <<tab2, nb2, r>>
    BY <1>6 DEF SetCall, scratch
  <2>2. count' + 1 < nb'
    BY <1>2, <1>3, <1>6 DEF Existing
  <2>3. /\ entry' = [dib |-> 1, key |-> call'.key, val |-> call'.val]
        /\ i' = Home(call'.key, nb')
    BY <1>1, <1>3, <2>1
  <2>4. /\ Table(bkt', nb') /\ InOrder(bkt', nb') /\ Table(tab2', nb2') /\ InOrder(tab2', nb2')
        /\ nb2' = 0 /\ r' = 0 /\ count' = Cardinality(Occupied(bkt', nb'))
        /\ \A q \in Key, w \in Val : KeepsItem(bkt', nb', q, w) <=> before'[q] = w
    BY <1>1, <1>3, <2>1
  <2> QED BY <1>1, <1>5, <2>1, <2>2, <2>3, <2>4, SetStart
<1>7. CASE ~(count < growat)
  <2> DEFINE n == nb * Pow2[growpower]
  <2>1. StartResize(n)
    BY <1>7 DEF SetCall
  <2>2. Pow2[growpower] \in Nat /\ Pow2[growpower] >= 2
    <3>1. growpower \in Nat /\ growpower >= 1
      BY <1>2 DEF Existing
    <3> QED BY <3>1, Pow2Grows
  <2>3. n \in Nat /\ n >= 2 * nb
    <3>1. nb \in Nat /\ nb > 0
      BY <1>2 DEF Existing
    <3> HIDE DEF n
    <3>2. \A p \in Nat : p >= 2 => nb * p \in Nat /\ nb * p >= 2 * nb
      <4> TAKE p \in Nat
      <4> HAVE p >= 2
      <4>1. p - 2 \in Nat
        OBVIOUS
      <4>2. nb * p = nb * (p - 2) + nb * 2
        BY <3>1, <4>1
      <4>3. nb * (p - 2) \in Nat
        BY <3>1, <4>1
      <4> QED BY <3>1, <4>2, <4>3
    <3> QED BY <2>2, <3>2 DEF n
  <2> HIDE DEF n
  <2>4. n > 0 /\ count' < n /\ count' + 1 < n
    BY <1>2, <1>3, <2>3 DEF Existing
  <2>5. /\ Table(bkt', nb') /\ InOrder(bkt', nb') /\ count' = Cardinality(Occupied(bkt', nb'))
        /\ \A q \in Key, w \in Val : KeepsItem(bkt', nb', q, w) <=> before'[q] = w
    BY <1>1, <1>3
  <2>6. call'.op \in {"set", "delete"} /\ call'.op # "delete" /\ call'.val \in Val
    BY <1>1
  <2> QED BY <1>1, <1>5, <2>1, <2>3, <2>4, <2>5, <2>6, RehashStart
<1> QED BY <1>6, <1>7

LEMMA GetCallInv ==
    ASSUME IInv, NEW k \in Key, GetCall(k) PROVE IInv'
<1>1. oom' \in BOOLEAN
  BY DEF GetCall, IInv, Typed
<1>2. /\ Begin("get", k, NoVal) /\ pc' = "get" /\ i' = Home(k, nb)
      /\ UNCHANGED <<bkt, nb, count, growat, params, entry, scratch>>
  BY DEF GetCall
<1> QED BY <1>1, <1>2, SearchStart

LEMMA DeleteCallInv ==
    ASSUME IInv, NEW k \in Key, DeleteCall(k) PROVE IInv'
<1>1. oom' \in BOOLEAN
  BY DEF DeleteCall
<1>2. /\ Begin("delete", k, NoVal) /\ pc' = "find" /\ i' = Home(k, nb)
      /\ UNCHANGED <<bkt, nb, count, growat, params, entry, scratch>>
  BY DEF DeleteCall
<1> QED BY <1>1, <1>2, SearchStart
-----------------------------------------------------------------------------
\* A call that returns leaves a map in order.
LEMMA Returned ==
    ASSUME pc' = "idle", entry' = Empty, i' = 0, Existing', nb2' = 0, r' = 0,
           Table(bkt', nb'), InOrder(bkt', nb'), Table(tab2', nb2'), InOrder(tab2', nb2'),
           count' = Cardinality(Occupied(bkt', nb'))
    PROVE  IInv'
<1>1. Empty \in Bucket
  BY DEF Empty, Bucket
<1>2. Typed'
  <2>1. r' \in 0..nb' /\ nb2' \in Nat
    BY DEF Existing
  <2> QED BY <1>1, <2>1 DEF Typed, Existing
<1>3. Sized'
  BY DEF Sized, Existing
<1> QED BY <1>2, <1>3, Settled

\* What every loop but the shift and the rehash finds.
LEMMA AtBucket ==
    ASSUME IInv, pc \in {"get", "set", "find"}
    PROVE  /\ Existing /\ nb2 = 0 /\ r = 0 /\ i \in 0..(nb - 1)
           /\ call \in Request /\ call.key \in Key
           /\ Table(bkt, nb) /\ InOrder(bkt, nb) /\ Table(tab2, nb2) /\ InOrder(tab2, nb2)
           /\ count = Cardinality(Occupied(bkt, nb)) /\ bkt[i].dib \in Nat
           /\ before \in [Key -> Val \cup {NoVal}] /\ entry \in Bucket
<1>1. Existing
  BY ExistingIs
<1>2. /\ nb2 = 0 /\ r = 0 /\ i \in 0..(nb - 1) /\ Table(bkt, nb) /\ Table(tab2, nb2)
      /\ entry \in Bucket
  BY DEF IInv, Typed
<1>3. call \in Request /\ call.key \in Key /\ before \in [Key -> Val \cup {NoVal}]
  BY DEF IInv, Calling, Busy, Request
<1>4. InOrder(bkt, nb) /\ InOrder(tab2, nb2)
  BY OrderIs DEF IInv
<1>5. count = Cardinality(Occupied(bkt, nb))
  BY DEF IInv, Counted
<1>6. bkt[i].dib \in Nat
  BY <1>2, Cells
<1> QED BY <1>1, <1>2, <1>3, <1>4, <1>5, <1>6

\* A step of a get or a delete that only goes on to the next bucket.
LEMMA SearchGoesOn ==
    ASSUME IInv, pc \in {"get", "find"}, bkt[i].dib # 0, bkt[i].key # call.key,
           i' = Nxt(i, nb), UNCHANGED <<pc, call, before, entry, bkt, nb, count, growat,
                                        params, oom, scratch>>
    PROVE  IInv'
<1>1. /\ Existing /\ nb2 = 0 /\ r = 0 /\ i \in 0..(nb - 1) /\ call.key \in Key
      /\ Table(bkt, nb) /\ InOrder(bkt, nb)
  BY AtBucket
<1>2. nb \in Nat /\ nb > 0
  BY <1>1 DEF Existing
<1>3. PICK d \in Nat \ {0} : Spot(call.key, d, nb) = i /\ NotPassed(bkt, nb, call.key, d)
  BY DEF IInv, Probing
<1>4. ~Has(bkt, i, call.key)
  BY DEF Has
<1>5. NotPassed(bkt, nb, call.key, d + 1)
  BY <1>1, <1>2, <1>3, <1>4, ProbeMeets
<1>6. Spot(call.key, d + 1, nb) = Nxt(i, nb)
  BY <1>1, <1>2, <1>3, Spots
<1>7. Nxt(i, nb) \in 0..(nb - 1)
  BY <1>1, <1>2, NextBucket
<1>8. Typed'
  <2>1. i' \in 0..(nb' - 1) /\ i' \in Nat
    BY <1>2, <1>7
  <2> QED BY <2>1 DEF IInv, Typed, scratch, params
<1>9. Sized' /\ Calling'
  BY DEF IInv, Sized, Calling, params, scratch
<1>10. TablesInOrder' /\ Counted'
  BY DEF IInv, TablesInOrder, Counted, Moved, scratch
<1>11. Probing'
  <2>1. d + 1 \in Nat \ {0} /\ Spot(call'.key, d + 1, nb') = i' /\ NotPassed(bkt', nb', call'.key, d + 1)
    BY <1>3, <1>5, <1>6
  <2> QED BY <2>1 DEF Probing
<1>12. Same'
  BY DEF IInv, Same
<1> QED BY <1>8, <1>9, <1>10, <1>11, <1>12 DEF IInv

LEMMA GetStepInv ==
    ASSUME IInv, GetStep PROVE IInv'
<1>1. /\ Existing /\ nb2 = 0 /\ r = 0
      /\ Table(bkt, nb) /\ InOrder(bkt, nb) /\ Table(tab2, nb2) /\ InOrder(tab2, nb2)
      /\ count = Cardinality(Occupied(bkt, nb))
  BY AtBucket DEF GetStep
<1>2. UNCHANGED <<bkt, nb, count, growat, params, oom, scratch>> /\ pc = "get"
  BY DEF GetStep
<1>3. ASSUME NEW v, Return("get", v) PROVE IInv'
  <2>1. Existing'
    BY <1>1, <1>2 DEF Existing, params
  <2>2. pc' = "idle" /\ entry' = Empty /\ i' = 0
    BY <1>3 DEF Return
  <2>3. /\ nb2' = 0 /\ r' = 0 /\ Table(bkt', nb') /\ InOrder(bkt', nb')
        /\ Table(tab2', nb2') /\ InOrder(tab2', nb2') /\ count' = Cardinality(Occupied(bkt', nb'))
    BY <1>1, <1>2 DEF scratch
  <2> QED BY <2>1, <2>2, <2>3, Returned
<1>4. CASE bkt[i].dib # 0 /\ bkt[i].key # call.key /\ i' = Nxt(i, nb) /\ UNCHANGED <<pc, out, call, before, entry>>
  BY <1>2, <1>4, SearchGoesOn
<1> QED BY <1>3, <1>4 DEF GetStep

\* A set that meets an empty bucket, or one it may take, has not met its key and
\* will not.
LEMMA SetMeets ==
    ASSUME IInv, pc = "set", bkt[i].dib < entry.dib
    PROVE  /\ ~Keeps(bkt, nb, entry.key)
           /\ before[call.key] = NoVal
           /\ \A k \in Key, v \in Val : (KeepsItem(bkt, nb, k, v) \/ (entry.key = k /\ entry.val = v))
                                       <=> IF k = call.key THEN v = call.val ELSE before[k] = v
<1>1. /\ Existing /\ i \in 0..(nb - 1) /\ call.key \in Key
      /\ Table(bkt, nb) /\ InOrder(bkt, nb) /\ bkt[i].dib \in Nat
      /\ before \in [Key -> Val \cup {NoVal}]
  BY AtBucket
<1>2. nb \in Nat /\ nb > 0
  BY <1>1 DEF Existing
<1>3. CASE entry.key # call.key
  BY <1>3 DEF IInv, Probing, Same
<1>4. CASE entry.key = call.key
  <2>1. /\ AtProbe(bkt, nb, entry, i) /\ NotPassed(bkt, nb, call.key, entry.dib)
        /\ entry.val = call.val
    BY <1>4 DEF IInv, Probing
  <2>2. entry.dib \in Nat \ {0} /\ Spot(call.key, entry.dib, nb) = i
    <3>1. entry \in Item /\ Spot(entry.key, entry.dib, nb) = i
      BY <2>1 DEF AtProbe
    <3> QED BY <1>4, <3>1, ItemParts
  <2>3. ~Keeps(bkt, nb, call.key)
    <3>1. Keeps(bkt, nb, call.key) => entry.dib <= bkt[i].dib
      BY <1>1, <1>2, <2>1, <2>2, ProbeMeets
    <3> QED BY <1>1, <2>2, <3>1
  <2>4. \A k \in Key, v \in Val : KeepsItem(bkt, nb, k, v) <=> before[k] = v
    BY <1>4 DEF IInv, Same
  <2>5. \A v \in Val : ~KeepsItem(bkt, nb, call.key, v)
    BY <1>1, <1>2, <2>3, KeepsIs
  <2>6. before[call.key] = NoVal
    BY <1>1, <2>4, <2>5
  <2>7. ASSUME NEW k \in Key, NEW v \in Val
        PROVE  (KeepsItem(bkt, nb, k, v) \/ (entry.key = k /\ entry.val = v))
                  <=> IF k = call.key THEN v = call.val ELSE before[k] = v
    BY <1>4, <2>1, <2>4, <2>5
  <2> QED BY <1>4, <2>3, <2>6, <2>7
<1> QED BY <1>3, <1>4

\* One that may not is going on.
LEMMA SetGoesOn ==
    ASSUME IInv, pc = "set", bkt[i].dib # 0, bkt[i].key # entry.key, ~(bkt[i].dib < entry.dib),
           Further(entry, entry'), i' = Nxt(i, nb),
           UNCHANGED <<pc, call, before, bkt, nb, count, growat, params, oom, scratch>>
    PROVE  IInv'
<1>1. /\ Existing /\ i \in 0..(nb - 1) /\ Table(bkt, nb) /\ InOrder(bkt, nb)
  BY AtBucket
<1>2. nb \in Nat /\ nb > 0
  BY <1>1 DEF Existing
<1>3. AtProbe(bkt, nb, entry, i)
  BY DEF IInv, Probing
<1>4. AtProbe(bkt, nb, entry', Nxt(i, nb))
  BY <1>1, <1>2, <1>3, GoOn
<1>5. entry \in Item
  BY <1>3 DEF AtProbe
<1>6. /\ entry' \in Bucket /\ entry'.dib = entry.dib + 1 /\ entry'.key = entry.key
      /\ entry'.val = entry.val /\ entry.dib \in Nat \ {0} /\ entry.key \in Key
  BY <1>5, ItemParts, FurtherIs
<1>7. Nxt(i, nb) \in 0..(nb - 1) /\ Nxt(i, nb) \in Nat
  <2>1. Nxt(i, nb) \in 0..(nb - 1)
    BY <1>4 DEF AtProbe
  <2> QED BY <1>2, <2>1
<1>8. Typed'
  BY <1>6, <1>7 DEF IInv, Typed, scratch, params
<1>9. Sized' /\ Calling'
  BY DEF IInv, Sized, Calling, params, scratch
<1>10. TablesInOrder' /\ Counted'
  BY DEF IInv, TablesInOrder, Counted, Moved, scratch
<1>11. Probing'
  <2>1. NotPassed(bkt, nb, entry.key, entry.dib) => NotPassed(bkt, nb, entry'.key, entry'.dib)
    <3>1. ~Has(bkt, i, entry.key)
      BY DEF Has
    <3>2. Spot(entry.key, entry.dib, nb) = i
      BY <1>3 DEF AtProbe
    <3> QED BY <1>1, <1>2, <1>6, <3>1, <3>2, ProbeMeets
  <2>2. /\ entry.key = call.key => entry.val = call.val /\ NotPassed(bkt, nb, entry.key, entry.dib)
        /\ entry.key # call.key => before[call.key] = NoVal /\ ~Keeps(bkt, nb, entry.key)
    BY DEF IInv, Probing
  <2> QED BY <1>4, <1>6, <2>1, <2>2 DEF Probing
<1>12. Same'
  BY <1>6 DEF IInv, Same
<1> QED BY <1>8, <1>9, <1>10, <1>11, <1>12 DEF IInv

\* Or it takes the place of an entry closer to its home, which goes on.
LEMMA SetTakes ==
    ASSUME IInv, pc = "set", bkt[i].dib # 0, bkt[i].dib < entry.dib,
           Put(bkt, bkt', i, entry), Further(bkt[i], entry'), i' = Nxt(i, nb),
           UNCHANGED <<pc, call, before, nb, count, growat, params, oom, scratch>>
    PROVE  IInv'
<1>1. /\ Existing /\ i \in 0..(nb - 1) /\ Table(bkt, nb) /\ InOrder(bkt, nb)
      /\ count = Cardinality(Occupied(bkt, nb)) /\ InOrder(tab2, nb2)
  BY AtBucket
<1>2. nb \in Nat /\ nb > 0
  BY <1>1 DEF Existing
<1>3. AtProbe(bkt, nb, entry, i)
  BY DEF IInv, Probing
<1>4. /\ ~Keeps(bkt, nb, entry.key)
      /\ before[call.key] = NoVal
      /\ \A k \in Key, v \in Val : (KeepsItem(bkt, nb, k, v) \/ (entry.key = k /\ entry.val = v))
                                       <=> IF k = call.key THEN v = call.val ELSE before[k] = v
  BY SetMeets
<1>5. /\ Table(bkt', nb) /\ InOrder(bkt', nb) /\ AtProbe(bkt', nb, entry', Nxt(i, nb))
      /\ ~Keeps(bkt', nb, entry'.key) /\ entry'.key # entry.key
      /\ Occupied(bkt', nb) = Occupied(bkt, nb)
      /\ \A k, v : KeepsItem(bkt', nb, k, v) \/ (entry'.key = k /\ entry'.val = v) <=>
                      KeepsItem(bkt, nb, k, v) \/ (entry.key = k /\ entry.val = v)
  <2>2. Table(bkt, nb) /\ InOrder(bkt, nb) /\ ~Keeps(bkt, nb, entry.key)
    BY <1>1, <1>4
  <2>3. Table(bkt', nb) /\ InOrder(bkt', nb) /\ AtProbe(bkt', nb, entry', Nxt(i, nb))
    BY <1>2, <1>3, <2>2, TakePlace
  <2>4. /\ ~Keeps(bkt', nb, entry'.key) /\ entry'.key # entry.key
        /\ Occupied(bkt', nb) = Occupied(bkt, nb)
    BY <1>2, <1>3, <2>2, TakePlace
  <2>5. \A k, v : KeepsItem(bkt', nb, k, v) \/ (entry'.key = k /\ entry'.val = v) <=>
                      KeepsItem(bkt, nb, k, v) \/ (entry.key = k /\ entry.val = v)
    BY <1>2, <1>3, <2>2, TakePlace
  <2> QED BY <2>3, <2>4, <2>5
<1>6. entry' \in Item /\ entry' \in Bucket /\ entry'.key \in Key /\ entry'.val \in Val
  BY <1>5, ItemParts DEF AtProbe
<1>7. Nxt(i, nb) \in 0..(nb - 1) /\ Nxt(i, nb) \in Nat
  <2>1. Nxt(i, nb) \in 0..(nb - 1)
    BY <1>5 DEF AtProbe
  <2> QED BY <1>2, <2>1
<1>8. Typed'
  BY <1>5, <1>6, <1>7 DEF IInv, Typed, scratch, params
<1>9. Sized' /\ Calling'
  BY DEF IInv, Sized, Calling, params, scratch
<1>10. TablesInOrder' /\ Counted'
  <2>1. RobinHood(bkt', nb') /\ RobinHood(tab2', nb2')
    BY <1>1, <1>5, RobinHoodIs DEF scratch
  <2> QED BY <1>1, <1>5, <2>1 DEF TablesInOrder, Counted
<1>11. Probing' /\ Same'
  <2>1. \A k \in Key, v \in Val : (KeepsItem(bkt', nb, k, v) \/ (entry'.key = k /\ entry'.val = v))
                                       <=> IF k = call.key THEN v = call.val ELSE before[k] = v
    BY <1>4, <1>5
  <2>2. CASE entry'.key # call.key
    BY <1>4, <1>5, <2>1, <2>2 DEF Probing, Same
  <2>3. CASE entry'.key = call.key
    <3>1. entry'.val = call.val
      BY <1>6, <2>1, <2>3
    <3>2. NotPassed(bkt', nb, entry'.key, entry'.dib)
      BY <1>5 DEF Keeps, NotPassed
    <3>3. ASSUME NEW k \in Key, NEW v \in Val PROVE KeepsItem(bkt', nb, k, v) <=> before[k] = v
      <4>1. CASE k = call.key
        <5>1. ~KeepsItem(bkt', nb, k, v)
          BY <1>2, <1>5, <2>3, <4>1, KeepsIs
        <5>2. v # NoVal
          BY NoKeyAssumption
        <5> QED BY <1>4, <4>1, <5>1, <5>2
      <4>2. CASE k # call.key
        BY <2>1, <2>3, <4>2
      <4> QED BY <4>1, <4>2
    <3>4. Probing'
      BY <1>5, <2>3, <3>1, <3>2 DEF Probing
    <3>5. Same'
      BY <2>3, <3>3 DEF Same
    <3> QED BY <3>4, <3>5
  <2> QED BY <2>2, <2>3
<1> QED BY <1>8, <1>9, <1>10, <1>11 DEF IInv

LEMMA SetStepInv ==
    ASSUME IInv, SetStep PROVE IInv'
<1>1. /\ Existing /\ nb2 = 0 /\ r = 0 /\ i \in 0..(nb - 1) /\ bkt[i].dib \in Nat
      /\ Table(bkt, nb) /\ InOrder(bkt, nb) /\ Table(tab2, nb2) /\ InOrder(tab2, nb2)
      /\ count = Cardinality(Occupied(bkt, nb))
  BY AtBucket DEF SetStep
<1>2. UNCHANGED <<nb, growat, params, oom, scratch>> /\ pc = "set"
  BY DEF SetStep
<1>3. nb \in Nat /\ nb > 0
  BY <1>1 DEF Existing
<1>4. AtProbe(bkt, nb, entry, i) /\ entry \in Item
  BY <1>2 DEF IInv, Probing, AtProbe
<1>5. count' \in Nat /\ count' < nb => Existing'
  BY <1>1, <1>2 DEF Existing, params
<1>6. /\ nb2' = 0 /\ r' = 0 /\ Table(tab2', nb2') /\ InOrder(tab2', nb2')
  BY <1>1, <1>2 DEF scratch
<1>7. CASE bkt[i].dib = 0 /\ bkt' = [bkt EXCEPT ![i] = entry] /\ count' = count + 1 /\ Return("set", NoVal)
  <2>1. bkt[i].dib < entry.dib
    BY <1>4, <1>7, ItemParts
  <2>2. ~Keeps(bkt, nb, entry.key)
    BY <1>2, <2>1, SetMeets
  <2>3. /\ Table(bkt', nb) /\ InOrder(bkt', nb)
        /\ Occupied(bkt', nb) = Occupied(bkt, nb) \cup {i} /\ i \notin Occupied(bkt, nb)
    <3>1. Put(bkt, bkt', i, entry)
      BY <1>7 DEF Put
    <3>2. Table(bkt, nb) /\ InOrder(bkt, nb) /\ bkt[i].dib = 0
      BY <1>1, <1>7
    <3> QED BY <1>3, <1>4, <2>2, <3>1, <3>2, PutEmpty
  <2>4. count' = Cardinality(Occupied(bkt', nb))
    <3>1. Cardinality(Occupied(bkt, nb) \cup {i}) = Cardinality(Occupied(bkt, nb)) + 1
      BY <1>3, <2>3, CountOccupied
    <3> QED BY <1>1, <1>7, <2>3, <3>1
  <2>5. count + 1 < nb /\ count \in Nat
    BY <1>1, <1>2 DEF IInv, Sized, Existing
  <2>6. Existing'
    BY <1>5, <1>7, <2>5
  <2>7. pc' = "idle" /\ entry' = Empty /\ i' = 0
    BY <1>7 DEF Return
  <2>8. Table(bkt', nb') /\ InOrder(bkt', nb') /\ count' = Cardinality(Occupied(bkt', nb'))
    BY <1>2, <2>3, <2>4
  <2> QED BY <1>6, <2>6, <2>7, <2>8, Returned
<1>8. CASE /\ bkt[i].dib # 0 /\ bkt' = [bkt EXCEPT ![i].val = entry.val] /\ count' = count
           /\ Return("set", bkt[i].val)
  <2>1. entry.val \in Val
    BY <1>4, ItemParts
  <2>2. Table(bkt', nb) /\ InOrder(bkt', nb) /\ Occupied(bkt', nb) = Occupied(bkt, nb)
    <3>1. Put(bkt, bkt', i, [bkt[i] EXCEPT !.val = entry.val])
      BY <1>1, <1>8 DEF Put, Table
    <3> QED BY <1>1, <1>3, <1>8, <2>1, <3>1, OverWrite
  <2>3. Existing'
    BY <1>1, <1>5, <1>8 DEF Existing
  <2>4. pc' = "idle" /\ entry' = Empty /\ i' = 0
    BY <1>8 DEF Return
  <2>5. Table(bkt', nb') /\ InOrder(bkt', nb') /\ count' = Cardinality(Occupied(bkt', nb'))
    BY <1>1, <1>2, <1>8, <2>2
  <2> QED BY <1>6, <2>3, <2>4, <2>5, Returned
<1>9. CASE /\ bkt[i].dib # 0 /\ bkt[i].key # entry.key /\ i' = Nxt(i, nb) /\ count' = count
           /\ IF bkt[i].dib < entry.dib
              THEN /\ bkt' = [bkt EXCEPT ![i] = entry]
                   /\ entry' = [bkt[i] EXCEPT !.dib = @ + 1]
              ELSE /\ bkt' = bkt /\ entry' = [entry EXCEPT !.dib = @ + 1]
           /\ UNCHANGED <<pc, out, call, before>>
  <2>1. CASE bkt[i].dib < entry.dib
    <3>1. Put(bkt, bkt', i, entry) /\ Further(bkt[i], entry')
      BY <1>9, <2>1 DEF Put, Further
    <3> QED BY <1>2, <1>9, <2>1, <3>1, SetTakes
  <2>2. CASE ~(bkt[i].dib < entry.dib)
    <3>1. Further(entry, entry')
      BY <1>9, <2>2 DEF Further
    <3> QED BY <1>2, <1>9, <2>2, <3>1, SetGoesOn
  <2> QED BY <2>1, <2>2
<1> QED BY <1>7, <1>8, <1>9 DEF SetStep, GivesWay

\* A delete that finds its key makes a hole.
LEMMA FindTakesOut ==
    ASSUME IInv, pc = "find", bkt[i].dib # 0, bkt[i].key = call.key, call'.op = call.op,
           call'.key = call.key, call'.val = bkt[i].val, call' \in Request,
           Put(bkt, bkt', i, [bkt[i] EXCEPT !.dib = 0]), pc' = "shift",
           UNCHANGED <<before, entry, i, nb, count, growat, params, oom, scratch>>
    PROVE  IInv'
<1>1. /\ Existing /\ nb2 = 0 /\ r = 0 /\ i \in 0..(nb - 1) /\ call.key \in Key
      /\ Table(bkt, nb) /\ InOrder(bkt, nb) /\ bkt[i].dib \in Nat
      /\ Table(tab2, nb2) /\ InOrder(tab2, nb2) /\ entry \in Bucket
      /\ count = Cardinality(Occupied(bkt, nb)) /\ before \in [Key -> Val \cup {NoVal}]
  BY AtBucket
<1>2. nb \in Nat /\ nb > 0 /\ Existing'
  BY <1>1 DEF Existing, params
<1>3. /\ Table(bkt', nb) /\ Holed(bkt', nb, i)
      /\ Occupied(bkt', nb) \ {i} = Occupied(bkt, nb) \ {i} /\ i \in Occupied(bkt, nb)
      /\ \A k, v : (\E y \in 0..(nb - 1) \ {i} : HasItem(bkt', y, k, v)) <=>
                      KeepsItem(bkt, nb, k, v) /\ k # call.key
  <2>1. /\ Table(bkt', nb) /\ Holed(bkt', nb, i)
        /\ Occupied(bkt', nb) \ {i} = Occupied(bkt, nb) \ {i} /\ i \in Occupied(bkt, nb)
    BY <1>1, <1>2, HoleMade
  <2>2. Emptied(bkt, bkt', nb, i)
    <3>1. nb \in Nat /\ Table(bkt, nb) /\ InOrder(bkt, nb) /\ i \in 0..(nb - 1)
      BY <1>1, <1>2
    <3> QED BY <3>1, HoleMade
  <2>3. \A k, v : (\E y \in 0..(nb - 1) \ {i} : HasItem(bkt', y, k, v)) <=>
                      KeepsItem(bkt, nb, k, v) /\ k # call.key
    BY <2>2 DEF Emptied
  <2> QED BY <2>1, <2>3
<1>4. \A k \in Key, v \in Val : KeepsItem(bkt, nb, k, v) <=> before[k] = v
  BY DEF IInv, Same
<1>5. call'.val = before[call.key]
  <2>1. bkt[i].val \in Val /\ bkt[i].dib > 0
    BY <1>1, Cells
  <2>2. KeepsItem(bkt, nb, call.key, bkt[i].val)
    BY <1>1, <2>1 DEF KeepsItem, HasItem
  <2> QED BY <1>1, <1>4, <2>1, <2>2
<1>6. Typed'
  BY <1>1, <1>2, <1>3 DEF Typed, Existing, Busy, scratch
<1>7. Sized'
  BY <1>2 DEF Sized, Existing
<1>8. Calling'
  <2>1. call'.op = "delete"
    BY DEF IInv, Calling
  <2> QED BY <1>1, <1>5, <2>1 DEF Calling
<1>9. TablesInOrder'
  BY <1>1, <1>3, RobinHoodIs DEF TablesInOrder, scratch
<1>10. Counted'
  <2>1. count = Cardinality(Occupied(bkt, nb) \ {i}) + 1
    <3>1. /\ Cardinality(Occupied(bkt, nb)) \in Nat
          /\ Cardinality(Occupied(bkt, nb) \ {i}) = Cardinality(Occupied(bkt, nb)) - 1
      BY <1>2, <1>3, CountOccupied
    <3> QED BY <1>1, <3>1
  <2> QED BY <1>3, <2>1 DEF Counted
<1>11. Probing'
  BY DEF Probing
<1>12. Same'
  BY <1>3, <1>4 DEF Same
<1> QED BY <1>6, <1>7, <1>8, <1>9, <1>10, <1>11, <1>12 DEF IInv

LEMMA FindStepInv ==
    ASSUME IInv, FindStep PROVE IInv'
<1>1. /\ Existing /\ nb2 = 0 /\ r = 0 /\ i \in 0..(nb - 1)
      /\ Table(bkt, nb) /\ InOrder(bkt, nb) /\ Table(tab2, nb2) /\ InOrder(tab2, nb2)
      /\ count = Cardinality(Occupied(bkt, nb)) /\ call \in Request
  BY AtBucket DEF FindStep
<1>2. UNCHANGED <<nb, count, growat, params, oom, scratch>> /\ pc = "find"
  BY DEF FindStep
<1>3. CASE bkt' = bkt /\ Return("delete", NoVal)
  <2>1. Existing'
    BY <1>1, <1>2 DEF Existing, params
  <2>2. pc' = "idle" /\ entry' = Empty /\ i' = 0
    BY <1>3 DEF Return
  <2>3. /\ nb2' = 0 /\ r' = 0 /\ Table(bkt', nb') /\ InOrder(bkt', nb')
        /\ Table(tab2', nb2') /\ InOrder(tab2', nb2') /\ count' = Cardinality(Occupied(bkt', nb'))
    BY <1>1, <1>2, <1>3 DEF scratch
  <2> QED BY <2>1, <2>2, <2>3, Returned
<1>4. CASE /\ bkt[i].dib # 0 /\ bkt[i].key = call.key
           /\ call' = [call EXCEPT !.val = bkt[i].val] /\ bkt' = [bkt EXCEPT ![i].dib = 0]
           /\ pc' = "shift" /\ UNCHANGED <<out, before, entry, i>>
  <2>1. Put(bkt, bkt', i, [bkt[i] EXCEPT !.dib = 0])
    BY <1>1, <1>4 DEF Put, Table
  <2>2. bkt[i].val \in Val \cup {NoVal}
    BY <1>1, Cells DEF Bucket
  <2>3. call'.op = call.op /\ call'.key = call.key /\ call'.val = bkt[i].val /\ call' \in Request
    BY <1>1, <1>4, <2>2 DEF Request
  <2> QED BY <1>2, <1>4, <2>1, <2>3, FindTakesOut
<1>5. CASE /\ bkt[i].dib # 0 /\ bkt[i].key # call.key /\ i' = Nxt(i, nb) /\ bkt' = bkt
           /\ UNCHANGED <<pc, out, call, before, entry>>
  BY <1>2, <1>5, SearchGoesOn
<1> QED BY <1>3, <1>4, <1>5 DEF FindStep
-----------------------------------------------------------------------------
\* What the backward shift finds.
LEMMA AtHole ==
    ASSUME IInv, pc = "shift"
    PROVE  /\ Existing /\ nb2 = 0 /\ r = 0 /\ i \in 0..(nb - 1) /\ nb \in Nat /\ nb > 1
           /\ Table(bkt, nb) /\ Holed(bkt, nb, i) /\ Table(tab2, nb2) /\ InOrder(tab2, nb2)
           /\ count = Cardinality(Occupied(bkt, nb) \ {i}) + 1
           /\ Cardinality(Occupied(bkt, nb) \ {i}) \in Nat
           /\ call \in Request /\ call.op = "delete" /\ call.val = before[call.key]
           /\ before \in [Key -> Val \cup {NoVal}] /\ entry \in Bucket
           /\ \A k \in Key, v \in Val : (\E x \in 0..(nb - 1) \ {i} : HasItem(bkt, x, k, v))
                                           <=> before[k] = v /\ k # call.key
<1>1. Existing
  BY ExistingIs
<1>2. /\ nb2 = 0 /\ r = 0 /\ i \in 0..(nb - 1) /\ Table(bkt, nb) /\ Table(tab2, nb2)
      /\ entry \in Bucket
  BY DEF IInv, Typed
<1>3. /\ call \in Request /\ call.op = "delete" /\ call.val = before[call.key]
      /\ before \in [Key -> Val \cup {NoVal}]
  BY DEF IInv, Calling, Busy
<1>4. Holed(bkt, nb, i) /\ InOrder(tab2, nb2)
  BY OrderIs DEF IInv, TablesInOrder
<1>5. count = Cardinality(Occupied(bkt, nb) \ {i}) + 1
  BY DEF IInv, Counted
<1>6. Cardinality(Occupied(bkt, nb) \ {i}) \in Nat
  <2>1. IsFiniteSet(Occupied(bkt, nb))
    BY <1>1, CountOccupied DEF Existing
  <2> QED BY <2>1, FS_Subset, FS_CardinalityType
<1>7. nb \in Nat /\ nb > 1
  BY <1>1, <1>5, <1>6 DEF Existing
<1>8. \A k \in Key, v \in Val : (\E x \in 0..(nb - 1) \ {i} : HasItem(bkt, x, k, v))
                                           <=> before[k] = v /\ k # call.key
  BY DEF IInv, Same
<1> QED BY <1>1, <1>2, <1>3, <1>4, <1>5, <1>6, <1>7, <1>8

\* The entry after the hole moves into it.
LEMMA ShiftGoesOn ==
    ASSUME IInv, pc = "shift", i' = Nxt(i, nb), bkt[Nxt(i, nb)].dib > 1,
           Put(bkt, bkt', i, [bkt[Nxt(i, nb)] EXCEPT !.dib = @ - 1]),
           UNCHANGED <<count, pc, call, before, entry, nb, growat, params, oom, scratch>>
    PROVE  IInv'
<1>1. /\ Existing /\ nb2 = 0 /\ r = 0 /\ i \in 0..(nb - 1) /\ nb \in Nat /\ nb > 1
      /\ Table(bkt, nb) /\ Holed(bkt, nb, i) /\ Table(tab2, nb2) /\ InOrder(tab2, nb2)
      /\ count = Cardinality(Occupied(bkt, nb) \ {i}) + 1 /\ entry \in Bucket
      /\ \A k \in Key, v \in Val : (\E x \in 0..(nb - 1) \ {i} : HasItem(bkt, x, k, v))
                                      <=> before[k] = v /\ k # call.key
  BY AtHole
<1>2. i' \in 0..(nb - 1) /\ i' # i
  BY <1>1, NextBucket
<1>3. Put(bkt, bkt', i, [bkt[i'] EXCEPT !.dib = @ - 1]) /\ bkt[i'].dib > 1
  OBVIOUS
<1>4. /\ Table(bkt', nb) /\ Holed(bkt', nb, i')
      /\ Occupied(bkt', nb) \ {i'} = ((Occupied(bkt, nb) \ {i}) \ {i'}) \cup {i}
      /\ i' \in Occupied(bkt, nb) \ {i}
      /\ \A k, v : (\E z \in 0..(nb - 1) \ {i'} : HasItem(bkt', z, k, v)) <=>
                      \E z \in 0..(nb - 1) \ {i} : HasItem(bkt, z, k, v)
  BY <1>1, <1>3, HoleMoves
<1>5. Existing'
  BY <1>1 DEF Existing, params
<1>6. Typed'
  BY <1>1, <1>2, <1>4, <1>5 DEF Typed, Existing, Busy, scratch
<1>7. Sized' /\ Calling'
  BY DEF IInv, Sized, Calling, params, scratch
<1>8. TablesInOrder'
  BY <1>1, <1>4, RobinHoodIs DEF TablesInOrder, scratch
<1>9. Counted'
  <2>1. Cardinality(Occupied(bkt', nb) \ {i'}) = Cardinality(Occupied(bkt, nb) \ {i})
    <3> DEFINE S == Occupied(bkt, nb) \ {i}
    <3>1. IsFiniteSet(S)
      BY <1>1, CountOccupied, FS_Subset
    <3>2. i' \in S /\ i \notin S \ {i'}
      BY <1>4
    <3>3. IsFiniteSet(S \ {i'}) /\ Cardinality(S \ {i'}) = Cardinality(S) - 1
      BY <3>1, <3>2, FS_RemoveElement
    <3>4. Cardinality((S \ {i'}) \cup {i}) = Cardinality(S \ {i'}) + 1
      BY <3>2, <3>3, FS_AddElement
    <3>5. Cardinality(S) \in Nat
      BY <3>1, FS_CardinalityType
    <3>6. Cardinality((S \ {i'}) \cup {i}) = Cardinality(S)
      <4> HIDE DEF S
      <4> QED BY <3>3, <3>4, <3>5
    <3>7. Occupied(bkt', nb) \ {i'} = (S \ {i'}) \cup {i}
      BY <1>4
    <3> QED BY <3>6, <3>7, Zenon
  <2> QED BY <1>1, <2>1 DEF Counted
<1>10. Probing'
  BY DEF Probing
<1>11. Same'
  BY <1>1, <1>4 DEF Same
<1> QED BY <1>6, <1>7, <1>8, <1>9, <1>10, <1>11 DEF IInv

LEMMA ShiftStepInv ==
    ASSUME IInv, ShiftStep PROVE IInv'
<1>1. /\ Existing /\ nb2 = 0 /\ r = 0 /\ i \in 0..(nb - 1) /\ nb \in Nat /\ nb > 1
      /\ Table(bkt, nb) /\ Holed(bkt, nb, i) /\ Table(tab2, nb2) /\ InOrder(tab2, nb2)
      /\ count = Cardinality(Occupied(bkt, nb) \ {i}) + 1
      /\ Cardinality(Occupied(bkt, nb) \ {i}) \in Nat
      /\ call \in Request /\ call.op = "delete" /\ call.val = before[call.key]
      /\ before \in [Key -> Val \cup {NoVal}]
      /\ \A k \in Key, v \in Val : (\E x \in 0..(nb - 1) \ {i} : HasItem(bkt, x, k, v))
                                      <=> before[k] = v /\ k # call.key
  BY AtHole DEF ShiftStep
<1>2. UNCHANGED <<nb, growat, params, oom>> /\ pc = "shift"
  BY DEF ShiftStep
<1>3. CASE /\ bkt[Nxt(i, nb)].dib > 1
           /\ bkt' = [bkt EXCEPT ![i] = [bkt[Nxt(i, nb)] EXCEPT !.dib = @ - 1]]
           /\ i' = Nxt(i, nb) /\ UNCHANGED <<count, pc, out, call, before, entry, scratch>>
  <2>1. Put(bkt, bkt', i, [bkt[Nxt(i, nb)] EXCEPT !.dib = @ - 1])
    BY <1>3 DEF Put
  <2> QED BY <1>2, <1>3, <2>1, ShiftGoesOn
<1>4. ASSUME bkt[Nxt(i, nb)].dib <= 1, bkt' = [bkt EXCEPT ![i] = Empty], count' = count - 1,
             \/ Return("delete", call.val) /\ UNCHANGED scratch
             \/ /\ nb > cap /\ count - 1 <= ShrinkAt(nb)
                /\ StartResize(nb \div 2)
                /\ UNCHANGED <<out, call, before>>
      PROVE  IInv'
  <2>1. Put(bkt, bkt', i, Empty)
    BY <1>4 DEF Put
  <2>2. /\ Table(bkt', nb) /\ InOrder(bkt', nb) /\ Occupied(bkt', nb) = Occupied(bkt, nb) \ {i}
        /\ \A k, v : KeepsItem(bkt', nb, k, v) <=>
                        \E z \in 0..(nb - 1) \ {i} : HasItem(bkt, z, k, v)
    <3>1. bkt[Nxt(i, nb)].dib <= 1
      BY <1>4
    <3> QED BY <1>1, <2>1, <3>1, HoleCloses
  <2>3. /\ Table(bkt', nb') /\ InOrder(bkt', nb') /\ count' = Cardinality(Occupied(bkt', nb'))
        /\ count' \in Nat /\ count' < nb'
    <3>1. count' = Cardinality(Occupied(bkt, nb) \ {i})
      BY <1>1, <1>4
    <3>2. count < nb
      BY <1>1 DEF Existing
    <3>3. count' \in Nat /\ count' < nb
      BY <1>1, <3>1, <3>2
    <3> QED BY <1>2, <2>2, <3>1, <3>3
  <2>4. Existing'
    BY <1>1, <1>2, <2>3 DEF Existing, params
  <2>5. CASE Return("delete", call.val) /\ UNCHANGED scratch
    <3>1. pc' = "idle" /\ entry' = Empty /\ i' = 0
      BY <2>5 DEF Return
    <3>2. nb2' = 0 /\ r' = 0 /\ Table(tab2', nb2') /\ InOrder(tab2', nb2')
      BY <1>1, <2>5 DEF scratch
    <3> QED BY <2>3, <2>4, <3>1, <3>2, Returned
  <2>6. CASE /\ nb > cap /\ count - 1 <= ShrinkAt(nb) /\ StartResize(nb \div 2)
             /\ UNCHANGED <<out, call, before>>
    <3>1. /\ nb \div 2 \in Nat /\ nb \div 2 > 0 /\ ShrinkAt(nb) \in Nat
          /\ ShrinkAt(nb) < nb \div 2
      BY <1>1, Loads
    <3>2. count' < nb \div 2
      <4> DEFINE a == ShrinkAt(nb)
                 b == nb \div 2
      <4>1. a \in Nat /\ b \in Nat /\ a < b /\ count' <= a /\ count' \in Nat
        BY <1>4, <2>3, <2>6, <3>1
      <4> HIDE DEF a, b
      <4>2. count' < b
        BY <4>1
      <4> QED BY <4>2 DEF b
    <3>3. /\ call'.op \in {"set", "delete"} /\ call'.op # "set" /\ call' \in Request
          /\ before' \in [Key -> Val \cup {NoVal}] /\ call'.val = before'[call'.key]
      BY <1>1, <2>6
    <3>4. \A k \in Key, v \in Val : KeepsItem(bkt', nb', k, v) <=> before'[k] = v /\ k # call'.key
      BY <1>1, <1>2, <2>2, <2>6
    <3>5. StartResize(nb \div 2)
      BY <2>6
    <3> HIDE <2>6
    <3> QED BY <2>3, <2>4, <3>1, <3>2, <3>3, <3>4, <3>5, RehashStart
  <2> QED BY <1>4, <2>5, <2>6
<1> QED BY <1>3, <1>4 DEF ShiftStep
-----------------------------------------------------------------------------
\* What resize0 finds, and what it never touches.
LEMMA AtRehash ==
    ASSUME IInv, pc \in {"rehash", "place"}
    PROVE  /\ Existing /\ nb \in Nat /\ nb2 \in Nat /\ nb2 > 0 /\ r \in 0..nb
           /\ count < nb2 /\ (call.op = "set" => count + 1 < nb2)
           /\ Table(bkt, nb) /\ InOrder(bkt, nb) /\ Table(tab2, nb2) /\ InOrder(tab2, nb2)
           /\ count = Cardinality(Occupied(bkt, nb)) /\ call \in Request
           /\ call.op \in {"set", "delete"} /\ (call.op = "set" => call.val \in Val)
           /\ before \in [Key -> Val \cup {NoVal}] /\ entry \in Bucket
           /\ call.op = "set" =>
                 \A k \in Key, v \in Val : KeepsItem(bkt, nb, k, v) <=> before[k] = v
<1>1. Existing
  BY ExistingIs
<1>2. /\ nb \in Nat /\ nb2 \in Nat /\ r \in 0..nb /\ Table(bkt, nb) /\ Table(tab2, nb2)
      /\ entry \in Bucket /\ count \in Nat
  BY DEF IInv, Typed
<1>3. count < nb2 /\ (call.op = "set" => count + 1 < nb2)
  BY DEF IInv, Sized
<1>4. nb2 > 0
  BY <1>2, <1>3
<1>5. /\ call \in Request /\ call.op \in {"set", "delete"}
      /\ call.op = "set" => call.val \in Val
      /\ before \in [Key -> Val \cup {NoVal}]
  BY DEF IInv, Calling, Busy
<1>6. InOrder(bkt, nb) /\ InOrder(tab2, nb2)
  BY OrderIs DEF IInv
<1>7. count = Cardinality(Occupied(bkt, nb))
  BY DEF IInv, Counted
<1>8. call.op = "set" =>
         \A k \in Key, v \in Val : KeepsItem(bkt, nb, k, v) <=> before[k] = v
  BY DEF IInv, Same
<1> QED BY <1>1, <1>2, <1>3, <1>4, <1>5, <1>6, <1>7, <1>8

\* The items of map2, with the entry in flight, are those of the buckets moved.
LEMMA RehashGoesOn ==
    ASSUME IInv, pc \in {"rehash", "place"}, pc' \in {"rehash", "place"},
           UNCHANGED <<bkt, nb, count, growat, params, oom, nb2, call, before>>,
           Table(tab2', nb2), InOrder(tab2', nb2), entry' \in Bucket, r' \in 0..nb,
           pc' = "rehash" => /\ i' = 0
                             /\ Cardinality(Occupied(tab2', nb2)) = Cardinality(Moved'),
           pc' = "place" => /\ r' < nb /\ AtProbe(tab2', nb2, entry', i')
                            /\ ~Keeps(tab2', nb2, entry'.key)
                            /\ Cardinality(Occupied(tab2', nb2)) + 1 = Cardinality(Moved'),
           \A k \in Key, v \in Val :
              KeepsItem(tab2', nb2, k, v) \/ (pc' = "place" /\ entry'.key = k /\ entry'.val = v)
                 <=> \E x \in Moved' : HasItem(bkt, x, k, v)
    PROVE  IInv'
<1>1. /\ Existing /\ nb2 \in Nat /\ nb2 > 0 /\ Table(bkt, nb) /\ InOrder(bkt, nb)
      /\ count = Cardinality(Occupied(bkt, nb))
  BY AtRehash
<1>2. Existing'
  BY <1>1 DEF Existing, params
<1>3. pc' = "place" => i' \in 0..(nb2 - 1) /\ i' \in Nat
  BY <1>1 DEF AtProbe
<1>4. Typed'
  BY <1>1, <1>2, <1>3 DEF Typed, Existing, Busy
<1>5. Sized' /\ Calling'
  BY DEF IInv, Sized, Calling, params, Busy
<1>6. TablesInOrder'
  BY <1>1, RobinHoodIs DEF TablesInOrder
<1>7. Counted'
  BY <1>1 DEF Counted
<1>8. Probing'
  BY DEF Probing
<1>9. Same'
  BY DEF IInv, Same
<1> QED BY <1>4, <1>5, <1>6, <1>7, <1>8, <1>9 DEF IInv

\* An empty bucket of the old table is passed over.
LEMMA RehashSkips ==
    ASSUME IInv, pc = "rehash", r < nb, bkt[r].dib = 0, r' = r + 1,
           UNCHANGED <<bkt, nb, growat, tab2, nb2, pc, entry, i, out, call, before, count,
                       params, oom>>
    PROVE  IInv'
<1>1. /\ nb \in Nat /\ r \in 0..nb /\ entry \in Bucket /\ Table(tab2, nb2) /\ InOrder(tab2, nb2)
  BY AtRehash
<1>2. i = 0
  BY DEF IInv, Typed
<1>3. Moved' = Moved
  BY <1>1 DEF Moved, Occupied
<1>4. Cardinality(Occupied(tab2, nb2)) = Cardinality(Moved)
  BY DEF IInv, Counted
<1>5. \A k \in Key, v \in Val : KeepsItem(tab2, nb2, k, v)
                                   <=> \E x \in Moved : HasItem(bkt, x, k, v)
  BY DEF IInv, Same
<1>6. r' \in 0..nb
  BY <1>1
<1> QED BY <1>1, <1>2, <1>3, <1>4, <1>5, <1>6, RehashGoesOn

\* An entry of the old table starts again from its home.
LEMMA RehashPicks ==
    ASSUME IInv, pc = "rehash", r < nb, bkt[r].dib # 0,
           entry' = [bkt[r] EXCEPT !.dib = 1], i' = Home(bkt[r].key, nb2), pc' = "place",
           UNCHANGED <<bkt, nb, growat, scratch, out, call, before, count, params, oom>>
    PROVE  IInv'
<1>1. /\ nb \in Nat /\ nb2 \in Nat /\ nb2 > 0 /\ r \in 0..(nb - 1)
      /\ Table(tab2, nb2) /\ InOrder(tab2, nb2) /\ Table(bkt, nb) /\ InOrder(bkt, nb)
  BY AtRehash
<1>2. bkt[r] \in Item /\ bkt[r].dib > 0
  <2>1. bkt[r].dib \in Nat /\ (bkt[r].dib > 0 => bkt[r] \in Item)
    BY <1>1, Cells
  <2> QED BY <2>1
<1>3. entry' \in Item /\ entry'.dib = 1 /\ entry'.key = bkt[r].key /\ entry'.val = bkt[r].val
  BY <1>2 DEF Item
<1>4. AtProbe(tab2, nb2, entry', i')
  BY <1>1, <1>3, StartProbe
<1>5. Moved' = Moved \cup {r} /\ r \notin Moved
  BY <1>1, <1>2 DEF Moved, Occupied, scratch
<1>6. \A k \in Key, v \in Val : KeepsItem(tab2, nb2, k, v)
                                   <=> \E x \in Moved : HasItem(bkt, x, k, v)
  BY DEF IInv, Same
<1>7. ~Keeps(tab2, nb2, entry'.key)
  <2>1. \A x \in Moved : x \in 0..(nb - 1) /\ x # r /\ bkt[x].dib > 0
    BY <1>1, <1>5 DEF Moved, Occupied
  <2>2. \A x \in Moved : bkt[x].key # bkt[r].key
    BY <1>1, <1>2, <2>1 DEF InOrder
  <2>3. \A v \in Val : ~KeepsItem(tab2, nb2, bkt[r].key, v)
    BY <1>2, <1>6, <2>2, ItemParts DEF HasItem
  <2> QED BY <1>1, <1>3, <2>3, KeepsIs
<1>8. Cardinality(Occupied(tab2, nb2)) + 1 = Cardinality(Moved')
  <2>1. Cardinality(Occupied(tab2, nb2)) = Cardinality(Moved)
    BY DEF IInv, Counted
  <2>2. IsFiniteSet(Moved)
    <3>1. Moved \subseteq Occupied(bkt, nb)
      BY DEF Moved
    <3>2. IsFiniteSet(Occupied(bkt, nb))
      BY <1>1, CountOccupied
    <3> QED BY <3>1, <3>2, FS_Subset
  <2> QED BY <1>5, <2>1, <2>2, FS_AddElement
<1>9. ASSUME NEW k \in Key, NEW v \in Val
      PROVE  KeepsItem(tab2, nb2, k, v) \/ (entry'.key = k /\ entry'.val = v)
                <=> \E x \in Moved' : HasItem(bkt, x, k, v)
  <2>1. HasItem(bkt, r, k, v) <=> entry'.key = k /\ entry'.val = v
    BY <1>2, <1>3 DEF HasItem
  <2> QED BY <1>5, <1>6, <2>1
<1>10. entry' \in Bucket /\ r' \in 0..nb /\ r' < nb
  BY <1>1, <1>3, ItemParts DEF scratch
<1> QED BY <1>1, <1>3, <1>4, <1>7, <1>8, <1>9, <1>10, RehashGoesOn DEF scratch

\* After the last bucket map2's table takes the place of the old one.
LEMMA RehashEnds ==
    ASSUME IInv, pc = "rehash", r = nb,
           bkt' = tab2, nb' = nb2, growat' = GrowAt(nb2, Clamp(GrowPct)),
           tab2' = NoTable, nb2' = 0, r' = 0,
           \/ /\ call.op = "set" /\ pc' = "set"
              /\ entry' = [dib |-> 1, key |-> call.key, val |-> call.val]
              /\ i' = Home(call.key, nb2)
              /\ UNCHANGED <<out, call, before>>
           \/ call.op = "delete" /\ Return("delete", call.val),
           UNCHANGED <<count, params, oom>>
    PROVE  IInv'
<1>1. /\ Existing /\ nb \in Nat /\ nb2 \in Nat /\ nb2 > 0 /\ count < nb2
      /\ call.op = "set" => count + 1 < nb2
      /\ Table(tab2, nb2) /\ InOrder(tab2, nb2) /\ call \in Request
      /\ count = Cardinality(Occupied(bkt, nb))
      /\ call.op = "set" => call.val \in Val
      /\ before \in [Key -> Val \cup {NoVal}]
      /\ call.op = "set" =>
            \A k \in Key, v \in Val : KeepsItem(bkt, nb, k, v) <=> before[k] = v
  BY AtRehash
<1>2. Moved = Occupied(bkt, nb)
  BY <1>1 DEF Moved, Occupied
<1>3. count' = Cardinality(Occupied(bkt', nb'))
  BY <1>1, <1>2 DEF IInv, Counted
<1>4. \A k \in Key, v \in Val : KeepsItem(tab2, nb2, k, v) <=> KeepsItem(bkt, nb, k, v)
  <2>1. \A k \in Key, v \in Val : KeepsItem(tab2, nb2, k, v)
                                   <=> \E x \in Moved : HasItem(bkt, x, k, v)
    BY DEF IInv, Same
  <2>2. ASSUME NEW k, NEW v
        PROVE  (\E x \in Moved : HasItem(bkt, x, k, v)) <=> KeepsItem(bkt, nb, k, v)
    BY <1>2 DEF KeepsItem, HasItem, Occupied
  <2> QED BY <2>1, <2>2
<1>5. Existing'
  <2>1. growat' \in Nat /\ growat' < nb'
    <3>1. GrowPct \in Nat
      BY SizeAssumption
    <3>2. Clamp(GrowPct) \in 50..95
      BY <3>1, Clamps
    <3>3. Clamp(GrowPct) \in 0..95
      BY <3>2
    <3> QED BY <1>1, <3>3, Loads
  <2> QED BY <1>1, <2>1 DEF Existing, params
<1>6. /\ Table(bkt', nb') /\ InOrder(bkt', nb') /\ Table(tab2', nb2') /\ InOrder(tab2', nb2')
  BY <1>1, EmptyIs DEF NoTable
<1>7. CASE /\ call.op = "set" /\ pc' = "set"
           /\ entry' = [dib |-> 1, key |-> call.key, val |-> call.val]
           /\ i' = Home(call.key, nb2)
           /\ UNCHANGED <<out, call, before>>
  <2>1. /\ call'.op = "set" /\ call' \in Request /\ call'.val \in Val
        /\ entry' = [dib |-> 1, key |-> call'.key, val |-> call'.val]
        /\ i' = Home(call'.key, nb') /\ count' + 1 < nb' /\ pc' = "set"
        /\ before' \in [Key -> Val \cup {NoVal}]
    BY <1>1, <1>7
  <2>2. \A k \in Key, v \in Val : KeepsItem(bkt', nb', k, v) <=> before'[k] = v
    BY <1>1, <1>4, <1>7
  <2> QED BY <1>3, <1>5, <1>6, <2>1, <2>2, SetStart
<1>8. CASE call.op = "delete" /\ Return("delete", call.val)
  <2>1. pc' = "idle" /\ entry' = Empty /\ i' = 0
    BY <1>8 DEF Return
  <2> QED BY <1>3, <1>5, <1>6, <2>1, Returned
<1> QED BY <1>7, <1>8

LEMMA RehashStepInv ==
    ASSUME IInv, RehashStep PROVE IInv'
<1>1. CASE /\ r < nb /\ bkt[r].dib = 0 /\ r' = r + 1
           /\ UNCHANGED <<bkt, nb, growat, tab2, nb2, pc, entry, i, out, call, before>>
  BY <1>1, RehashSkips DEF RehashStep
<1>2. CASE /\ r < nb /\ bkt[r].dib # 0
           /\ entry' = [bkt[r] EXCEPT !.dib = 1] /\ i' = Home(bkt[r].key, nb2)
           /\ pc' = "place"
           /\ UNCHANGED <<bkt, nb, growat, scratch, out, call, before>>
  BY <1>2, RehashPicks DEF RehashStep
<1>3. CASE /\ r = nb
           /\ bkt' = tab2 /\ nb' = nb2 /\ growat' = GrowAt(nb2, Clamp(GrowPct))
           /\ tab2' = NoTable /\ nb2' = 0 /\ r' = 0
           /\ \/ /\ call.op = "set" /\ pc' = "set"
                 /\ entry' = [dib |-> 1, key |-> call.key, val |-> call.val]
                 /\ i' = Home(call.key, nb2)
                 /\ UNCHANGED <<out, call, before>>
              \/ call.op = "delete" /\ Return("delete", call.val)
  BY <1>3, RehashEnds DEF RehashStep
<1> QED BY <1>1, <1>2, <1>3 DEF RehashStep
-----------------------------------------------------------------------------
\* What the inner loop of resize0 finds.
LEMMA AtPlace ==
    ASSUME IInv, pc = "place"
    PROVE  /\ nb \in Nat /\ nb2 \in Nat /\ nb2 > 0 /\ r \in 0..nb /\ r < nb
           /\ Table(tab2, nb2) /\ InOrder(tab2, nb2)
           /\ AtProbe(tab2, nb2, entry, i) /\ ~Keeps(tab2, nb2, entry.key)
           /\ Cardinality(Occupied(tab2, nb2)) + 1 = Cardinality(Moved)
           /\ \A k \in Key, v \in Val :
                 KeepsItem(tab2, nb2, k, v) \/ (entry.key = k /\ entry.val = v)
                    <=> \E x \in Moved : HasItem(bkt, x, k, v)
<1>1. /\ nb \in Nat /\ nb2 \in Nat /\ nb2 > 0 /\ r \in 0..nb
      /\ Table(tab2, nb2) /\ InOrder(tab2, nb2)
  BY AtRehash
<1>2. r < nb
  BY DEF IInv, Typed
<1>3. AtProbe(tab2, nb2, entry, i) /\ ~Keeps(tab2, nb2, entry.key)
  BY DEF IInv, Probing
<1>4. Cardinality(Occupied(tab2, nb2)) + 1 = Cardinality(Moved)
  BY DEF IInv, Counted
<1>5. \A k \in Key, v \in Val :
         KeepsItem(tab2, nb2, k, v) \/ (entry.key = k /\ entry.val = v)
            <=> \E x \in Moved : HasItem(bkt, x, k, v)
  BY DEF IInv, Same
<1> QED BY <1>1, <1>2, <1>3, <1>4, <1>5

\* The entry comes to an empty bucket of map2.
LEMMA PlaceEnds ==
    ASSUME IInv, pc = "place", tab2[i].dib = 0, Put(tab2, tab2', i, entry),
           pc' = "rehash", r' = r + 1, entry' = Empty, i' = 0,
           UNCHANGED <<bkt, nb, count, growat, params, oom, nb2, out, call, before>>
    PROVE  IInv'
<1>1. /\ nb \in Nat /\ nb2 \in Nat /\ nb2 > 0 /\ r \in 0..nb /\ r < nb
      /\ Table(tab2, nb2) /\ InOrder(tab2, nb2)
      /\ AtProbe(tab2, nb2, entry, i) /\ ~Keeps(tab2, nb2, entry.key)
  BY AtPlace
<1>2. /\ Cardinality(Occupied(tab2, nb2)) + 1 = Cardinality(Moved)
      /\ \A k \in Key, v \in Val :
            KeepsItem(tab2, nb2, k, v) \/ (entry.key = k /\ entry.val = v)
               <=> \E x \in Moved : HasItem(bkt, x, k, v)
  BY AtPlace
<1>3. /\ Table(tab2', nb2) /\ InOrder(tab2', nb2)
      /\ Occupied(tab2', nb2) = Occupied(tab2, nb2) \cup {i} /\ i \notin Occupied(tab2, nb2)
  BY <1>1, PutEmpty
<1>4. \A k, v : KeepsItem(tab2', nb2, k, v) <=>
                   KeepsItem(tab2, nb2, k, v) \/ (entry.key = k /\ entry.val = v)
  BY <1>1, PutEmpty
<1>5. Moved' = Moved
  <2>1. \A x \in 0..(nb - 1) : x < r \/ x = r <=> x < r + 1
    BY <1>1
  <2> QED BY <2>1 DEF Moved, Occupied
<1>6. Cardinality(Occupied(tab2', nb2)) = Cardinality(Moved')
  BY <1>1, <1>2, <1>3, <1>5, CountOccupied
<1>7. \A k \in Key, v \in Val :
         KeepsItem(tab2', nb2, k, v) \/ (pc' = "place" /\ entry'.key = k /\ entry'.val = v)
            <=> \E x \in Moved' : HasItem(bkt, x, k, v)
  BY <1>2, <1>4, <1>5
<1>8. entry' \in Bucket /\ r' \in 0..nb
  BY <1>1 DEF Empty, Bucket
<1> QED BY <1>3, <1>6, <1>7, <1>8, RehashGoesOn

\* Or it goes on past one at least as far from its home.
LEMMA PlacePasses ==
    ASSUME IInv, pc = "place", ~(tab2[i].dib < entry.dib), Further(entry, entry'),
           i' = Nxt(i, nb2),
           UNCHANGED <<bkt, nb, count, growat, params, oom, tab2, nb2, r, pc, out, call, before>>
    PROVE  IInv'
<1>1. /\ nb \in Nat /\ nb2 \in Nat /\ nb2 > 0 /\ r \in 0..nb /\ r < nb
      /\ Table(tab2, nb2) /\ InOrder(tab2, nb2)
      /\ AtProbe(tab2, nb2, entry, i) /\ ~Keeps(tab2, nb2, entry.key)
  BY AtPlace
<1>2. /\ Cardinality(Occupied(tab2, nb2)) + 1 = Cardinality(Moved)
      /\ \A k \in Key, v \in Val :
            KeepsItem(tab2, nb2, k, v) \/ (entry.key = k /\ entry.val = v)
               <=> \E x \in Moved : HasItem(bkt, x, k, v)
  BY AtPlace
<1>3. AtProbe(tab2, nb2, entry', i')
  BY <1>1, GoOn
<1>4. entry \in Item
  BY <1>1 DEF AtProbe
<1>5. entry' \in Bucket /\ entry'.key = entry.key /\ entry'.val = entry.val
  BY <1>4, FurtherIs, ItemParts
<1>6. Moved' = Moved
  BY DEF Moved, Occupied
<1>7. /\ Table(tab2', nb2) /\ InOrder(tab2', nb2) /\ r' \in 0..nb /\ r' < nb
      /\ AtProbe(tab2', nb2, entry', i') /\ ~Keeps(tab2', nb2, entry'.key)
      /\ Cardinality(Occupied(tab2', nb2)) + 1 = Cardinality(Moved')
  BY <1>1, <1>2, <1>3, <1>5, <1>6
<1>8. \A k \in Key, v \in Val :
         KeepsItem(tab2', nb2, k, v) \/ (pc' = "place" /\ entry'.key = k /\ entry'.val = v)
            <=> \E x \in Moved' : HasItem(bkt, x, k, v)
  BY <1>2, <1>5, <1>6
<1> QED BY <1>5, <1>7, <1>8, RehashGoesOn

\* Or it takes the place of one closer to its home, which goes on.
LEMMA PlaceTakes ==
    ASSUME IInv, pc = "place", tab2[i].dib # 0, tab2[i].dib < entry.dib,
           Put(tab2, tab2', i, entry), Further(tab2[i], entry'), i' = Nxt(i, nb2),
           UNCHANGED <<bkt, nb, count, growat, params, oom, nb2, r, pc, out, call, before>>
    PROVE  IInv'
<1>1. /\ nb \in Nat /\ nb2 \in Nat /\ nb2 > 0 /\ r \in 0..nb /\ r < nb
      /\ Table(tab2, nb2) /\ InOrder(tab2, nb2)
      /\ AtProbe(tab2, nb2, entry, i) /\ ~Keeps(tab2, nb2, entry.key)
  BY AtPlace
<1>2. /\ Cardinality(Occupied(tab2, nb2)) + 1 = Cardinality(Moved)
      /\ \A k \in Key, v \in Val :
            KeepsItem(tab2, nb2, k, v) \/ (entry.key = k /\ entry.val = v)
               <=> \E x \in Moved : HasItem(bkt, x, k, v)
  BY AtPlace
<1>3. Table(tab2', nb2) /\ InOrder(tab2', nb2) /\ AtProbe(tab2', nb2, entry', Nxt(i, nb2))
  BY <1>1, TakePlace
<1>4. ~Keeps(tab2', nb2, entry'.key) /\ Occupied(tab2', nb2) = Occupied(tab2, nb2)
  BY <1>1, TakePlace
<1>5. \A k, v : KeepsItem(tab2', nb2, k, v) \/ (entry'.key = k /\ entry'.val = v) <=>
                   KeepsItem(tab2, nb2, k, v) \/ (entry.key = k /\ entry.val = v)
  BY <1>1, TakePlace
<1>6. entry' \in Bucket
  BY <1>3, ItemParts DEF AtProbe
<1>7. Moved' = Moved
  BY DEF Moved, Occupied
<1>8. /\ AtProbe(tab2', nb2, entry', i') /\ r' \in 0..nb /\ r' < nb
      /\ Cardinality(Occupied(tab2', nb2)) + 1 = Cardinality(Moved')
  BY <1>1, <1>2, <1>3, <1>4, <1>7
<1>9. \A k \in Key, v \in Val :
         KeepsItem(tab2', nb2, k, v) \/ (pc' = "place" /\ entry'.key = k /\ entry'.val = v)
            <=> \E x \in Moved' : HasItem(bkt, x, k, v)
  BY <1>2, <1>5, <1>7
<1> QED BY <1>3, <1>4, <1>6, <1>8, <1>9, RehashGoesOn

LEMMA PlaceStepInv ==
    ASSUME IInv, PlaceStep PROVE IInv'
<1>1. /\ UNCHANGED <<bkt, nb, count, growat, params, oom, nb2, out, call, before>>
      /\ pc = "place"
  BY DEF PlaceStep
<1>2. CASE /\ tab2[i].dib = 0
           /\ tab2' = [tab2 EXCEPT ![i] = entry]
           /\ pc' = "rehash" /\ r' = r + 1 /\ entry' = Empty /\ i' = 0
  <2>1. Put(tab2, tab2', i, entry)
    BY <1>2 DEF Put
  <2> QED BY <1>1, <1>2, <2>1, PlaceEnds
<1>3. CASE /\ tab2[i].dib # 0
           /\ IF tab2[i].dib < entry.dib
              THEN /\ tab2' = [tab2 EXCEPT ![i] = entry]
                   /\ entry' = [tab2[i] EXCEPT !.dib = @ + 1]
              ELSE /\ tab2' = tab2 /\ entry' = [entry EXCEPT !.dib = @ + 1]
           /\ i' = Nxt(i, nb2)
           /\ UNCHANGED <<pc, r>>
  <2>1. CASE tab2[i].dib < entry.dib
    <3>1. Put(tab2, tab2', i, entry) /\ Further(tab2[i], entry')
      BY <1>3, <2>1 DEF Put, Further
    <3> QED BY <1>1, <1>3, <2>1, <3>1, PlaceTakes
  <2>2. CASE ~(tab2[i].dib < entry.dib)
    <3>1. Further(entry, entry')
      BY <1>3, <2>2 DEF Further
    <3> QED BY <1>1, <1>3, <2>2, <3>1, PlacePasses
  <2> QED BY <2>1, <2>2
<1> QED BY <1>2, <1>3 DEF PlaceStep, GivesWay
-----------------------------------------------------------------------------
LEMMA NextInv ==
    ASSUME IInv, [Next]_vars PROVE IInv'
<1>1. CASE \E c \in Caps : New(c)
  BY <1>1, NewInv
<1>2. CASE Free
  BY <1>2, FreeInv
<1>3. CASE \E b \in BOOLEAN : Clear(b)
  BY <1>3, ClearInv
<1>4. CASE \E f \in Factors : SetLoadFactor(f)
  BY <1>4, SetLoadFactorInv
<1>5. CASE \E p \in Powers : SetGrowByPower(p)
  BY <1>5, SetGrowByPowerInv
<1>6. CASE \E k \in Key, v \in Val : SetCall(k, v)
  BY <1>6, SetCallInv
<1>7. CASE \E k \in Key : SetOutOfMemory(k)
  BY <1>7, SetOutOfMemoryInv
<1>8. CASE \E k \in Key : GetCall(k) \/ DeleteCall(k)
  BY <1>8, GetCallInv, DeleteCallInv
<1>9. CASE GetStep
  BY <1>9, GetStepInv
<1>10. CASE SetStep
  BY <1>10, SetStepInv
<1>11. CASE FindStep
  BY <1>11, FindStepInv
<1>12. CASE ShiftStep
  BY <1>12, ShiftStepInv
<1>13. CASE RehashStep
  BY <1>13, RehashStepInv
<1>14. CASE PlaceStep
  BY <1>14, PlaceStepInv
<1>15. CASE UNCHANGED vars
  BY <1>15 DEF IInv, Typed, Sized, Calling, TablesInOrder, Counted, Probing, Same, Moved, vars
<1> QED
  BY <1>1, <1>2, <1>3, <1>4, <1>5, <1>6, <1>7, <1>8, <1>9, <1>10, <1>11, <1>12, <1>13,
     <1>14, <1>15 DEF Next

LEMMA AlwaysIInv == Spec => []IInv
<1>1. Init => IInv
  BY InitInv
<1>2. IInv /\ [Next]_vars => IInv'
  BY NextInv
<1> QED BY <1>1, <1>2, PTL DEF Spec
-----------------------------------------------------------------------------
\* The types hold in every state.
THEOREM HashMapTypeCorrect == Spec => []TypeOK
<1>1. IInv => TypeOK
  <2> SUFFICES ASSUME IInv PROVE TypeOK
    OBVIOUS
  <2>1. /\ pc \in Busy \cup {"none", "idle"} /\ oom \in BOOLEAN
        /\ nb \in Nat /\ nb2 \in Nat /\ cap \in Nat /\ count \in Nat /\ growat \in Nat
        /\ entry \in Bucket /\ r \in 0..nb
    BY DEF IInv, Typed
  <2>2. bkt \in [0..(nb - 1) -> Bucket] /\ tab2 \in [0..(nb2 - 1) -> Bucket]
    BY DEF IInv, Typed, Table
  <2>3. i \in 0..(nb - 1) \cup 0..(nb2 - 1) \cup {0}
    BY DEF IInv, Typed, Busy
  <2> QED BY <2>1, <2>2, <2>3 DEF TypeOK
<1> QED BY <1>1, AlwaysIInv, PTL

\* After every turn of every loop the tables are in robin hood order, but for the
\* one hole of a backward shift, so that no probe stops at a hole before it has
\* reached its key.
THEOREM TablesStayInOrder == Spec => []TablesInOrder
<1>1. IInv => TablesInOrder
  BY DEF IInv
<1> QED BY <1>1, AlwaysIInv, PTL

\* No table is full while a probe runs in it.
THEOREM RoomIsLeft == Spec => []RoomLeft
<1>1. IInv => RoomLeft
  <2> SUFFICES ASSUME IInv PROVE RoomLeft
    OBVIOUS
  <2>1. ASSUME pc \in Busy \ {"shift"} PROVE count < nb /\ count = Cardinality(Occupied(bkt, nb))
    BY <2>1 DEF IInv, Sized, Counted, Busy
  <2>2. ASSUME pc = "place" PROVE Cardinality(Occupied(tab2, nb2)) < nb2
    <3>1. /\ nb \in Nat /\ nb2 \in Nat /\ count < nb2 /\ count = Cardinality(Occupied(bkt, nb))
      BY <2>2, AtRehash
    <3>2. Cardinality(Occupied(tab2, nb2)) + 1 = Cardinality(Moved)
      BY <2>2 DEF IInv, Counted
    <3>3. IsFiniteSet(Occupied(bkt, nb)) /\ Cardinality(Occupied(bkt, nb)) \in Nat
          /\ Cardinality(Occupied(tab2, nb2)) \in Nat
      BY <3>1, CountOccupied
    <3>4. Moved \subseteq Occupied(bkt, nb)
      BY DEF Moved
    <3>5. Cardinality(Moved) <= Cardinality(Occupied(bkt, nb)) /\ Cardinality(Moved) \in Nat
      BY <3>3, <3>4, FS_Subset, FS_CardinalityType
    <3> QED BY <3>1, <3>2, <3>3, <3>5
  <2> QED BY <2>1, <2>2 DEF RoomLeft
<1> QED BY <1>1, AlwaysIInv, PTL

\* The keys of a table, and of a part of it, by their items.
LEMMA KeysAre ==
    ASSUME NEW n \in Nat, NEW t, Table(t, n), NEW S, S \subseteq Occupied(t, n)
    PROVE  {t[x].key : x \in S} = {k \in Key : \E v \in Val : \E x \in S : HasItem(t, x, k, v)}
<1>1. \A x \in S : t[x].dib > 0 /\ t[x].key \in Key /\ t[x].val \in Val
  BY Cells DEF Occupied
<1> QED BY <1>1 DEF HasItem

\* No entry is lost or doubled while entries push each other along in a set or a
\* rehash, or are shifted back by a delete.
THEOREM NothingIsLostInFlight == Spec => []InFlight
<1>1. IInv => InFlight
  <2> SUFFICES ASSUME IInv PROVE InFlight
    OBVIOUS
  <2> DEFINE had == {k \in Key : before[k] # NoVal}
             keys == {bkt[x].key : x \in Occupied(bkt, nb)}
             keys2 == {tab2[x].key : x \in Occupied(tab2, nb2)}
             left == {x \in Occupied(bkt, nb) : x > r \/ (x = r /\ pc = "rehash")}
             flying == IF pc \in {"place", "set"} THEN {entry.key} ELSE {}
  <2>0. nb \in Nat /\ nb2 \in Nat /\ Table(bkt, nb) /\ Table(tab2, nb2)
    BY DEF IInv, Typed
  <2>1. pc \in Busy => had = {k \in Key : \E v \in Val : before[k] = v}
    BY NoKeyAssumption DEF IInv, Calling
  <2>2. keys = {k \in Key : \E v \in Val : KeepsItem(bkt, nb, k, v)}
    <3>1. keys = {k \in Key : \E v \in Val : \E x \in Occupied(bkt, nb) : HasItem(bkt, x, k, v)}
      BY <2>0, KeysAre
    <3>2. \A k, v : (\E x \in Occupied(bkt, nb) : HasItem(bkt, x, k, v)) <=> KeepsItem(bkt, nb, k, v)
      BY DEF KeepsItem, HasItem, Occupied
    <3> QED BY <3>1, <3>2
  <2>3. keys2 = {k \in Key : \E v \in Val : KeepsItem(tab2, nb2, k, v)}
    <3>1. keys2 = {k \in Key : \E v \in Val : \E x \in Occupied(tab2, nb2) : HasItem(tab2, x, k, v)}
      BY <2>0, KeysAre
    <3>2. \A k, v : (\E x \in Occupied(tab2, nb2) : HasItem(tab2, x, k, v)) <=> KeepsItem(tab2, nb2, k, v)
      BY DEF KeepsItem, HasItem, Occupied
    <3> QED BY <3>1, <3>2
  <2>4. ASSUME pc = "place" PROVE entry.key \notin keys2
    <3>1. ~Keeps(tab2, nb2, entry.key)
      BY <2>4 DEF IInv, Probing
    <3> QED BY <3>1 DEF Keeps, Has, Occupied
  <2>5. ASSUME pc \in {"rehash", "place"}
        PROVE  {bkt[x].key : x \in left} \cup keys2 \cup flying
                  = IF call.op = "delete" THEN had \ {call.key} ELSE had
    <3>1. Occupied(bkt, nb) = left \cup Moved
      BY <2>0, <2>5 DEF Moved, Occupied, IInv, Typed
    <3>2. keys = {bkt[x].key : x \in left} \cup {bkt[x].key : x \in Moved}
      BY <3>1
    <3>3. {bkt[x].key : x \in Moved} = {k \in Key : \E v \in Val : \E x \in Moved : HasItem(bkt, x, k, v)}
      <4>1. Moved \subseteq Occupied(bkt, nb)
        BY DEF Moved
      <4> QED BY <2>0, <4>1, KeysAre
    <3>4. keys2 \cup flying = {bkt[x].key : x \in Moved}
      <4>1. CASE pc = "rehash"
        <5>1. \A k \in Key, v \in Val : KeepsItem(tab2, nb2, k, v)
                                       <=> \E x \in Moved : HasItem(bkt, x, k, v)
          BY <4>1 DEF IInv, Same
        <5>2. flying = {}
          BY <4>1
        <5> HIDE DEF keys2, flying
        <5> QED BY <2>3, <3>3, <5>1, <5>2
      <4>2. CASE pc = "place"
        <5>1. \A k \in Key, v \in Val : (KeepsItem(tab2, nb2, k, v) \/ (entry.key = k /\ entry.val = v))
                                       <=> \E x \in Moved : HasItem(bkt, x, k, v)
          BY <4>2 DEF IInv, Same
        <5>2. flying = {entry.key}
          BY <4>2
        <5>3. entry.key \in Key /\ entry.val \in Val
          BY <4>2, ItemParts DEF IInv, Probing, AtProbe
        <5> HIDE DEF keys2, flying
        <5> QED BY <2>3, <3>3, <5>1, <5>2, <5>3
      <4> QED BY <2>5, <4>1, <4>2
    <3>5. keys = IF call.op = "delete" THEN had \ {call.key} ELSE had
      <4>1. \A k \in Key, v \in Val : KeepsItem(bkt, nb, k, v) <=>
                                         before[k] = v /\ (call.op = "delete" => k # call.key)
        BY <2>5 DEF IInv, Same, Calling
      <4>2. had = {k \in Key : \E v \in Val : before[k] = v}
        BY <2>1, <2>5 DEF Busy
      <4> HIDE DEF keys, had
      <4> QED BY <2>2, <4>1, <4>2
    <3> QED BY <3>2, <3>4, <3>5
  <2>6. ASSUME pc = "set" PROVE keys \cup keys2 \cup flying = had \cup {call.key}
    <3>1. keys2 = {} /\ flying = {entry.key}
      BY <2>6 DEF IInv, Typed, Occupied
    <3>2. had = {k \in Key : \E v \in Val : before[k] = v}
      BY <2>1, <2>6 DEF Busy
    <3>3. entry.key \in Key /\ entry.val \in Val /\ call.key \in Key /\ call.val \in Val
      BY <2>6, ItemParts DEF IInv, Probing, AtProbe, Calling, Busy, Request
    <3>4. CASE entry.key = call.key
      <4>1. \A k \in Key, v \in Val : KeepsItem(bkt, nb, k, v) <=> before[k] = v
        BY <2>6, <3>4 DEF IInv, Same
      <4> HIDE DEF keys, had, keys2, flying
      <4> QED BY <2>2, <3>1, <3>2, <3>4, <4>1
    <3>5. CASE entry.key # call.key
      <4>1. \A k \in Key, v \in Val : (KeepsItem(bkt, nb, k, v) \/ (entry.key = k /\ entry.val = v))
                                       <=> IF k = call.key THEN v = call.val ELSE before[k] = v
        BY <2>6, <3>5 DEF IInv, Same
      <4> HIDE DEF keys, had, keys2, flying
      <4> QED BY <2>2, <3>1, <3>2, <3>3, <4>1
    <3> QED BY <3>4, <3>5
  <2>7. ASSUME pc = "set", entry.key # call.key PROVE before[call.key] = NoVal /\ entry.key \notin keys
    <3>1. before[call.key] = NoVal /\ ~Keeps(bkt, nb, entry.key)
      BY <2>7 DEF IInv, Probing
    <3> QED BY <3>1 DEF Keeps, Has, Occupied
  <2>8. ASSUME pc = "shift"
        PROVE  {bkt[x].key : x \in Occupied(bkt, nb) \ {i}} = had \ {call.key}
    <3>1. {bkt[x].key : x \in Occupied(bkt, nb) \ {i}} =
             {k \in Key : \E v \in Val : \E x \in Occupied(bkt, nb) \ {i} : HasItem(bkt, x, k, v)}
      BY <2>0, KeysAre
    <3>2. \A k, v : (\E x \in Occupied(bkt, nb) \ {i} : HasItem(bkt, x, k, v))
                       <=> \E x \in 0..(nb - 1) \ {i} : HasItem(bkt, x, k, v)
      BY DEF HasItem, Occupied
    <3>3. \A k \in Key, v \in Val : (\E x \in 0..(nb - 1) \ {i} : HasItem(bkt, x, k, v))
                                       <=> before[k] = v /\ k # call.key
      BY <2>8 DEF IInv, Same
    <3>4. had = {k \in Key : \E v \in Val : before[k] = v}
      BY <2>1, <2>8 DEF Busy
    <3> HIDE DEF had
    <3> QED BY <3>1, <3>2, <3>3, <3>4
  <2> QED BY <2>4, <2>5, <2>6, <2>7, <2>8 DEF InFlight
<1> QED BY <1>1, AlwaysIInv, PTL
-----------------------------------------------------------------------------
\* The map that the abstract specification sees.
Dict == IF pc \in Busy THEN before ELSE Contents

\* The steps of the abstract map.
LEMMA GetMaps ==
    ASSUME NEW k \in Key, out' = [op |-> "get", key |-> k, res |-> Dict[k]], Dict' = Dict
    PROVE  Abs!ANext
BY DEF Abs!ANext, Abs!AGet, Dict

LEMMA SetMaps ==
    ASSUME NEW k \in Key, NEW v \in Val, out' = [op |-> "set", key |-> k, res |-> Dict[k]],
           Dict' = [Dict EXCEPT ![k] = v]
    PROVE  Abs!ANext
BY DEF Abs!ANext, Abs!ASet, Dict

LEMMA DeleteMaps ==
    ASSUME NEW k \in Key, out' = [op |-> "delete", key |-> k, res |-> Dict[k]],
           Dict' = [Dict EXCEPT ![k] = NoVal]
    PROVE  Abs!ANext
BY DEF Abs!ANext, Abs!ADelete, Dict

LEMMA StutterMaps ==
    ASSUME out' = out, Dict' = Dict PROVE UNCHANGED Abs!absVars
BY DEF Abs!absVars, Dict

\* What a table in order holds is known by its items.
LEMMA ContentsAre ==
    ASSUME nb' \in Nat, Table(bkt', nb'), InOrder(bkt', nb'),
           NEW f \in [Key -> Val \cup {NoVal}],
           \A k \in Key, v \in Val : KeepsItem(bkt', nb', k, v) <=> f[k] = v
    PROVE  Contents' = f
<1>1. /\ ItemsOf(bkt', nb') \in [Key -> Val \cup {NoVal}]
      /\ \A k \in Key, v \in Val : KeepsItem(bkt', nb', k, v) <=> ItemsOf(bkt', nb')[k] = v
  BY ItemsAre
<1>2. ItemsOf(bkt', nb') = f
  BY <1>1, SameMap
<1> QED BY <1>2 DEF Contents

\* An empty table holds nothing.
LEMMA ContentsNothing ==
    ASSUME nb' \in Nat, bkt' = EmptyTable(nb') PROVE Contents' = Nothing
<1>1. /\ Table(bkt', nb') /\ InOrder(bkt', nb')
      /\ \A k, v : ~KeepsItem(bkt', nb', k, v)
  BY EmptyIs
<1>2. Nothing \in [Key -> Val \cup {NoVal}] /\ \A k \in Key, v \in Val : Nothing[k] # v
  BY NoKeyAssumption DEF Nothing
<1> QED BY <1>1, <1>2, ContentsAre

\* Without a map there is nothing either.
LEMMA NoMapIsEmpty ==
    ASSUME IInv, pc = "none" PROVE Contents = Nothing
<1>1. nb = 0
  BY DEF IInv, Sized
<1>2. Occupied(bkt, nb) = {}
  BY <1>1 DEF Occupied
<1> QED BY <1>2 DEF Contents, ItemsOf, Nothing

\* A call that only begins, or goes on, is not seen.
LEMMA BeginMaps ==
    ASSUME NEW o, NEW k, NEW v, Begin(o, k, v), pc' \in Busy, out' = out
    PROVE  UNCHANGED Abs!absVars
<1>1. Dict' = Dict
  BY DEF Begin, Dict, Busy
<1> QED BY <1>1, StutterMaps

LEMMA GoesOnMaps ==
    ASSUME pc \in Busy, pc' \in Busy, UNCHANGED <<out, before>>
    PROVE  UNCHANGED Abs!absVars
<1>1. Dict' = Dict
  BY DEF Dict
<1> QED BY <1>1, StutterMaps

\* The map of a call that returns.
LEMMA ReturnIs ==
    ASSUME pc \in Busy, NEW o, NEW v, Return(o, v)
    PROVE  Dict = before /\ Dict' = Contents' /\ out' = [op |-> o, key |-> call.key, res |-> v]
BY DEF Return, Dict, Busy

\* Every action is a step of the abstract map or is not seen by it.
LEMMA NewMaps ==
    ASSUME IInv, NEW c \in Caps, New(c) PROVE Abs!ANext
<1>1. Dict = Nothing
  BY NoMapIsEmpty DEF New, Dict, Busy
<1>2. Dict' = Nothing
  <2>1. c \in Nat
    BY SizeAssumption
  <2>2. nb' \in Nat /\ bkt' = EmptyTable(nb') /\ pc' = "idle"
    BY <2>1, CapForIs DEF New
  <2> QED BY <2>2, ContentsNothing DEF Dict, Busy
<1>3. out' = [op |-> "new"]
  BY DEF New
<1> QED BY <1>1, <1>2, <1>3 DEF Abs!ANext, Abs!ANew, Abs!Nothing, Nothing, Dict

LEMMA FreeMaps ==
    ASSUME Free PROVE Abs!ANext
<1>1. Dict' = Nothing
  <2>1. nb' \in Nat /\ bkt' = EmptyTable(nb') /\ pc' = "none"
    BY DEF Free, NoTable
  <2> QED BY <2>1, ContentsNothing DEF Dict, Busy
<1>2. out' = [op |-> "free"]
  BY DEF Free
<1> QED BY <1>1, <1>2 DEF Abs!ANext, Abs!ADrop, Abs!Nothing, Nothing, Dict

LEMMA ClearMaps ==
    ASSUME IInv, NEW u \in BOOLEAN, Clear(u) PROVE Abs!ANext
<1>1. Dict' = Nothing
  <2>1. nb' \in Nat /\ bkt' = EmptyTable(nb') /\ pc' = "idle"
    BY DEF Clear, IInv, Typed
  <2> QED BY <2>1, ContentsNothing DEF Dict, Busy
<1>2. out' = [op |-> "clear"]
  BY DEF Clear
<1> QED BY <1>1, <1>2 DEF Abs!ANext, Abs!ADrop, Abs!Nothing, Nothing, Dict

LEMMA SettingMaps ==
    ASSUME UNCHANGED <<bkt, nb, pc, out, before>> PROVE UNCHANGED Abs!absVars
<1>1. Dict' = Dict
  BY DEF Dict, Contents
<1> QED BY <1>1, StutterMaps

LEMMA SetOutOfMemoryMaps ==
    ASSUME NEW k \in Key, SetOutOfMemory(k) PROVE Abs!ANext
<1>1. Dict' = Dict /\ out' = [op |-> "set_oom", key |-> k, res |-> NoVal]
  BY DEF SetOutOfMemory, Dict, Contents
<1> QED BY <1>1 DEF Abs!ANext, Abs!ASetOOM, Dict

LEMMA CallMaps ==
    ASSUME NEW k \in Key, (\E v \in Val : SetCall(k, v)) \/ GetCall(k) \/ DeleteCall(k)
    PROVE  UNCHANGED Abs!absVars
<1>1. ASSUME NEW v \in Val, SetCall(k, v) PROVE UNCHANGED Abs!absVars
  <2>1. Begin("set", k, v) /\ pc' \in Busy /\ out' = out
    BY <1>1 DEF SetCall, StartResize, Busy
  <2> QED BY <2>1, BeginMaps
<1>2. CASE GetCall(k)
  <2>1. Begin("get", k, NoVal) /\ pc' \in Busy /\ out' = out
    BY <1>2 DEF GetCall, Busy
  <2> QED BY <2>1, BeginMaps
<1>3. CASE DeleteCall(k)
  <2>1. Begin("delete", k, NoVal) /\ pc' \in Busy /\ out' = out
    BY <1>3 DEF DeleteCall, Busy
  <2> QED BY <2>1, BeginMaps
<1> QED BY <1>1, <1>2, <1>3

\* A search that meets an empty bucket has no key to find.
LEMMA NotFound ==
    ASSUME IInv, pc \in {"get", "find"}, bkt[i].dib = 0 PROVE before[call.key] = NoVal
<1>1. /\ Existing /\ call.key \in Key /\ Table(bkt, nb) /\ InOrder(bkt, nb)
      /\ before \in [Key -> Val \cup {NoVal}]
  BY AtBucket
<1>2. nb \in Nat /\ nb > 0
  BY <1>1 DEF Existing
<1>3. PICK d \in Nat \ {0} : Spot(call.key, d, nb) = i /\ NotPassed(bkt, nb, call.key, d)
  BY DEF IInv, Probing
<1>4. ~Keeps(bkt, nb, call.key)
  <2>1. Keeps(bkt, nb, call.key) => d <= bkt[i].dib
    BY <1>1, <1>2, <1>3, ProbeMeets
  <2> QED BY <2>1
<1>5. \A v \in Val : ~KeepsItem(bkt, nb, call.key, v)
  BY <1>2, <1>1, <1>4, KeepsIs
<1>6. \A v \in Val : KeepsItem(bkt, nb, call.key, v) <=> before[call.key] = v
  BY <1>1 DEF IInv, Same
<1> QED BY <1>1, <1>5, <1>6

\* And one that meets its key finds its item.
LEMMA Found ==
    ASSUME IInv, pc \in {"get", "find"} \/ (pc = "set" /\ entry.key = call.key),
           bkt[i].dib # 0, bkt[i].key = call.key
    PROVE  before[call.key] = bkt[i].val
<1>1. i \in 0..(nb - 1) /\ call.key \in Key /\ Table(bkt, nb) /\ bkt[i].dib \in Nat /\ Existing
  BY AtBucket
<1>2. bkt[i].val \in Val /\ bkt[i].dib > 0
  BY <1>1, Cells DEF Existing
<1>3. KeepsItem(bkt, nb, call.key, bkt[i].val)
  BY <1>1, <1>2 DEF KeepsItem, HasItem
<1>4. \A v \in Val : KeepsItem(bkt, nb, call.key, v) <=> before[call.key] = v
  BY <1>1 DEF IInv, Same
<1> QED BY <1>2, <1>3, <1>4

LEMMA GetStepMaps ==
    ASSUME IInv, GetStep PROVE [Abs!ANext]_Abs!absVars
<1>1. pc = "get" /\ UNCHANGED <<bkt, nb>>
  BY DEF GetStep
<1>2. /\ Existing /\ call.key \in Key /\ Table(bkt, nb) /\ InOrder(bkt, nb)
      /\ before \in [Key -> Val \cup {NoVal}]
  BY <1>1, AtBucket
<1>3. ASSUME NEW v, Return("get", v), v = before[call.key] PROVE Abs!ANext
  <2>1. Dict = before /\ Dict' = Contents' /\ out' = [op |-> "get", key |-> call.key, res |-> v]
    BY <1>1, <1>3, ReturnIs DEF Busy
  <2>2. Contents' = before
    <3>1. \A k \in Key, w \in Val : KeepsItem(bkt', nb', k, w) <=> before[k] = w
      BY <1>1 DEF IInv, Same
    <3>2. nb' \in Nat /\ Table(bkt', nb') /\ InOrder(bkt', nb')
      BY <1>1, <1>2 DEF Existing
    <3> QED BY <1>2, <3>1, <3>2, ContentsAre
  <2>3. PICK k \in Key : k = call.key
    BY <1>2
  <2>4. out' = [op |-> "get", key |-> k, res |-> Dict[k]] /\ Dict' = Dict
    BY <1>3, <2>1, <2>2, <2>3
  <2> QED BY <2>4, GetMaps
<1>4. CASE bkt[i].dib = 0 /\ Return("get", NoVal)
  BY <1>1, <1>3, <1>4, NotFound
<1>5. CASE bkt[i].dib # 0 /\ bkt[i].key = call.key /\ Return("get", bkt[i].val)
  BY <1>1, <1>3, <1>5, Found
<1>6. CASE UNCHANGED <<pc, out, call, before, entry>>
  BY <1>1, <1>6, GoesOnMaps DEF Busy
<1> QED BY <1>4, <1>5, <1>6 DEF GetStep

\* A set that returns has put its item into the map.
LEMMA SetReturns ==
    ASSUME IInv, pc = "set", NEW w, Return("set", w), w = before[call.key],
           nb' \in Nat, Table(bkt', nb'), InOrder(bkt', nb'),
           \A k \in Key, v \in Val : KeepsItem(bkt', nb', k, v) <=>
                                        IF k = call.key THEN v = call.val ELSE before[k] = v
    PROVE  Abs!ANext
<1>1. PICK k, v : k = call.key /\ v = call.val
  OBVIOUS
<1>2. k \in Key /\ v \in Val /\ before \in [Key -> Val \cup {NoVal}]
  <2>1. call.op = "set" /\ call \in Request /\ call.val \in Val
        /\ before \in [Key -> Val \cup {NoVal}]
    BY DEF IInv, Calling, Busy
  <2> QED BY <1>1, <2>1 DEF Request
<1>3. Dict = before /\ Dict' = Contents' /\ out' = [op |-> "set", key |-> k, res |-> w]
  BY <1>1, ReturnIs DEF Busy
<1>4. Contents' = [before EXCEPT ![k] = v]
  <2> DEFINE f == [before EXCEPT ![k] = v]
  <2>1. f \in [Key -> Val \cup {NoVal}]
    BY <1>2
  <2>2. \A q \in Key, u \in Val : KeepsItem(bkt', nb', q, u) <=> f[q] = u
    BY <1>1, <1>2
  <2> HIDE DEF f
  <2>3. Contents' = f
    BY <2>1, <2>2, ContentsAre
  <2> QED BY <2>3 DEF f
<1>5. out' = [op |-> "set", key |-> k, res |-> Dict[k]] /\ Dict' = [Dict EXCEPT ![k] = v]
  BY <1>1, <1>3, <1>4
<1> QED BY <1>2, <1>5, SetMaps

\* A delete that returns has taken its key out.
LEMMA DeleteReturns ==
    ASSUME IInv, pc \in {"find", "shift", "rehash"}, NEW w, Return("delete", w),
           w = before[call.key], nb' \in Nat, Table(bkt', nb'), InOrder(bkt', nb'),
           \A k \in Key, v \in Val : KeepsItem(bkt', nb', k, v) <=> before[k] = v /\ k # call.key
    PROVE  Abs!ANext
<1>1. PICK k : k = call.key
  OBVIOUS
<1>2. k \in Key /\ before \in [Key -> Val \cup {NoVal}]
  <2>1. call \in Request /\ before \in [Key -> Val \cup {NoVal}]
    BY DEF IInv, Calling, Busy
  <2> QED BY <1>1, <2>1 DEF Request
<1>3. Dict = before /\ Dict' = Contents' /\ out' = [op |-> "delete", key |-> k, res |-> w]
  BY <1>1, ReturnIs DEF Busy
<1>4. Contents' = [before EXCEPT ![k] = NoVal]
  <2> DEFINE f == [before EXCEPT ![k] = NoVal]
  <2>1. f \in [Key -> Val \cup {NoVal}]
    BY <1>2
  <2>2. \A q \in Key, u \in Val : KeepsItem(bkt', nb', q, u) <=> f[q] = u
    BY <1>1, <1>2, NoKeyAssumption
  <2> HIDE DEF f
  <2>3. Contents' = f
    BY <2>1, <2>2, ContentsAre
  <2> QED BY <2>3 DEF f
<1>5. /\ out' = [op |-> "delete", key |-> k, res |-> Dict[k]]
      /\ Dict' = [Dict EXCEPT ![k] = NoVal]
  BY <1>1, <1>3, <1>4
<1> QED BY <1>2, <1>5, DeleteMaps

LEMMA SetStepMaps ==
    ASSUME IInv, SetStep PROVE [Abs!ANext]_Abs!absVars
<1>1. /\ Existing /\ i \in 0..(nb - 1) /\ call.key \in Key /\ Table(bkt, nb) /\ InOrder(bkt, nb)
  BY AtBucket DEF SetStep
<1>2. pc = "set" /\ nb' = nb
  BY DEF SetStep
<1>3. nb \in Nat /\ nb > 0
  BY <1>1 DEF Existing
<1>4. AtProbe(bkt, nb, entry, i) /\ entry \in Item
  BY <1>2 DEF IInv, Probing, AtProbe
<1>5. CASE bkt[i].dib = 0 /\ bkt' = [bkt EXCEPT ![i] = entry] /\ Return("set", NoVal)
  <2>1. bkt[i].dib < entry.dib
    BY <1>4, <1>5, ItemParts
  <2>2. /\ ~Keeps(bkt, nb, entry.key) /\ before[call.key] = NoVal
        /\ \A k \in Key, v \in Val : (KeepsItem(bkt, nb, k, v) \/ (entry.key = k /\ entry.val = v))
                                       <=> IF k = call.key THEN v = call.val ELSE before[k] = v
    BY <1>2, <2>1, SetMeets
  <2>3. Put(bkt, bkt', i, entry) /\ bkt[i].dib = 0
    BY <1>5 DEF Put
  <2>4. Table(bkt', nb) /\ InOrder(bkt', nb)
    BY <1>1, <1>3, <1>4, <2>2, <2>3, PutEmpty
  <2>5. \A k, v : KeepsItem(bkt', nb, k, v) <=>
                     KeepsItem(bkt, nb, k, v) \/ (entry.key = k /\ entry.val = v)
    BY <1>1, <1>3, <1>4, <2>2, <2>3, PutEmpty
  <2>6. Return("set", NoVal)
    BY <1>5
  <2> QED BY <1>2, <1>3, <2>2, <2>4, <2>5, <2>6, SetReturns
<1>6. CASE /\ bkt[i].dib # 0 /\ bkt[i].key = entry.key
           /\ bkt' = [bkt EXCEPT ![i].val = entry.val] /\ Return("set", bkt[i].val)
  <2>0. bkt[i].dib \in Nat /\ bkt[i].dib > 0
    BY <1>1, <1>6, Cells
  <2>1. entry.key = call.key /\ entry.val = call.val
    <3>1. Keeps(bkt, nb, entry.key)
      BY <1>1, <1>6, <2>0 DEF Keeps, Has
    <3> QED BY <1>2, <3>1 DEF IInv, Probing
  <2>2. Put(bkt, bkt', i, [bkt[i] EXCEPT !.val = entry.val]) /\ bkt[i].dib # 0
    BY <1>1, <1>6 DEF Put, Table
  <2>3. entry.val \in Val
    BY <1>4, ItemParts
  <2>4. Table(bkt', nb) /\ InOrder(bkt', nb)
    BY <1>1, <1>3, <2>2, <2>3, OverWrite
  <2>5. \A k, w : KeepsItem(bkt', nb, k, w) <=>
                     IF k = bkt[i].key THEN w = entry.val ELSE KeepsItem(bkt, nb, k, w)
    BY <1>1, <1>3, <2>2, <2>3, OverWrite
  <2>6. \A k \in Key, v \in Val : KeepsItem(bkt, nb, k, v) <=> before[k] = v
    BY <1>2, <2>1 DEF IInv, Same
  <2>7. bkt[i].val = before[call.key]
    BY <1>2, <1>6, <2>1, Found
  <2>8. Return("set", bkt[i].val) /\ bkt[i].key = call.key
    BY <1>6, <2>1
  <2>9. \A k \in Key, v \in Val : KeepsItem(bkt', nb', k, v) <=>
                                     IF k = call.key THEN v = call.val ELSE before[k] = v
    BY <1>2, <2>1, <2>5, <2>6, <2>8
  <2> QED BY <1>2, <1>3, <2>4, <2>7, <2>8, <2>9, SetReturns
<1>7. CASE UNCHANGED <<pc, out, call, before>>
  BY <1>2, <1>7, GoesOnMaps DEF Busy
<1> QED BY <1>5, <1>6, <1>7 DEF SetStep

LEMMA FindStepMaps ==
    ASSUME IInv, FindStep PROVE [Abs!ANext]_Abs!absVars
<1>1. pc = "find" /\ nb' = nb
  BY DEF FindStep
<1>2. /\ Existing /\ call.key \in Key /\ Table(bkt, nb) /\ InOrder(bkt, nb)
  BY <1>1, AtBucket
<1>3. CASE bkt[i].dib = 0 /\ bkt' = bkt /\ Return("delete", NoVal)
  <2>1. before[call.key] = NoVal
    BY <1>1, <1>3, NotFound
  <2>2. \A k \in Key, v \in Val : KeepsItem(bkt, nb, k, v) <=> before[k] = v
    BY <1>1 DEF IInv, Same
  <2>3. \A k \in Key, v \in Val : KeepsItem(bkt', nb', k, v) <=> before[k] = v /\ k # call.key
    BY <1>1, <1>3, <2>1, <2>2, NoKeyAssumption
  <2>4. nb' \in Nat /\ Table(bkt', nb') /\ InOrder(bkt', nb')
    BY <1>1, <1>2, <1>3 DEF Existing
  <2> QED BY <1>1, <1>3, <2>1, <2>3, <2>4, DeleteReturns
<1>4. CASE pc' = "shift" /\ UNCHANGED <<out, before, entry, i>>
  BY <1>1, <1>4, GoesOnMaps DEF Busy
<1>5. CASE UNCHANGED <<pc, out, call, before, entry>>
  BY <1>1, <1>5, GoesOnMaps DEF Busy
<1> QED BY <1>3, <1>4, <1>5 DEF FindStep

LEMMA ShiftStepMaps ==
    ASSUME IInv, ShiftStep PROVE [Abs!ANext]_Abs!absVars
<1>1. pc = "shift" /\ nb' = nb
  BY DEF ShiftStep
<1>2. CASE UNCHANGED <<count, pc, out, call, before, entry, scratch>>
  BY <1>1, <1>2, GoesOnMaps DEF Busy
<1>3. CASE StartResize(nb \div 2) /\ UNCHANGED <<out, call, before>>
  BY <1>1, <1>3, GoesOnMaps DEF Busy, StartResize
<1>4. CASE /\ bkt[Nxt(i, nb)].dib <= 1 /\ bkt' = [bkt EXCEPT ![i] = Empty]
           /\ Return("delete", call.val)
  <2>1. /\ i \in 0..(nb - 1) /\ nb \in Nat /\ Table(bkt, nb) /\ Holed(bkt, nb, i)
        /\ call.val = before[call.key]
        /\ \A k \in Key, v \in Val : (\E x \in 0..(nb - 1) \ {i} : HasItem(bkt, x, k, v))
                                      <=> before[k] = v /\ k # call.key
    BY <1>1, AtHole
  <2>2. Put(bkt, bkt', i, Empty) /\ bkt[Nxt(i, nb)].dib <= 1
    BY <1>4 DEF Put
  <2>3. Table(bkt', nb) /\ InOrder(bkt', nb)
    BY <2>1, <2>2, HoleCloses
  <2>4. \A k, v : KeepsItem(bkt', nb, k, v) <=>
                     \E z \in 0..(nb - 1) \ {i} : HasItem(bkt, z, k, v)
    BY <2>1, <2>2, HoleCloses
  <2>5. \A k \in Key, v \in Val : KeepsItem(bkt', nb', k, v) <=> before[k] = v /\ k # call.key
    BY <1>1, <2>1, <2>4
  <2>6. Return("delete", call.val)
    BY <1>4
  <2> QED BY <1>1, <2>1, <2>3, <2>5, <2>6, DeleteReturns
<1> QED BY <1>2, <1>3, <1>4 DEF ShiftStep

LEMMA RehashStepMaps ==
    ASSUME IInv, RehashStep PROVE [Abs!ANext]_Abs!absVars
<1>1. pc = "rehash"
  BY DEF RehashStep
<1>2. CASE pc' \in Busy /\ UNCHANGED <<out, call, before>>
  BY <1>1, <1>2, GoesOnMaps DEF Busy
<1>3. CASE r = nb /\ bkt' = tab2 /\ nb' = nb2 /\ call.op = "delete" /\ Return("delete", call.val)
  <2>1. nb \in Nat /\ nb2 \in Nat /\ Table(tab2, nb2) /\ InOrder(tab2, nb2)
    BY <1>1, AtRehash
  <2>2. \A k \in Key, v \in Val : KeepsItem(tab2, nb2, k, v)
                                     <=> \E x \in Moved : HasItem(bkt, x, k, v)
    BY <1>1 DEF IInv, Same
  <2>3. ASSUME NEW k, NEW v
        PROVE  (\E x \in Moved : HasItem(bkt, x, k, v)) <=> KeepsItem(bkt, nb, k, v)
    <3>1. Moved = Occupied(bkt, nb)
      BY <1>3, <2>1 DEF Moved, Occupied
    <3> QED BY <3>1 DEF KeepsItem, HasItem, Occupied
  <2>4. /\ \A k \in Key, v \in Val : KeepsItem(bkt, nb, k, v) <=> before[k] = v /\ k # call.key
        /\ call.val = before[call.key]
    BY <1>1, <1>3 DEF IInv, Same, Calling
  <2>5. \A k \in Key, v \in Val : KeepsItem(bkt', nb', k, v) <=> before[k] = v /\ k # call.key
    BY <1>3, <2>2, <2>3, <2>4
  <2>6. nb' \in Nat /\ Table(bkt', nb') /\ InOrder(bkt', nb') /\ Return("delete", call.val)
    BY <1>3, <2>1
  <2> QED BY <1>1, <2>4, <2>5, <2>6, DeleteReturns
<1> QED BY <1>1, <1>2, <1>3 DEF RehashStep, Busy

LEMMA PlaceStepMaps ==
    ASSUME PlaceStep PROVE UNCHANGED Abs!absVars
<1>1. pc = "place" /\ pc' \in Busy /\ UNCHANGED <<out, before>>
  BY DEF PlaceStep, Busy
<1> QED BY <1>1, GoesOnMaps DEF Busy

\* A map is what hashmap.h says: each call has its effect, and finds its result,
\* at one instant on a function from keys to items, however many steps of probes,
\* shifts and rehashes it takes.
THEOREM HashMapImplementsKVMap == Spec => ImplementsKVMap
<1>1. Init => Abs!AInit
  <2> SUFFICES ASSUME Init PROVE Abs!AInit
    OBVIOUS
  <2>1. Dict = Nothing
    <3>1. IInv /\ pc = "none"
      BY InitInv DEF Init
    <3> QED BY <3>1, NoMapIsEmpty DEF Dict, Busy
  <2> QED BY <2>1 DEF Init, Abs!AInit, Abs!Nothing, Nothing, Dict
<1>2. IInv /\ [Next]_vars => [Abs!ANext]_Abs!absVars
  <2> SUFFICES ASSUME IInv, [Next]_vars PROVE [Abs!ANext]_Abs!absVars
    OBVIOUS
  <2>1. CASE \E c \in Caps : New(c)
    BY <2>1, NewMaps
  <2>2. CASE Free
    BY <2>2, FreeMaps
  <2>3. CASE \E b \in BOOLEAN : Clear(b)
    BY <2>3, ClearMaps
  <2>4. CASE \E f \in Factors : SetLoadFactor(f)
    BY <2>4, SettingMaps DEF SetLoadFactor
  <2>5. CASE \E p \in Powers : SetGrowByPower(p)
    BY <2>5, SettingMaps DEF SetGrowByPower
  <2>6. CASE \E k \in Key, v \in Val : SetCall(k, v)
    BY <2>6, CallMaps
  <2>7. CASE \E k \in Key : SetOutOfMemory(k)
    BY <2>7, SetOutOfMemoryMaps
  <2>8. CASE \E k \in Key : GetCall(k) \/ DeleteCall(k)
    BY <2>8, CallMaps
  <2>9. CASE GetStep
    BY <2>9, GetStepMaps
  <2>10. CASE SetStep
    BY <2>10, SetStepMaps
  <2>11. CASE FindStep
    BY <2>11, FindStepMaps
  <2>12. CASE ShiftStep
    BY <2>12, ShiftStepMaps
  <2>13. CASE RehashStep
    BY <2>13, RehashStepMaps
  <2>14. CASE PlaceStep
    BY <2>14, PlaceStepMaps
  <2>15. CASE UNCHANGED vars
    BY <2>15, SettingMaps DEF vars
  <2> QED
    BY <2>1, <2>2, <2>3, <2>4, <2>5, <2>6, <2>7, <2>8, <2>9, <2>10, <2>11, <2>12, <2>13,
       <2>14, <2>15 DEF Next
<1> QED BY <1>1, <1>2, AlwaysIInv, PTL DEF Spec, ImplementsKVMap, Abs!ASpec
-----------------------------------------------------------------------------
\* What an iteration keeps, beside the map: the items it has got are those of the
\* buckets it has passed, and no call that its loop makes moves an entry.
Behind(c) == {bkt[x].key : x \in {y \in Occupied(bkt, nb) : y < c}}
Iterating ==
    cursor # -1 =>
        /\ cursor \in 0..nb /\ pc \in {"idle", "get", "set", "find"}
        /\ pc = "set" => entry.key = call.key /\ before[call.key] # NoVal
        /\ pc = "find" => before[call.key] = NoVal
        /\ seen \in Seq(Key) /\ Range(seen) = Behind(cursor)
        /\ IsFiniteSet(Range(seen)) /\ Cardinality(Range(seen)) = Len(seen)


\* So the map keeps its promises whatever is iterated.
THEOREM IterationIsNoStep == IterSpec => Spec
<1>1. IterInit => Init
  BY DEF IterInit
<1>2. [IterNext]_<<vars, iterVars>> => [Next]_vars
  <2>1. MapStep => Next
    BY DEF MapStep
  <2>2. IterStart \/ IterCall \/ IterStop => UNCHANGED vars
    BY DEF IterStart, IterCall, IterStop
  <2> QED BY <2>1, <2>2 DEF IterNext
<1> QED BY <1>1, <1>2, PTL DEF IterSpec, Spec

LEMMA AppendRange ==
    ASSUME NEW s \in Seq(Key), NEW k \in Key
    PROVE  /\ Append(s, k) \in Seq(Key) /\ Range(Append(s, k)) = Range(s) \cup {k}
           /\ Len(Append(s, k)) = Len(s) + 1 /\ Len(s) \in Nat
<1>1. /\ Append(s, k) \in Seq(Key) /\ Len(Append(s, k)) = Len(s) + 1 /\ Len(s) \in Nat
      /\ DOMAIN s = 1..Len(s) /\ DOMAIN Append(s, k) = 1..(Len(s) + 1)
      /\ \A j \in 1..Len(s) : Append(s, k)[j] = s[j]
      /\ Append(s, k)[Len(s) + 1] = k
  BY AppendProperties
<1>2. Range(Append(s, k)) = Range(s) \cup {k}
  <2>1. 1..(Len(s) + 1) = 1..Len(s) \cup {Len(s) + 1}
    BY <1>1
  <2> QED BY <1>1, <2>1 DEF Range
<1> QED BY <1>1, <1>2

\* Nothing is behind a cursor that has just been set.
LEMMA IterStartIterates ==
    ASSUME IInv, IterStart PROVE Iterating'
<1>1. nb \in Nat /\ cursor' = 0 /\ seen' = <<>> /\ bkt' = bkt /\ nb' = nb /\ pc' = "idle"
  BY DEF IInv, Typed, IterStart, NoIteration, vars
<1>2. Range(seen') = {}
  BY <1>1 DEF Range
<1>3. seen' \in Seq(Key) /\ Len(seen') = 0
  BY <1>1
<1>4. Behind(cursor)' = {}
  BY <1>1 DEF Behind, Occupied
<1>5. IsFiniteSet(Range(seen')) /\ Cardinality(Range(seen')) = 0
  BY <1>2, FS_EmptySet
<1>6. cursor' \in 0..nb'
  BY <1>1
<1> QED BY <1>1, <1>2, <1>3, <1>4, <1>5, <1>6 DEF Iterating

\* A turn of the loop gets the item of the first bucket ahead, whose key is not
\* in a bucket behind it.
LEMMA IterCallIterates ==
    ASSUME IInv, Iterating, IterCall PROVE Iterating'
<1> DEFINE ahead == NextItems(cursor)
<1>1. /\ pc = "idle" /\ cursor # -1 /\ cursor < nb /\ bkt' = bkt /\ nb' = nb /\ pc' = "idle"
      /\ cursor \in 0..nb /\ nb \in Nat /\ Table(bkt, nb)
  BY DEF IInv, Typed, IterCall, Iterating, vars
<1>2. /\ seen \in Seq(Key) /\ Range(seen) = Behind(cursor)
      /\ IsFiniteSet(Range(seen)) /\ Cardinality(Range(seen)) = Len(seen)
  BY <1>1 DEF Iterating
<1>3. CASE ahead = {} /\ cursor' = nb /\ seen' = seen
  <2>1. {y \in Occupied(bkt, nb) : y < nb} = {y \in Occupied(bkt, nb) : y < cursor}
    BY <1>1, <1>3 DEF NextItems, Occupied
  <2>2. Behind(cursor)' = Behind(cursor)
    BY <1>1, <1>3, <2>1 DEF Behind
  <2>3. cursor' \in 0..nb'
    BY <1>1, <1>3
  <2> QED BY <1>1, <1>2, <1>3, <2>2, <2>3 DEF Iterating
<1>4. ASSUME ahead # {} PROVE Min(ahead) \in ahead /\ \A y \in ahead : Min(ahead) <= y
  <2>1. ahead \in SUBSET Nat
    BY DEF NextItems, Occupied
  <2>2. \E m \in ahead : \A y \in ahead : m <= y
    BY <1>4, <2>1, LeastNatural
  <2> QED BY <2>2 DEF Min
<1>5. CASE ahead # {} /\ cursor' = Min(ahead) + 1 /\ seen' = Append(seen, bkt[Min(ahead)].key)
  <2>1. PICK m : m = Min(ahead)
    OBVIOUS
  <2>2. m \in Occupied(bkt, nb) /\ m \in 0..(nb - 1) /\ m >= cursor
        /\ \A y \in Occupied(bkt, nb) : y >= cursor => m <= y
    BY <1>4, <1>5, <2>1 DEF NextItems, Occupied
  <2>3. PICK k : k = bkt[m].key
    OBVIOUS
  <2>4. k \in Key
    BY <1>1, <2>2, <2>3, Cells DEF Occupied
  <2>5. {y \in Occupied(bkt, nb) : y < m + 1} = {y \in Occupied(bkt, nb) : y < cursor} \cup {m}
    BY <1>1, <2>2 DEF Occupied
  <2>6. Behind(cursor)' = Behind(cursor) \cup {k}
    BY <1>1, <1>5, <2>1, <2>3, <2>5 DEF Behind
  <2>7. k \notin Behind(cursor)
    <3>1. InOrder(bkt, nb)
      BY <1>1, OrderIs DEF IInv
    <3>2. \A y \in Occupied(bkt, nb) : bkt[y].key = k => y = m
      BY <2>2, <2>3, <3>1 DEF InOrder, Occupied
    <3> QED BY <1>1, <2>2, <3>2 DEF Behind, Occupied
  <2>8. /\ Append(seen, k) \in Seq(Key) /\ Range(Append(seen, k)) = Range(seen) \cup {k}
        /\ Len(Append(seen, k)) = Len(seen) + 1
    BY <1>2, <2>4, AppendRange
  <2>9. IsFiniteSet(Range(seen) \cup {k})
        /\ Cardinality(Range(seen) \cup {k}) = Cardinality(Range(seen)) + 1
    BY <1>2, <2>7, FS_AddElement
  <2>10. seen' = Append(seen, k)
    BY <1>5, <2>1, <2>3
  <2>11. cursor' \in 0..nb'
    BY <1>1, <1>5, <2>1, <2>2
  <2>12. /\ seen' \in Seq(Key) /\ Range(seen') = Behind(cursor)'
         /\ IsFiniteSet(Range(seen')) /\ Cardinality(Range(seen')) = Len(seen')
    BY <1>2, <2>6, <2>8, <2>9, <2>10
  <2> QED BY <1>1, <2>11, <2>12 DEF Iterating
<1> QED BY <1>3, <1>5 DEF IterCall

\* What a call leaves an iteration with.
LEMMA StillIterates ==
    ASSUME Iterating, cursor # -1, UNCHANGED iterVars, nb' = nb,
           Occupied(bkt', nb) = Occupied(bkt, nb),
           \A x \in Occupied(bkt, nb) : bkt'[x].key = bkt[x].key,
           pc' \in {"idle", "get", "set", "find"},
           pc' = "set" => entry'.key = call'.key /\ before'[call'.key] # NoVal,
           pc' = "find" => before'[call'.key] = NoVal
    PROVE  Iterating'
<1>1. Behind(cursor)' = Behind(cursor)
  BY DEF Behind, iterVars
<1>2. /\ cursor' \in 0..nb' /\ seen' \in Seq(Key) /\ Range(seen') = Behind(cursor)'
      /\ IsFiniteSet(Range(seen')) /\ Cardinality(Range(seen')) = Len(seen')
  BY <1>1 DEF Iterating, iterVars
<1> QED BY <1>2 DEF Iterating

\* A call that begins while the loop is on, and that Disturbs does not name, moves
\* no entry: a set that has not grown the table probes for a key that is there.
LEMMA SetCallIterates ==
    ASSUME Iterating, cursor # -1, UNCHANGED iterVars, NEW k \in Key, NEW v \in Val,
           SetCall(k, v), Contents[k] # NoVal, pc' # "rehash"
    PROVE  Iterating'
<1>1. nb' = nb /\ bkt' = bkt /\ before' = Contents /\ call'.key = k
  BY DEF SetCall, Begin
<1>2. pc' = "set" /\ entry'.key = k
  BY DEF SetCall, StartResize
<1> QED BY <1>1, <1>2, StillIterates

LEMMA FindCallIterates ==
    ASSUME Iterating, cursor # -1, UNCHANGED iterVars, NEW k \in Key,
           GetCall(k) \/ (DeleteCall(k) /\ Contents[k] = NoVal)
    PROVE  Iterating'
<1>1. CASE GetCall(k)
  <2>1. nb' = nb /\ bkt' = bkt /\ pc' = "get"
    BY <1>1 DEF GetCall
  <2> QED BY <2>1, StillIterates
<1>2. CASE DeleteCall(k) /\ Contents[k] = NoVal
  <2>1. nb' = nb /\ bkt' = bkt /\ pc' = "find" /\ before' = Contents /\ call'.key = k
    BY <1>2 DEF DeleteCall, Begin
  <2> QED BY <1>2, <2>1, StillIterates
<1> QED BY <1>1, <1>2

\* Nor do the settings of the map and the set that finds no memory.
LEMMA SettingIterates ==
    ASSUME Iterating, cursor # -1, UNCHANGED iterVars,
           \/ \E f \in Factors : SetLoadFactor(f)
           \/ \E p \in Powers : SetGrowByPower(p)
           \/ \E k \in Key : SetOutOfMemory(k)
    PROVE  Iterating'
<1>1. nb' = nb /\ bkt' = bkt /\ pc' = "idle"
  BY DEF SetLoadFactor, SetGrowByPower, SetOutOfMemory
<1> QED BY <1>1, StillIterates

LEMMA GetStepIterates ==
    ASSUME Iterating, cursor # -1, UNCHANGED iterVars, GetStep PROVE Iterating'
<1>1. nb' = nb /\ bkt' = bkt /\ pc' \in {"idle", "get"}
  BY DEF GetStep, Return
<1> QED BY <1>1, StillIterates

\* The probe of a key that is there passes over every other entry.
LEMMA SetStepIterates ==
    ASSUME IInv, Iterating, cursor # -1, UNCHANGED iterVars, SetStep PROVE Iterating'
<1>1. /\ pc = "set" /\ nb' = nb /\ entry.key = call.key /\ before[call.key] # NoVal
  BY DEF SetStep, Iterating
<1>2. i \in 0..(nb - 1) /\ Table(bkt, nb) /\ bkt[i].dib \in Nat
  BY <1>1, AtBucket
<1>3. entry.dib \in Nat \ {0}
  <2>1. entry \in Item
    BY <1>1 DEF IInv, Probing, AtProbe
  <2> QED BY <2>1, ItemParts
<1>4. ~(bkt[i].dib < entry.dib)
  BY <1>1, SetMeets
<1>5. CASE /\ bkt[i].dib # 0 /\ bkt[i].key = entry.key
           /\ bkt' = [bkt EXCEPT ![i].val = entry.val] /\ Return("set", bkt[i].val)
  <2>1. \A x \in 0..(nb - 1) : bkt'[x].dib = bkt[x].dib /\ bkt'[x].key = bkt[x].key
    <3>1. bkt \in [0..(nb - 1) -> Bucket]
      BY <1>2 DEF Table
    <3> QED BY <1>2, <1>5, <3>1 DEF Bucket
  <2>2. Occupied(bkt', nb) = Occupied(bkt, nb)
    BY <2>1 DEF Occupied
  <2>3. \A x \in Occupied(bkt, nb) : bkt'[x].key = bkt[x].key
    BY <2>1 DEF Occupied
  <2>4. pc' = "idle"
    BY <1>5 DEF Return
  <2> QED BY <1>1, <2>2, <2>3, <2>4, StillIterates
<1>6. CASE /\ bkt' = bkt /\ entry' = [entry EXCEPT !.dib = @ + 1]
           /\ UNCHANGED <<pc, out, call, before>>
  <2>1. entry'.key = entry.key
    <3>1. entry \in Bucket
      BY <1>1, AtBucket
    <3> QED BY <1>6, <3>1 DEF Bucket
  <2> QED BY <1>1, <1>6, <2>1, StillIterates
<1> QED BY <1>2, <1>3, <1>4, <1>5, <1>6 DEF SetStep, GivesWay

\* A delete of a key that is not there finds nothing.
LEMMA FindStepIterates ==
    ASSUME IInv, Iterating, cursor # -1, UNCHANGED iterVars, FindStep PROVE Iterating'
<1>1. pc = "find" /\ nb' = nb /\ before[call.key] = NoVal
  BY DEF FindStep, Iterating
<1>2. ~(bkt[i].dib # 0 /\ bkt[i].key = call.key)
  <2> SUFFICES ASSUME bkt[i].dib # 0, bkt[i].key = call.key PROVE FALSE
    OBVIOUS
  <2>1. before[call.key] = bkt[i].val
    BY <1>1, Found
  <2>2. bkt[i].val \in Val
    <3>1. i \in 0..(nb - 1) /\ Table(bkt, nb) /\ bkt[i].dib \in Nat
      BY <1>1, AtBucket
    <3>2. nb \in Nat
      BY DEF IInv, Typed
    <3>3. bkt[i].dib > 0
      BY <3>1
    <3> QED BY <3>1, <3>2, <3>3, Cells
  <2> QED BY <1>1, <2>1, <2>2, NoKeyAssumption
<1>3. CASE bkt' = bkt /\ Return("delete", NoVal)
  <2>1. pc' = "idle"
    BY <1>3 DEF Return
  <2> QED BY <1>1, <1>3, <2>1, StillIterates
<1>4. CASE bkt' = bkt /\ UNCHANGED <<pc, out, call, before, entry>>
  BY <1>1, <1>4, StillIterates
<1> QED BY <1>2, <1>3, <1>4 DEF FindStep

\* The steps of the map that Disturbs does not name.
LEMMA CallIterates ==
    ASSUME IInv, Iterating, cursor # -1, UNCHANGED iterVars, Next, ~Disturbs
    PROVE  Iterating'
<1>1. pc \in {"idle", "get", "set", "find"}
  BY DEF Iterating
<1>2. CASE \E c \in Caps : New(c)
  BY <1>1, <1>2 DEF New
<1>3. CASE Free \/ \E b \in BOOLEAN : Clear(b)
  BY <1>3 DEF Disturbs
<1>4. CASE \/ \E f \in Factors : SetLoadFactor(f)
           \/ \E p \in Powers : SetGrowByPower(p)
           \/ \E k \in Key : SetOutOfMemory(k)
  BY <1>4, SettingIterates
<1>5. ASSUME NEW k \in Key, NEW v \in Val, SetCall(k, v) PROVE Iterating'
  <2>1. Contents[k] # NoVal /\ pc' # "rehash"
    BY <1>5 DEF Disturbs
  <2> QED BY <1>5, <2>1, SetCallIterates
<1>6. ASSUME NEW k \in Key, GetCall(k) \/ DeleteCall(k) PROVE Iterating'
  <2>1. DeleteCall(k) => Contents[k] = NoVal
    BY DEF Disturbs
  <2> QED BY <1>6, <2>1, FindCallIterates
<1>7. CASE GetStep
  BY <1>7, GetStepIterates
<1>8. CASE SetStep
  BY <1>8, SetStepIterates
<1>9. CASE FindStep
  BY <1>9, FindStepIterates
<1>10. CASE ShiftStep \/ RehashStep \/ PlaceStep
  BY <1>1, <1>10 DEF ShiftStep, RehashStep, PlaceStep
<1> QED BY <1>2, <1>3, <1>4, <1>5, <1>6, <1>7, <1>8, <1>9, <1>10 DEF Next

LEMMA IterStepIterates ==
    ASSUME IInv, Iterating, [IterNext]_<<vars, iterVars>> PROVE Iterating'
<1>1. CASE IterStart
  BY <1>1, IterStartIterates
<1>2. CASE IterCall
  BY <1>2, IterCallIterates
<1>3. CASE IterStop
  BY <1>3 DEF IterStop, Iterating
<1>4. CASE cursor' = -1
  BY <1>4 DEF Iterating
<1>5. CASE MapStep /\ cursor # -1
  <2>1. CASE Disturbs
    BY <1>4, <1>5, <2>1 DEF MapStep
  <2>2. CASE ~Disturbs
    <3>1. Next /\ UNCHANGED iterVars
      BY <1>5, <2>2 DEF MapStep
    <3> QED BY <1>5, <2>2, <3>1, CallIterates
  <2> QED BY <2>1, <2>2
<1>6. CASE MapStep /\ cursor = -1
  <2>1. cursor' = -1
    BY <1>6 DEF MapStep, iterVars
  <2> QED BY <1>4, <2>1
<1>7. CASE UNCHANGED <<vars, iterVars>>
  <2>1. Behind(cursor)' = Behind(cursor)
    BY <1>7 DEF Behind, vars, iterVars
  <2> QED BY <1>7, <2>1 DEF Iterating, vars, iterVars
<1> QED BY <1>1, <1>2, <1>3, <1>5, <1>6, <1>7 DEF IterNext

\* An iteration gets every item once, whatever its loop calls before a call that
\* may move entries.
THEOREM IterationGetsAll == IterSpec => []IteratesOverAll
<1>1. IterInit => Iterating
  BY DEF IterInit, NoIteration, Iterating
<1>2. IInv /\ Iterating /\ [IterNext]_<<vars, iterVars>> => Iterating'
  BY IterStepIterates
<1>3. IInv /\ Iterating => IteratesOverAll
  <2> SUFFICES ASSUME IInv, Iterating, cursor # -1
               PROVE  /\ Cardinality(Range(seen)) = Len(seen)
                      /\ Range(seen) = Behind(cursor)
                      /\ cursor = nb => Range(seen) = {k \in Key : Contents[k] # NoVal}
    BY DEF IteratesOverAll, Behind
  <2>1. Cardinality(Range(seen)) = Len(seen) /\ Range(seen) = Behind(cursor)
    BY DEF Iterating
  <2>2. ASSUME cursor = nb PROVE Behind(cursor) = {k \in Key : Contents[k] # NoVal}
    <3>1. nb \in Nat /\ Table(bkt, nb) /\ InOrder(bkt, nb)
      <4>1. pc # "shift"
        BY DEF Iterating
      <4> QED BY <4>1, OrderIs DEF IInv, Typed
    <3>2. {y \in Occupied(bkt, nb) : y < nb} = Occupied(bkt, nb)
      BY <3>1 DEF Occupied
    <3>3. Behind(cursor) = {k \in Key : \E v \in Val : \E x \in Occupied(bkt, nb) : HasItem(bkt, x, k, v)}
      BY <2>2, <3>1, <3>2, KeysAre DEF Behind
    <3>4. /\ Contents \in [Key -> Val \cup {NoVal}]
          /\ \A k \in Key, v \in Val : KeepsItem(bkt, nb, k, v) <=> Contents[k] = v
      BY <3>1, ItemsAre DEF Contents
    <3>5. \A k, v : KeepsItem(bkt, nb, k, v) <=> \E x \in Occupied(bkt, nb) : HasItem(bkt, x, k, v)
      BY DEF KeepsItem, HasItem, Occupied
    <3> QED BY <3>3, <3>4, <3>5, NoKeyAssumption
  <2> QED BY <2>1, <2>2
<1>4. IterSpec => []IInv
  BY IterationIsNoStep, AlwaysIInv, PTL
<1> QED BY <1>1, <1>2, <1>3, <1>4, PTL DEF IterSpec
=============================================================================
