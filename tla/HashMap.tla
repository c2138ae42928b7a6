------------------------------ MODULE HashMap ------------------------------
(***************************************************************************)
(* The robin hood hash map of src/src/hashmap.c that holds the symbols of  *)
(* one scope.  Every iteration of a probe, shift or rehash loop is a step, *)
(* so that the table can be looked at between any two of them.             *)
(***************************************************************************)
EXTENDS Integers, FiniteSets

CONSTANTS Key, Val, NoKey, NoVal,
          HashOf,        \* the clipped hash of each key, as map->hash gives it
          MinCap,        \* 16 in hashmap_new_with_allocator
          GrowPct,       \* GROW_AT, per cent
          ShrinkPct,     \* SHRINK_AT, per cent
          MaxBuckets,    \* bound: larger tables are never allocated
          Caps,          \* the cap arguments callers pass to hashmap_new
          Factors,       \* the load factors callers ask for, per cent
          Powers         \* the grow powers callers ask for

ASSUME HashAssumption == HashOf \in [Key -> Nat]
ASSUME NoKeyAssumption == NoKey \notin Key /\ NoVal \notin Val
ASSUME SizeAssumption ==
    /\ MinCap \in Nat \ {0} /\ MaxBuckets \in Nat
    /\ GrowPct \in 1..99
    /\ ShrinkPct \in 0..33        \* or what is kept might not fit in half the table
    /\ Caps \subseteq Nat /\ Factors \subseteq Nat /\ Powers \subseteq Nat

VARIABLES bkt, nb,       \* buckets and nbuckets
          cap, count, growat, loadfactor, growpower,
          oom,
          pc,            \* the loop that is running; "none" before hashmap_new
          call,          \* the call in progress: its name, key and item
          entry, i,      \* the entry being placed and the bucket looked at
          tab2, nb2, r,  \* resize0: map2's buckets, and the old bucket reached
          out,           \* history: the last call that returned, with its result
          before         \* history: the contents when the call in progress began

vars == <<bkt, nb, cap, count, growat, loadfactor, growpower, oom, pc, call,
          entry, i, tab2, nb2, r, out, before>>
params == <<cap, loadfactor, growpower>>
scratch == <<tab2, nb2, r>>

Empty == [dib |-> 0, key |-> NoKey, val |-> NoVal]
EmptyTable(n) == [x \in 0..(n - 1) |-> Empty]
NoTable == EmptyTable(0)
NoCall == [op |-> "none", key |-> NoKey, val |-> NoVal]
Nothing == [k \in Key |-> NoVal]

Home(k, n) == HashOf[k] % n               \* hash & mask
\* Mutants of Nxt and GrowAt: a probe that does not wrap round, one that stays
\* in the last bucket, and a table that grows only when it is full.
NxtNoWrap(x, n) == x + 1
NxtStays(x, n) == IF x + 1 = n THEN x ELSE x + 1
GrowAtFull(n, p) == n

Nxt(x, n) == IF x + 1 = n THEN 0 ELSE x + 1     \* (x + 1) & mask
Percent(n, p) == (n * p) \div 100         \* n * (p / 100.0), truncated
GrowAt(n, p) == Percent(n, p)
ShrinkAt(n) == Percent(n, ShrinkPct)
Clamp(f) == IF f < 50 THEN 50 ELSE IF f > 95 THEN 95 ELSE f

Occupied(t, n) == {x \in 0..(n - 1) : t[x].dib > 0}
\* The items held by a table, by key.
ItemsOf(t, n) == [k \in Key |->
    IF \E x \in Occupied(t, n) : t[x].key = k
    THEN t[CHOOSE x \in Occupied(t, n) : t[x].key = k].val ELSE NoVal]
Contents == ItemsOf(bkt, nb)

Pow2[p \in Nat] == IF p = 0 THEN 1 ELSE 2 * Pow2[p - 1]       \* 1 << p

\* The capacity hashmap_new allocates: MinCap doubled until it is enough.
CapFor(c) == CHOOSE n \in {MinCap * Pow2[j] : j \in 0..c} :
                 n >= c /\ \A j \in 0..c : MinCap * Pow2[j] >= c => n <= MinCap * Pow2[j]

Init ==
    /\ bkt = NoTable /\ nb = 0 /\ cap = 0 /\ count = 0 /\ growat = 0
    /\ loadfactor = 0 /\ growpower = 0 /\ oom = FALSE
    /\ pc = "none" /\ call = NoCall /\ entry = Empty /\ i = 0
    /\ tab2 = NoTable /\ nb2 = 0 /\ r = 0
    /\ out = [op |-> "free"] /\ before = Nothing

\* hashmap_new: when a malloc fails NULL is returned and there is no map.
New(c) ==
    /\ pc = "none" /\ CapFor(c) <= MaxBuckets
    /\ pc' = "idle" /\ out' = [op |-> "new"]
    /\ cap' = CapFor(c) /\ nb' = CapFor(c) /\ bkt' = EmptyTable(CapFor(c))
    /\ count' = 0 /\ oom' = FALSE /\ growpower' = 1
    /\ loadfactor' = Clamp(GrowPct) /\ growat' = GrowAt(CapFor(c), Clamp(GrowPct))
    /\ UNCHANGED <<call, entry, i, scratch, before>>

\* hashmap_free, after which the handle is dead.
Free ==
    /\ pc = "idle" /\ pc' = "none" /\ out' = [op |-> "free"]
    /\ bkt' = NoTable /\ nb' = 0 /\ cap' = 0 /\ count' = 0 /\ growat' = 0
    /\ loadfactor' = 0 /\ growpower' = 0 /\ oom' = FALSE
    /\ UNCHANGED <<call, entry, i, scratch, before>>

\* hashmap_clear; if the smaller table cannot be allocated the larger one is
\* kept and only its first cap buckets are used.
Clear(updateCap) ==
    /\ pc = "idle" /\ out' = [op |-> "clear"]
    /\ cap' = IF updateCap THEN nb ELSE cap
    /\ nb' = cap' /\ bkt' = EmptyTable(cap') /\ count' = 0
    /\ growat' = GrowAt(cap', loadfactor)
    /\ UNCHANGED <<loadfactor, growpower, oom, pc, call, entry, i, scratch, before>>

SetLoadFactor(f) ==
    /\ pc = "idle"
    /\ loadfactor' = Clamp(f) /\ growat' = GrowAt(nb, Clamp(f))
    /\ UNCHANGED <<bkt, nb, cap, count, growpower, oom, pc, call, entry, i, scratch,
                   out, before>>

SetGrowByPower(p) ==
    /\ pc = "idle"
    /\ growpower' = IF p < 1 THEN 1 ELSE IF p > 16 THEN 16 ELSE p
    /\ UNCHANGED <<bkt, nb, cap, count, growat, loadfactor, oom, pc, call, entry, i,
                   scratch, out, before>>
-----------------------------------------------------------------------------
Begin(o, k, v) ==
    /\ pc = "idle"
    /\ call' = [op |-> o, key |-> k, val |-> v] /\ before' = Contents

\* The call returns res; the history of the call is dropped.
Return(o, res) ==
    /\ pc' = "idle" /\ out' = [op |-> o, key |-> call.key, res |-> res]
    /\ call' = NoCall /\ before' = Nothing /\ entry' = Empty /\ i' = 0

\* A mutant of StartResize: the first old bucket is skipped.
StartResizeAtOne(n) ==
    /\ pc' = "rehash" /\ tab2' = EmptyTable(n) /\ nb2' = n /\ r' = 1
    /\ entry' = Empty /\ i' = 0

\* resize0 has allocated map2 with n buckets.
StartResize(n) ==
    /\ pc' = "rehash" /\ tab2' = EmptyTable(n) /\ nb2' = n /\ r' = 0
    /\ entry' = Empty /\ i' = 0

SetCall(k, v) ==
    /\ Begin("set", k, v)
    /\ IF count < growat
       THEN /\ pc' = "set" /\ oom' = FALSE
            /\ entry' = [dib |-> 1, key |-> k, val |-> v] /\ i' = Home(k, nb)
            /\ UNCHANGED <<scratch, out>>
       ELSE /\ nb * Pow2[growpower] <= MaxBuckets
            /\ oom' = FALSE /\ StartResize(nb * Pow2[growpower])
            /\ UNCHANGED out
    /\ UNCHANGED <<bkt, nb, count, growat, params>>

\* The growing set whose allocation fails: the map is left as it was.
SetOutOfMemory(k) ==
    /\ pc = "idle" /\ count >= growat
    /\ oom' = TRUE /\ out' = [op |-> "set_oom", key |-> k, res |-> NoVal]
    /\ UNCHANGED <<bkt, nb, count, growat, params, pc, call, entry, i, scratch, before>>

GetCall(k) ==
    /\ Begin("get", k, NoVal)
    /\ pc' = "get" /\ i' = Home(k, nb)
    /\ UNCHANGED <<bkt, nb, count, growat, params, oom, entry, scratch, out>>

DeleteCall(k) ==
    /\ Begin("delete", k, NoVal)
    /\ pc' = "find" /\ i' = Home(k, nb) /\ oom' = FALSE
    /\ UNCHANGED <<bkt, nb, count, growat, params, entry, scratch, out>>
-----------------------------------------------------------------------------
\* A mutant of GetStep: only the home bucket is looked at.
GetStepNoProbe ==
    /\ pc = "get"
    /\ Return("get", IF bkt[i].dib # 0 /\ bkt[i].key = call.key THEN bkt[i].val ELSE NoVal)
    /\ UNCHANGED <<bkt, nb, count, growat, params, oom, scratch>>

\* One bucket of hashmap_get's probe.
GetStep ==
    /\ pc = "get"
    /\ \/ bkt[i].dib = 0 /\ Return("get", NoVal)
       \/ bkt[i].dib # 0 /\ bkt[i].key = call.key /\ Return("get", bkt[i].val)
       \/ /\ bkt[i].dib # 0 /\ bkt[i].key # call.key
          /\ i' = Nxt(i, nb)
          /\ UNCHANGED <<pc, out, call, before, entry>>
    /\ UNCHANGED <<bkt, nb, count, growat, params, oom, scratch>>

\* Whether an entry gives up its bucket to one further from home; a mutant in
\* which the one closer to its home wins.
GivesWayInverted(b, e) == b.dib > e.dib
GivesWay(b, e) == b.dib < e.dib

\* One bucket of the insertion probe: into an empty bucket, over an equal key,
\* or past it, taking the place of an entry that is closer to its home.
SetStep ==
    /\ pc = "set"
    /\ \/ /\ bkt[i].dib = 0
          /\ bkt' = [bkt EXCEPT ![i] = entry] /\ count' = count + 1
          /\ Return("set", NoVal)
       \/ /\ bkt[i].dib # 0 /\ bkt[i].key = entry.key
          /\ bkt' = [bkt EXCEPT ![i].val = entry.val] /\ count' = count
          /\ Return("set", bkt[i].val)
       \/ /\ bkt[i].dib # 0 /\ bkt[i].key # entry.key
          /\ IF GivesWay(bkt[i], entry)
             THEN /\ bkt' = [bkt EXCEPT ![i] = entry]
                  /\ entry' = [bkt[i] EXCEPT !.dib = @ + 1]
             ELSE /\ bkt' = bkt /\ entry' = [entry EXCEPT !.dib = @ + 1]
          /\ i' = Nxt(i, nb) /\ count' = count
          /\ UNCHANGED <<pc, out, call, before>>
    /\ UNCHANGED <<nb, growat, params, oom, scratch>>

\* One bucket of hashmap_delete's search.
FindStep ==
    /\ pc = "find"
    /\ \/ bkt[i].dib = 0 /\ bkt' = bkt /\ Return("delete", NoVal)
       \/ /\ bkt[i].dib # 0 /\ bkt[i].key = call.key
          /\ call' = [call EXCEPT !.val = bkt[i].val]      \* copied to spare
          /\ bkt' = [bkt EXCEPT ![i].dib = 0]
          /\ pc' = "shift"
          /\ UNCHANGED <<out, before, entry, i>>
       \/ /\ bkt[i].dib # 0 /\ bkt[i].key # call.key
          /\ i' = Nxt(i, nb) /\ bkt' = bkt
          /\ UNCHANGED <<pc, out, call, before, entry>>
    /\ UNCHANGED <<nb, count, growat, params, oom, scratch>>

\* One bucket of the backward shift that closes the hole at i, and at its end
\* the shrinking of the table, which a failing malloc silently skips.
ShiftStep ==
    /\ pc = "shift"
    /\ LET j == Nxt(i, nb) IN
       \/ /\ bkt[j].dib > 1
          /\ bkt' = [bkt EXCEPT ![i] = [bkt[j] EXCEPT !.dib = @ - 1]]
          /\ i' = j
          /\ UNCHANGED <<count, pc, out, call, before, entry, scratch>>
       \/ /\ bkt[j].dib <= 1
          /\ bkt' = [bkt EXCEPT ![i] = Empty] /\ count' = count - 1
          /\ \/ Return("delete", call.val) /\ UNCHANGED scratch
             \/ /\ nb > cap /\ count - 1 <= ShrinkAt(nb)
                /\ StartResize(nb \div 2)
                /\ UNCHANGED <<out, call, before>>
    /\ UNCHANGED <<nb, growat, params, oom>>
-----------------------------------------------------------------------------
\* The outer loop of resize0: the next old bucket that holds an entry starts
\* again from its home; after the last one map2's table replaces the old one.
RehashStep ==
    /\ pc = "rehash"
    /\ \/ /\ r < nb /\ bkt[r].dib = 0 /\ r' = r + 1
          /\ UNCHANGED <<bkt, nb, growat, tab2, nb2, pc, entry, i, out, call, before>>
       \/ /\ r < nb /\ bkt[r].dib # 0
          /\ entry' = [bkt[r] EXCEPT !.dib = 1] /\ i' = Home(bkt[r].key, nb2)
          /\ pc' = "place"
          /\ UNCHANGED <<bkt, nb, growat, scratch, out, call, before>>
       \/ /\ r = nb
          /\ bkt' = tab2 /\ nb' = nb2 /\ growat' = GrowAt(nb2, Clamp(GrowPct))
          /\ tab2' = NoTable /\ nb2' = 0 /\ r' = 0
          /\ \/ /\ call.op = "set" /\ pc' = "set"
                /\ entry' = [dib |-> 1, key |-> call.key, val |-> call.val]
                /\ i' = Home(call.key, nb2)
                /\ UNCHANGED <<out, call, before>>
             \/ call.op = "delete" /\ Return("delete", call.val)
    /\ UNCHANGED <<count, params, oom>>

\* One bucket of its inner loop, in map2's table.
PlaceStep ==
    /\ pc = "place"
    /\ \/ /\ tab2[i].dib = 0
          /\ tab2' = [tab2 EXCEPT ![i] = entry]
          /\ pc' = "rehash" /\ r' = r + 1 /\ entry' = Empty /\ i' = 0
       \/ /\ tab2[i].dib # 0
          /\ IF GivesWay(tab2[i], entry)
             THEN /\ tab2' = [tab2 EXCEPT ![i] = entry]
                  /\ entry' = [tab2[i] EXCEPT !.dib = @ + 1]
             ELSE /\ tab2' = tab2 /\ entry' = [entry EXCEPT !.dib = @ + 1]
          /\ i' = Nxt(i, nb2)
          /\ UNCHANGED <<pc, r>>
    /\ UNCHANGED <<bkt, nb, count, growat, params, oom, nb2, out, call, before>>

Steps == GetStep \/ SetStep \/ FindStep \/ ShiftStep \/ RehashStep \/ PlaceStep

Next ==
    \/ \E c \in Caps : New(c)
    \/ Free
    \/ \E b \in BOOLEAN : Clear(b)
    \/ \E f \in Factors : SetLoadFactor(f)
    \/ \E p \in Powers : SetGrowByPower(p)
    \/ \E k \in Key, v \in Val : SetCall(k, v)
    \/ \E k \in Key : SetOutOfMemory(k)
    \/ \E k \in Key : GetCall(k) \/ DeleteCall(k)
    \/ GetStep
    \/ SetStep
    \/ FindStep
    \/ ShiftStep
    \/ RehashStep
    \/ PlaceStep

Spec == Init /\ [][Next]_vars
-----------------------------------------------------------------------------
Bucket == [dib : Nat, key : Key \cup {NoKey}, val : Val \cup {NoVal}]
Item == [dib : Nat \ {0}, key : Key, val : Val]
Busy == {"get", "set", "find", "shift", "rehash", "place"}

\* Type invariant.
TypeOK ==
    /\ pc \in Busy \cup {"none", "idle"} /\ oom \in BOOLEAN
    /\ nb \in Nat /\ nb2 \in Nat /\ cap \in Nat /\ count \in Nat /\ growat \in Nat
    /\ bkt \in [0..(nb - 1) -> Bucket] /\ tab2 \in [0..(nb2 - 1) -> Bucket]
    /\ entry \in Bucket /\ r \in 0..nb
    /\ i \in 0..(nb - 1) \cup 0..(nb2 - 1) \cup {0}

\* A table is in robin hood order: every entry sits dib - 1 buckets behind its
\* home, and no entry is more than one further from home than the one before
\* it.  So the run of buckets from a key's home to its entry has no hole in it
\* for a probe to stop at.
AtDistance(t, n) == \A x \in Occupied(t, n) :
    (Home(t[x].key, n) + t[x].dib - 1) % n = x
NoGap(t, n) == \A x \in 0..(n - 1) : t[Nxt(x, n)].dib <= t[x].dib + 1
Distinct(t, n) == \A x, y \in Occupied(t, n) : t[x].key = t[y].key => x = y
RobinHood(t, n) == AtDistance(t, n) /\ NoGap(t, n) /\ Distinct(t, n)

\* The bucket at which the probe for k looks at its d-th step.
Spot(k, d, n) == (Home(k, n) + d - 1) % n

\* Between two steps of the backward shift: bucket h is a hole, whatever it still
\* holds, and the bucket after it is at most two further from home than the one
\* before it.
Holed(t, n, h) ==
    /\ h \in 0..(n - 1)
    /\ \A x \in 0..(n - 1) \ {h} : t[x].dib > 0 => Spot(t[x].key, t[x].dib, n) = x
    /\ \A x \in 0..(n - 1) : x # h /\ Nxt(x, n) # h => t[Nxt(x, n)].dib <= t[x].dib + 1
    /\ \A x \in 0..(n - 1) : Nxt(x, n) = h => t[Nxt(h, n)].dib <= t[x].dib + 2
    /\ \A x, y \in 0..(n - 1) \ {h} :
          t[x].dib > 0 /\ t[y].dib > 0 /\ t[x].key = t[y].key => x = y

\* The table stays in robin hood order between any two steps of an insertion or
\* a rehash, and a backward shift leaves no more than its one hole; map2's table
\* is in order from the start.  (resize0 uses the dib of the old bucket it has
\* reached as scratch, hashmap.c:232; the model leaves the old table alone.)
TablesInOrder ==
    /\ pc # "shift" => RobinHood(bkt, nb)
    /\ pc = "shift" => Holed(bkt, nb, i)
    /\ RobinHood(tab2, nb2)

\* The table always has an empty bucket while a probe is running, or the
\* probe would go round forever; count is the number of entries in the table.
RoomLeft ==
    /\ pc \in Busy \ {"shift"} => count < nb /\ count = Cardinality(Occupied(bkt, nb))
    /\ pc = "place" => Cardinality(Occupied(tab2, nb2)) < nb2

\* No entry is lost or doubled while entries push each other along or are shifted
\* back: at any moment of a set, of a rehash, the entries in the tables and the
\* one in flight are the ones the call found, with the new one; at any moment of a
\* backward shift all but the deleted one are in the buckets beside the hole.
InFlight ==
    LET left == IF pc \in {"rehash", "place"}
                THEN {x \in Occupied(bkt, nb) : x > r \/ (x = r /\ pc = "rehash")}
                ELSE IF pc = "set" THEN Occupied(bkt, nb) ELSE {}
        held == {bkt[x].key : x \in left} \cup {tab2[x].key : x \in Occupied(tab2, nb2)}
                  \cup (IF pc \in {"place", "set"} THEN {entry.key} ELSE {})
        had == {k \in Key : before[k] # NoVal}
    IN  /\ pc = "place" => entry.key \notin {tab2[x].key : x \in Occupied(tab2, nb2)}
        /\ pc \in {"rehash", "place"} =>
              held = IF call.op = "delete" THEN had \ {call.key} ELSE had
        /\ pc = "set" => held = had \cup {call.key}
        /\ pc = "shift" =>
              {bkt[x].key : x \in Occupied(bkt, nb) \ {i}} = had \ {call.key}
        /\ pc = "set" /\ entry.key # call.key =>
              before[call.key] = NoVal /\ entry.key \notin {bkt[x].key : x \in left}

\* A map is what hashmap.h says: the call that returns has had its effect at
\* one instant on a map from keys to items.
Abs == INSTANCE KVMap WITH dict <- IF pc \in Busy THEN before ELSE Contents
ImplementsKVMap == Abs!ASpec

\* Every call returns.
CallReturns == pc \in Busy ~> pc = "idle"
============================================================================
