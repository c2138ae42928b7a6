------------------------------ MODULE HashIter ------------------------------
(***************************************************************************)
(* hashmap_iter and hashmap_scan of src/src/hashmap.c over the table of    *)
(* HashMap: a cursor on the buckets that other calls do not know of.       *)
(***************************************************************************)
EXTENDS HashMap, SequencesExt

VARIABLES cursor,        \* the caller's cursor, -1 when there is no iteration, or
                         \* entries have moved since it was set to 0
          seen           \* history: the keys of the items it got

iterVars == <<cursor, seen>>
NoIteration == cursor = -1 /\ seen = <<>>

IterStart ==
    /\ pc = "idle" /\ NoIteration
    /\ cursor' = 0 /\ UNCHANGED <<vars, seen>>

\* A mutant of NextItems: the cursor is moved on before its bucket is looked at.
ItemsPast(c) == {x \in Occupied(bkt, nb) : x > c}
NextItems(c) == {x \in Occupied(bkt, nb) : x >= c}

\* hashmap_iter, which passes over empty buckets; TRUE if there is an item.
IterCall ==
    /\ pc = "idle" /\ cursor # -1 /\ cursor < nb
    /\ LET ahead == NextItems(cursor) IN
       IF ahead = {} THEN cursor' = nb /\ seen' = seen
       ELSE cursor' = Min(ahead) + 1 /\ seen' = Append(seen, bkt[Min(ahead)].key)
    /\ UNCHANGED vars

\* The end of the buckets, or of the caller's interest.
IterStop ==
    /\ pc = "idle" /\ cursor # -1
    /\ cursor' = -1 /\ seen' = <<>> /\ UNCHANGED vars

\* The calls that may move an entry: a set of a new key, a delete of one that is
\* there, and any set at all when the table is due to grow, since it grows before
\* the key is looked for (hashmap.c:270).
Disturbs ==
    \/ Free
    \/ \E b \in BOOLEAN : Clear(b)
    \/ \E k \in Key, v \in Val : SetCall(k, v) /\ (Contents[k] = NoVal \/ pc' = "rehash")
    \/ \E k \in Key : DeleteCall(k) /\ Contents[k] # NoVal

\* Between two turns of the loop the caller may make any call.  The map knows
\* nothing of the cursor: a call that disturbs it only ends what it is good for.
MapStep ==
    /\ Next
    /\ IF Disturbs THEN cursor' = -1 /\ seen' = <<>> ELSE UNCHANGED iterVars

IterInit == Init /\ NoIteration
IterNext == MapStep \/ IterStart \/ IterCall \/ IterStop
\* A loop of hashmap.c waits for nobody.
IterSpec == IterInit /\ [][IterNext]_<<vars, iterVars>> /\ WF_vars(Steps)
-----------------------------------------------------------------------------
\* An iteration gets every item once, whatever the caller does in between, up to
\* the first call that Disturbs names.  No other call moves an entry: the probe of
\* a set meets its own key before any entry that would have to give way, and a
\* delete of a key that is not there finds nothing, though hashmap.c:447 asks for
\* a new iteration after every delete and after no set.
IteratesOverAll ==
    cursor # -1 =>
        /\ Cardinality(Range(seen)) = Len(seen)
        /\ Range(seen) = {bkt[x].key : x \in {y \in Occupied(bkt, nb) : y < cursor}}
        /\ cursor = nb => Range(seen) = {k \in Key : Contents[k] # NoVal}
============================================================================
