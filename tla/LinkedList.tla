----------------------------- MODULE LinkedList -----------------------------
(***************************************************************************)
(* The doubly linked list of src/src/list.c: the links of every node, the  *)
(* head, tail and size fields, the memory behind the nodes, and the        *)
(* ownership of the data that list_remove gives back to list->destroy.     *)
(* One action is one call, except list_destroy, whose loop is one action   *)
(* per iteration because each iteration reads a node it has just freed.    *)
(***************************************************************************)
EXTENDS Integers, Sequences, SequencesExt

CONSTANTS Node,          \* addresses malloc can return for a node_t
          Data,          \* data pointers a caller can hand over
          NULL,
          Clobber        \* what free() may leave in the next field of a freed
                         \* node besides its old value ({}: it is left intact)

ASSUME NullAssumption == NULL \notin Node
ASSUME DataAssumption == Data # {}

VARIABLES size, head, tail,       \* struct list_t
          data, prev, next,       \* struct node_t, by address
          live,                   \* the nodes malloc'ed and not yet freed
          aux,                    \* the cursor of list_destroy
          pc,                     \* "uninit", "ready" or "destroy"
          op, ret,                \* the last call that returned, and its result
          oom,                    \* that call's malloc returned NULL
          owned,                  \* history: data handed over, not yet destroyed
          order                   \* history: the nodes, in list order

links == <<size, head, tail, data, prev, next, live, owned, order>>
vars == <<size, head, tail, data, prev, next, live, aux, pc, op, ret, oom,
          owned, order>>

InsertOps == {"insert_next", "insert_prev", "insert_begin", "insert_end"}
RemoveOps == {"remove", "remove_begin", "remove_last"}
Ops == InsertOps \cup RemoveOps \cup {"init", "destroy"}

Init ==
    /\ size = 0 /\ head = NULL /\ tail = NULL
    /\ data \in [Node -> {CHOOSE d \in Data : TRUE}]
    /\ prev = [n \in Node |-> NULL] /\ next = [n \in Node |-> NULL]
    /\ live = {} /\ owned = {} /\ order = <<>>
    /\ aux = NULL /\ pc = "uninit" /\ op = "init" /\ ret = 0 /\ oom = FALSE

ListInit ==
    /\ pc = "uninit" /\ pc' = "ready"
    /\ size' = 0 /\ head' = NULL /\ tail' = NULL
    /\ op' = "init" /\ ret' = 0 /\ oom' = FALSE
    /\ UNCHANGED <<data, prev, next, live, aux, owned, order>>

Pos(e) == CHOOSE i \in DOMAIN order : order[i] = e

\* The first node of a list: list->tail is left NULL.
LinkFirst(n) ==
    /\ head' = n /\ tail' = NULL
    /\ prev' = [prev EXCEPT ![n] = NULL]
    /\ next' = [next EXCEPT ![n] = NULL]
    /\ order' = <<n>>

\* A mutant of LinkNext: the node after the new one keeps its prev.
LinkNextHalf(n, e) ==
    /\ next' = [next EXCEPT ![n] = next[e], ![e] = n]
    /\ prev' = [prev EXCEPT ![n] = e]
    /\ tail' = IF next[e] = NULL THEN n ELSE tail
    /\ order' = InsertAt(order, Pos(e) + 1, n)
    /\ UNCHANGED head

LinkNext(n, e) ==
    /\ next' = [next EXCEPT ![n] = next[e], ![e] = n]
    /\ prev' = [m \in Node |-> IF m = n THEN e
                               ELSE IF m = next[e] THEN n ELSE prev[m]]
    /\ tail' = IF next[e] = NULL THEN n ELSE tail
    /\ order' = InsertAt(order, Pos(e) + 1, n)
    /\ UNCHANGED head

LinkPrev(n, e) ==
    /\ prev' = [prev EXCEPT ![n] = prev[e], ![e] = n]
    /\ next' = [m \in Node |-> IF m = n THEN e
                               ELSE IF m = prev[e] THEN n ELSE next[m]]
    /\ head' = IF prev[e] = NULL THEN n ELSE head
    /\ order' = InsertAt(order, Pos(e), n)
    /\ UNCHANGED tail

\* A mutant of Refuse: 1 where the callers expect -1.
RefuseOne(o, noMemory) ==
    /\ op' = o /\ ret' = 1 /\ oom' = noMemory
    /\ UNCHANGED <<links, aux, pc>>

Refuse(o, noMemory) ==
    /\ op' = o /\ ret' = -1 /\ oom' = noMemory
    /\ UNCHANGED <<links, aux, pc>>

\* A mutant of Allocate: the data pointer is not stored.
AllocateNoData(o, n, d) ==
    /\ live' = live \cup {n} /\ size' = size + 1
    /\ owned' = owned \cup {d} /\ UNCHANGED data
    /\ op' = o /\ ret' = 0 /\ oom' = FALSE
    /\ UNCHANGED <<aux, pc>>

\* What both insertions do once their guard has let them through to malloc.
Allocate(o, n, d) ==
    /\ live' = live \cup {n} /\ size' = size + 1
    /\ data' = [data EXCEPT ![n] = d] /\ owned' = owned \cup {d}
    /\ op' = o /\ ret' = 0 /\ oom' = FALSE
    /\ UNCHANGED <<aux, pc>>

InsertNext(o, e, d) ==
    /\ pc = "ready"
    /\ \/ e = NULL /\ size # 0 /\ Refuse(o, FALSE)
       \/ (e # NULL \/ size = 0) /\ Refuse(o, TRUE)
       \/ /\ e # NULL \/ size = 0
          /\ \E n \in Node \ live :
                /\ Allocate(o, n, d)
                /\ IF size = 0 THEN LinkFirst(n) ELSE LinkNext(n, e)

InsertPrev(o, e, d) ==
    /\ pc = "ready"
    /\ \/ e = NULL /\ size # 0 /\ Refuse(o, FALSE)
       \/ (e # NULL \/ size = 0) /\ Refuse(o, TRUE)
       \/ /\ e # NULL \/ size = 0
          /\ \E n \in Node \ live :
                /\ Allocate(o, n, d)
                /\ IF size = 0 THEN LinkFirst(n) ELSE LinkPrev(n, e)

\* Unlink e, give its data to list->destroy, free the node, count it out.
Unlink(e) ==
    /\ IF e = head
       THEN /\ head' = next[e]
            /\ tail' = IF next[e] = NULL THEN NULL ELSE tail
            /\ prev' = [m \in Node |-> IF m = next[e] THEN NULL ELSE prev[m]]
            /\ next' = next
       ELSE /\ head' = head
            /\ tail' = IF next[e] = NULL THEN prev[e] ELSE tail
            /\ prev' = [m \in Node |-> IF m = next[e] THEN prev[e] ELSE prev[m]]
            /\ next' = [m \in Node |-> IF m = prev[e] THEN next[e] ELSE next[m]]
    /\ owned' = owned \ {data[e]}
    /\ live' = live \ {e} /\ size' = size - 1
    /\ order' = RemoveAt(order, Pos(e))
    /\ data' = data

ListRemove(o, e) ==
    /\ pc = "ready"
    /\ \/ (e = NULL \/ size = 0) /\ Refuse(o, FALSE)
       \/ /\ e # NULL /\ size # 0
          /\ Unlink(e)
          /\ op' = o /\ ret' = 0 /\ oom' = FALSE
          /\ UNCHANGED <<aux, pc>>

\* Mutants of the next operations, which take the wrong end of the list.
InsertBeforeTail(d) == InsertPrev("insert_begin", tail, d)
RemoveFirstAsLast == ListRemove("remove_last", head)
DestroyFromTail ==
    /\ pc = "ready" /\ pc' = "destroy" /\ aux' = tail
    /\ UNCHANGED <<links, op, ret, oom>>

InsertBegin(d) == InsertPrev("insert_begin", head, d)
InsertEnd(d) == InsertNext("insert_end", tail, d)
RemoveBegin == ListRemove("remove_begin", head)
RemoveLast == ListRemove("remove_last", tail)

DestroyStart ==
    /\ pc = "ready" /\ pc' = "destroy" /\ aux' = head
    /\ UNCHANGED <<links, op, ret, oom>>

\* A mutant of DestroyStep, which walks towards the head.
DestroyBackwards ==
    /\ pc = "destroy" /\ size > 0 /\ aux \in live
    /\ Unlink(aux)
    /\ aux' \in {prev'[aux]} \cup Clobber
    /\ UNCHANGED <<pc, op, ret, oom>>

\* One turn of the loop.  aux->next is read after list_remove has freed aux.
\* With a cursor that is no live node the loop has no defined step: on NULL
\* it spins without progress, on anything else the process is undefined.
DestroyStep ==
    /\ pc = "destroy" /\ size > 0 /\ aux \in live
    /\ Unlink(aux)
    /\ aux' \in {next'[aux]} \cup Clobber
    /\ UNCHANGED <<pc, op, ret, oom>>

DestroyEnd ==
    /\ pc = "destroy" /\ size <= 0
    /\ size' = 0 /\ head' = NULL /\ tail' = NULL
    /\ pc' = "uninit" /\ op' = "destroy" /\ ret' = 0 /\ oom' = FALSE
    /\ UNCHANGED <<data, prev, next, live, aux, owned, order>>

\* A caller passes NULL or a node of the list as the position, and a datum
\* the list does not already hold.
Next ==
    \/ ListInit
    \/ \E e \in live \cup {NULL}, d \in Data \ owned :
          InsertNext("insert_next", e, d) \/ InsertPrev("insert_prev", e, d)
    \/ \E d \in Data \ owned : InsertBegin(d) \/ InsertEnd(d)
    \/ \E e \in live \cup {NULL} : ListRemove("remove", e)
    \/ RemoveBegin
    \/ RemoveLast
    \/ DestroyStart
    \/ DestroyStep
    \/ DestroyEnd

Spec == Init /\ [][Next]_vars

\* list_destroy runs to its end without waiting for anybody.
FairSpec == Spec /\ WF_vars(DestroyStep) /\ WF_vars(DestroyEnd)
-----------------------------------------------------------------------------
Link == Node \cup {NULL}

\* Type invariant: links are node addresses or NULL, counters are naturals.
TypeOK ==
    /\ size \in Nat /\ head \in Link /\ tail \in Link
    /\ data \in [Node -> Data] /\ prev \in [Node -> Link] /\ next \in [Node -> Link]
    /\ live \subseteq Node /\ owned \subseteq Data /\ order \in Seq(Node)
    /\ aux \in Link \cup Clobber
    /\ pc \in {"uninit", "ready", "destroy"}
    /\ op \in Ops /\ ret \in {0, -1} /\ oom \in BOOLEAN

\* The i-th node of the list, NULL before the first and after the last.
At(i) == IF i \in DOMAIN order THEN order[i] ELSE NULL

\* list.c keeps one chain: walking next from head and walking prev from the
\* last node visit the same nodes, each once, size of them, and exactly the
\* allocated ones (no leak, no dangling link); tail is the last node or NULL.
NoRepeat == \A i, j \in DOMAIN order : order[i] = order[j] => i = j
Chained == \A i \in DOMAIN order :
               next[order[i]] = At(i + 1) /\ prev[order[i]] = At(i - 1)
EndsOK == head = At(1) /\ tail \in {NULL, At(Len(order))}
WellLinked ==
    /\ NoRepeat /\ Chained /\ EndsOK
    /\ size = Len(order) /\ live = {order[i] : i \in DOMAIN order}

\* Ownership (list.c:118): every datum handed over is in exactly one node
\* until the one call of list->destroy on it, so no datum is destroyed twice
\* and none is forgotten, whatever the sequence of calls.
OwnedOnce ==
    /\ owned = {data[n] : n \in live}
    /\ \A m, n \in live : data[m] = data[n] => m = n

\* What env_push_scope and env_pop_scope of symbol_table.c rely on when they
\* ignore the result: a front insertion fails only when malloc does, a front
\* removal only on an empty list.
FrontCallsSucceed ==
    /\ op = "insert_begin" /\ ret = -1 => oom
    /\ op = "remove_begin" /\ ret = -1 => size = 0

\* While list_destroy has nodes left its cursor is the head of the list, so
\* list_remove is never called on a freed node.
CursorIsHead == pc = "destroy" /\ size > 0 => aux = head

\* The list.h view: the data in list order.
Abs == INSTANCE SeqList WITH
          contents <- [i \in DOMAIN order |-> data[order[i]]], phase <- pc

\* Every call inserts or removes the datum it says, where it says, and
\* list_destroy empties the list front first.
ImplementsSeqList == Abs!ASpec

\* list_destroy returns.
DestroyTerminates == pc = "destroy" ~> pc = "uninit"
=============================================================================
