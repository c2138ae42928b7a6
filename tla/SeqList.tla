------------------------------ MODULE SeqList ------------------------------
(***************************************************************************)
(* What list.h promises to a caller: a sequence of data that is inserted   *)
(* into and removed from at one place at a time, and that list_destroy     *)
(* empties from the front.  Nodes, links, the tail pointer and memory are  *)
(* not visible here, except that a call may be refused.                    *)
(***************************************************************************)
EXTENDS Integers, Sequences, SequencesExt

CONSTANT Data            \* the data pointers a caller can put in the list

VARIABLES contents,      \* the data, front first
          phase,         \* "uninit" before list_init, "destroy" in list_destroy
          op,            \* the last call that returned
          ret            \* its result: 0, or -1 when it was refused

absVars == <<contents, phase, op, ret>>

Ops == {"init", "insert_next", "insert_prev", "insert_begin", "insert_end",
        "remove", "remove_begin", "remove_last", "destroy"}

AInit == contents = <<>> /\ phase = "uninit" /\ op = "init" /\ ret = 0

Positions == DOMAIN contents

AOpen ==
    /\ phase = "uninit"
    /\ phase' = "ready" /\ contents' = <<>> /\ op' = "init" /\ ret' = 0

\* A refused call leaves the sequence as it was.
ARefuse ==
    /\ phase = "ready"
    /\ op' \in Ops \ {"init", "destroy"} /\ ret' = -1
    /\ UNCHANGED <<contents, phase>>

\* The place a successful insertion of each kind may choose.
InsertPlace(o, i) ==
    \/ o \in {"insert_next", "insert_prev"} /\ contents = <<>> /\ i = 1
    \/ o = "insert_next" /\ i - 1 \in Positions
    \/ o = "insert_prev" /\ i \in Positions
    \/ o = "insert_begin" /\ i = 1
    \/ o = "insert_end" /\ i = Len(contents) + 1

AInsert(o, i, d) ==
    /\ phase = "ready" /\ InsertPlace(o, i)
    /\ contents' = InsertAt(contents, i, d)
    /\ op' = o /\ ret' = 0
    /\ UNCHANGED phase

RemovePlace(o, i) ==
    /\ o = "remove_begin" => i = 1
    /\ o = "remove_last" => i = Len(contents)

ARemove(o, i) ==
    /\ phase = "ready" /\ RemovePlace(o, i)
    /\ contents' = RemoveAt(contents, i)
    /\ op' = o /\ ret' = 0
    /\ UNCHANGED phase

AClearStart ==
    /\ phase = "ready" /\ phase' = "destroy"
    /\ UNCHANGED <<contents, op, ret>>

AClearHead ==
    /\ phase = "destroy" /\ contents # <<>>
    /\ contents' = Tail(contents)
    /\ UNCHANGED <<phase, op, ret>>

AClose ==
    /\ phase = "destroy" /\ contents = <<>>
    /\ phase' = "uninit" /\ op' = "destroy" /\ ret' = 0
    /\ UNCHANGED contents

ANext ==
    \/ AOpen
    \/ ARefuse
    \/ \E o \in Ops, i \in 1..(Len(contents) + 1), d \in Data : AInsert(o, i, d)
    \/ \E o \in {"remove", "remove_begin", "remove_last"}, i \in Positions : ARemove(o, i)
    \/ AClearStart
    \/ AClearHead
    \/ AClose

ASpec == AInit /\ [][ANext]_absVars /\ WF_absVars(AClearHead) /\ WF_absVars(AClose)
============================================================================
