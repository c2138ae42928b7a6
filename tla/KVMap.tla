------------------------------- MODULE KVMap -------------------------------
(***************************************************************************)
(* What hashmap.h promises: a map from keys to items.  A call changes it   *)
(* at one instant, and reports the item that was there.  Buckets, probing  *)
(* and resizing are not visible, except that a set may run out of memory.  *)
(***************************************************************************)
CONSTANTS Key, Val, NoVal

VARIABLES dict,          \* the item of each key, NoVal for none
          out            \* the last call that returned, with its result

absVars == <<dict, out>>

Nothing == [k \in Key |-> NoVal]

AInit == dict = Nothing /\ out = [op |-> "free"]

ANew == out' = [op |-> "new"] /\ dict = Nothing /\ UNCHANGED dict

AGet(k) ==
    /\ out' = [op |-> "get", key |-> k, res |-> dict[k]]
    /\ UNCHANGED dict

ASet(k, v) ==
    /\ out' = [op |-> "set", key |-> k, res |-> dict[k]]
    /\ dict' = [dict EXCEPT ![k] = v]

ASetOOM(k) ==
    /\ out' = [op |-> "set_oom", key |-> k, res |-> NoVal]
    /\ UNCHANGED dict

ADelete(k) ==
    /\ out' = [op |-> "delete", key |-> k, res |-> dict[k]]
    /\ dict' = [dict EXCEPT ![k] = NoVal]

\* clear and free drop every item.
ADrop(o) == out' = [op |-> o] /\ dict' = Nothing

ANext ==
    \/ ANew
    \/ \E k \in Key : AGet(k) \/ ADelete(k) \/ ASetOOM(k)
    \/ \E k \in Key, v \in Val : ASet(k, v)
    \/ ADrop("clear")
    \/ ADrop("free")

ASpec == AInit /\ [][ANext]_absVars
============================================================================
