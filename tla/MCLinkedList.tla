---------------------------- MODULE MCLinkedList ----------------------------
(* Small instances of LinkedList for TLC. *)
EXTENDS LinkedList

CONSTANTS n1, n2, n3, d1, d2, d3

MCNode == {n1, n2, n3}
MCData == {d1, d2, d3}
NoClobber == {}
ZeroClobber == {NULL}
=============================================================================
