------------------------------ MODULE LinkedList ------------------------------
(***************************************************************************)
(* The doubly linked lists of LibreRTOS (src/src/librertos.c, lines 857-   *)
(* 920), pointer by pointer.  LIST_HEAD(list) casts a list_t to a node_t,  *)
(* so that a list closes its own ring: its head and tail are next and prev *)
(* of the list itself.  The lists are "ready" (of one priority),           *)
(* "suspended", "delayed0" and "delayed1".                                 *)
(***************************************************************************)
EXTENDS Integers, Sequences, FiniteSets, SequencesExt

CONSTANTS Node,     \* the sched_node of each task
          NULL,
          LengthMod \* list_t.length counts modulo LengthMod

ListId == {"ready", "suspended", "delayed0", "delayed1"}
Cell == Node \cup ListId

\* The assertions of list_insert_after(): no list grows beyond its counter.
ASSUME NodeAssumption ==
    /\ IsFiniteSet(Node) /\ Node # {}
    /\ NULL \notin Cell /\ Node \cap ListId = {}
ASSUME LengthAssumption == LengthMod \in Nat /\ Cardinality(Node) < LengthMod

VARIABLE heap \* the fields next, prev and list of the nodes, head and tail of
              \* the lists (as next and prev), and length of the lists

\* list_insert_after(l, pos, n).
InsertAfter(h, l, pos, n) ==
    [next |-> [h.next EXCEPT ![n] = h.next[pos], ![pos] = n],
     prev |-> [h.prev EXCEPT ![n] = pos, ![h.next[pos]] = n],
     list |-> [h.list EXCEPT ![n] = l],
     length |-> [h.length EXCEPT ![l] = (@ + 1) % LengthMod]]

\* list_insert_first() and list_insert_last().
InsertFirst(h, l, n) == InsertAfter(h, l, l, n)
InsertLast(h, l, n) == InsertAfter(h, l, h.prev[l], n)

\* Mutant: the node after the removed one keeps its prev.
ListRemove_NoPrev(h, n) ==
    [next |-> [h.next EXCEPT ![h.prev[n]] = h.next[n], ![n] = NULL],
     prev |-> [h.prev EXCEPT ![n] = NULL],
     list |-> [h.list EXCEPT ![n] = NULL],
     length |-> [h.length EXCEPT ![h.list[n]] = (@ - 1) % LengthMod]]

\* list_remove(n).
ListRemove(h, n) ==
    [next |-> [h.next EXCEPT ![h.prev[n]] = h.next[n], ![n] = NULL],
     prev |-> [h.prev EXCEPT ![h.next[n]] = h.prev[n], ![n] = NULL],
     list |-> [h.list EXCEPT ![n] = NULL],
     length |-> [h.length EXCEPT ![h.list[n]] = (@ - 1) % LengthMod]]

\* list_init() and node_init() of everything.
EmptyHeap ==
    [next |-> [c \in Cell |-> IF c \in Node THEN NULL ELSE c],
     prev |-> [c \in Cell |-> IF c \in Node THEN NULL ELSE c],
     list |-> [n \in Node |-> NULL],
     length |-> [l \in ListId |-> 0]]

\* node_in_list(n).
NodeInList(h, n) == h.list[n] # NULL

\* The nodes that a walk from the head of l meets, length of them.
SequenceOf(h, l) ==
    LET walk[i \in 0 .. h.length[l]] ==
            IF i = 0 THEN l ELSE h.next[walk[i - 1]]
    IN  [i \in 1 .. h.length[l] |-> walk[i]]
=============================================================================
