-------------------------------- MODULE List --------------------------------
(***************************************************************************)
(* The circular doubly linked lists of list.c and list.h.  A list is known *)
(* by its head, a node that belongs to no structure; an empty list is a    *)
(* head linked to itself.  The operators map the links of all nodes to the *)
(* links after the call.  Assignments are made in the order of the C code, *)
(* which matters when two arguments are the same node.                     *)
(*                                                                         *)
(* HeadCounted is a plausible bug, a wrong form of list_size.              *)
(***************************************************************************)
EXTENDS Integers, Sequences, FiniteSets

CONSTANTS Node,    \* heads and list_head fields
          NIL      \* the NULL link

INIT_LIST_HEAD(l, list) == [l EXCEPT !.next[list] = list, !.prev[list] = list]

__list_add(l, new, prev, next) ==
    [l EXCEPT !.prev[next] = new,
              !.next[new]  = next,
              !.prev[new]  = prev,
              !.next[prev] = new]

list_add(l, new, head)      == __list_add(l, new, head, l.next[head])
list_add_tail(l, new, head) == __list_add(l, new, l.prev[head], head)

(* For a node whose links are NULL this is a write through NULL: callers   *)
(* look at Linked first.                                                   *)
Linked(l, n) == l.next[n] # NIL

list_del(l, entry) ==
    [l EXCEPT !.prev[l.next[entry]] = l.prev[entry],
              !.next[l.prev[entry]] = l.next[entry],
              !.next[entry] = NIL,
              !.prev[entry] = NIL]

list_empty(l, head) == l.next[head] = head
list_first(l, head) == l.next[head]

(* A node whose neighbours do not lead back to it: a copy of another's.    *)
Copied(l, n) == Linked(l, n) /\ l.next[l.prev[n]] # n

(* The nodes that list_for_each visits from head on, in order.             *)
list_for_each(l, head) ==
    LET pos[n \in 0 .. Cardinality(Node)] ==
            IF n = 0 THEN head ELSE l.next[pos[n - 1]]
        end == CHOOSE n \in 1 .. Cardinality(Node) :
                  pos[n] = head /\ \A m \in 1 .. n - 1 : pos[m] # head
    IN  [i \in 1 .. end - 1 |-> pos[i]]

HeadCounted(l, head) == Len(list_for_each(l, head)) + 1

list_size(l, head) ==
    IF list_empty(l, head) THEN 0 ELSE Len(list_for_each(l, head))
=============================================================================
