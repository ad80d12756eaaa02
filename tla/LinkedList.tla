----------------------------- MODULE LinkedList ------------------------------
(***************************************************************************)
(* The doubly linked lists of list.c.  L holds the links of all nodes, the *)
(* heads and the entries: L.next[n] and L.prev[n] are the fields of node n.*)
(* NULL counts as a node, too: its fields are the words at 0 and 4, which  *)
(* belong to somebody else.                                                *)
(***************************************************************************)
CONSTANT NULL

INIT_LIST_HEAD(L, list) ==
  [next |-> [L.next EXCEPT ![list] = list],
   prev |-> [L.prev EXCEPT ![list] = list]]

\* __list_add and __list_del store in this order, which tells when the nodes are
\* not different.
insert(L, new, prev, next) ==
  [next |-> [L.next EXCEPT ![new] = next, ![prev] = new],
   prev |-> [L.prev EXCEPT ![next] = new, ![new] = prev]]

join(L, prev, next) ==
  [next |-> [L.next EXCEPT ![prev] = next],
   prev |-> [L.prev EXCEPT ![next] = prev]]

list_add(L, new, head) == insert(L, new, head, L.next[head])

list_add_tail(L, new, head) == insert(L, new, L.prev[head], head)

unlinked(L, entry) ==
  [next |-> [L.next EXCEPT ![entry] = NULL],
   prev |-> [L.prev EXCEPT ![entry] = NULL]]

list_del(L, entry) ==
  unlinked(join(L, L.prev[entry], L.next[entry]), entry)

list_first(L, head) == L.next[head]

list_empty(L, head) == L.next[head] = head
=============================================================================
