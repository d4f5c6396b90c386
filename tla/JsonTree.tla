------------------------------ MODULE JsonTree ------------------------------
(***************************************************************************)
(* The tree of util/json.c: nodes with parent, prev and next pointers, and *)
(* head and tail pointers to the list of children of arrays and objects.   *)
(* The daemon rebuilds such a tree in every round of its check loop and    *)
(* deletes the old one.                                                    *)
(*                                                                         *)
(* Every function of the interface is one action, except json_delete: it   *)
(* calls itself for every child, and its activations are kept on a stack   *)
(* so that each iteration of its loop is a step.                           *)
(***************************************************************************)
EXTENDS Naturals, Sequences, FiniteSets

CONSTANTS Nodes,  \* addresses calloc may return
          Null,
          Keys    \* keys of object members

ASSUME NodesAssumption == IsFiniteSet(Nodes) /\ Null \notin Nodes /\ Null \notin Keys

VARIABLES
  tag,                       \* "free", or the tag; scalars are all alike
  parent, prev, next,
  head, tail,                \* children.head and children.tail
  key,
  stack,                     \* activations of json_delete
  handles                    \* history: the nodes that callers hold

links == <<parent, prev, next, head, tail, key>>
vars == <<tag, parent, prev, next, head, tail, key, stack, handles>>

Containers == {"array", "object"}
Tags == {"scalar"} \cup Containers
Live == {n \in Nodes : tag[n] # "free"}
NodeOrNull == Nodes \cup {Null}

Init ==
  /\ tag = [n \in Nodes |-> "free"]
  /\ parent = [n \in Nodes |-> Null]
  /\ prev = [n \in Nodes |-> Null]
  /\ next = [n \in Nodes |-> Null]
  /\ head = [n \in Nodes |-> Null]
  /\ tail = [n \in Nodes |-> Null]
  /\ key = [n \in Nodes |-> Null]
  /\ stack = <<>>
  /\ handles = {}

\* The library is called by one thread at a time, and not while json_delete
\* is at work.
Idle == stack = <<>>

\* calloc and the tag: json_mknull, json_mkbool, json_mkstring,
\* json_mknumber, json_mkarray, json_mkobject.
mknode(n, t) ==
  /\ Idle
  /\ tag[n] = "free"
  /\ tag' = [tag EXCEPT ![n] = t]
  /\ handles' = handles \cup {n}
  /\ UNCHANGED <<links, stack>>

(***************************************************************************)
(* Insertion.                                                              *)
(***************************************************************************)

\* Mutant: the new child does not point back to the last one.
append_node_no_prev(p, c) ==
  /\ parent' = [parent EXCEPT ![c] = p]
  /\ prev' = [prev EXCEPT ![c] = Null]
  /\ next' = IF tail[p] # Null THEN [next EXCEPT ![c] = Null, ![tail[p]] = c]
                               ELSE [next EXCEPT ![c] = Null]
  /\ head' = IF tail[p] # Null THEN head ELSE [head EXCEPT ![p] = c]
  /\ tail' = [tail EXCEPT ![p] = c]

append_node(p, c) ==
  /\ parent' = [parent EXCEPT ![c] = p]
  /\ prev' = [prev EXCEPT ![c] = tail[p]]
  /\ next' = IF tail[p] # Null THEN [next EXCEPT ![c] = Null, ![tail[p]] = c]
                               ELSE [next EXCEPT ![c] = Null]
  /\ head' = IF tail[p] # Null THEN head ELSE [head EXCEPT ![p] = c]
  /\ tail' = [tail EXCEPT ![p] = c]

\* Mutant: an empty list gets no tail.
prepend_node_no_tail(p, c) ==
  /\ parent' = [parent EXCEPT ![c] = p]
  /\ next' = [next EXCEPT ![c] = head[p]]
  /\ prev' = IF head[p] # Null THEN [prev EXCEPT ![c] = Null, ![head[p]] = c]
                               ELSE [prev EXCEPT ![c] = Null]
  /\ UNCHANGED tail
  /\ head' = [head EXCEPT ![p] = c]

prepend_node(p, c) ==
  /\ parent' = [parent EXCEPT ![c] = p]
  /\ next' = [next EXCEPT ![c] = head[p]]
  /\ prev' = IF head[p] # Null THEN [prev EXCEPT ![c] = Null, ![head[p]] = c]
                               ELSE [prev EXCEPT ![c] = Null]
  /\ tail' = IF head[p] # Null THEN tail ELSE [tail EXCEPT ![p] = c]
  /\ head' = [head EXCEPT ![p] = c]

\* The k-th ancestor of n, Null beyond the root.
Ancestor(n, k) ==
  LET up[i \in 0..k] == IF i = 0 THEN n
                        ELSE IF up[i - 1] = Null THEN Null ELSE parent[up[i - 1]]
  IN up[k]

\* n is in the tree below c, or is c.
Below(n, c) == \E k \in 0..Cardinality(Nodes) : Ancestor(n, k) = c

\* What the functions assert of the child, and what no caller does: make a
\* node its own descendant.
Insertable(p, c) == /\ Idle
                    /\ {p, c} \subseteq Live
                    /\ parent[c] = Null
                    /\ ~Below(p, c)

json_append_element(a, c) ==
  /\ tag[a] = "array"
  /\ Insertable(a, c)
  /\ append_node(a, c)
  /\ handles' = handles \ {c}
  /\ UNCHANGED <<tag, key, stack>>

json_prepend_element(a, c) ==
  /\ tag[a] = "array"
  /\ Insertable(a, c)
  /\ prepend_node(a, c)
  /\ handles' = handles \ {c}
  /\ UNCHANGED <<tag, key, stack>>

\* Mutant: the key is assigned from the wrong argument.
json_append_member_swapped(o, k, c) ==
  /\ tag[o] = "object"
  /\ Insertable(o, c)
  /\ append_node(o, c)
  /\ key' = [key EXCEPT ![c] = o]
  /\ handles' = handles \ {c}
  /\ UNCHANGED <<tag, stack>>

json_append_member(o, k, c) ==
  /\ tag[o] = "object"
  /\ Insertable(o, c)
  /\ append_node(o, c)
  /\ key' = [key EXCEPT ![c] = k]
  /\ handles' = handles \ {c}
  /\ UNCHANGED <<tag, stack>>

json_prepend_member(o, k, c) ==
  /\ tag[o] = "object"
  /\ Insertable(o, c)
  /\ prepend_node(o, c)
  /\ key' = [key EXCEPT ![c] = k]
  /\ handles' = handles \ {c}
  /\ UNCHANGED <<tag, stack>>

(***************************************************************************)
(* Removal.                                                                *)
(***************************************************************************)

\* Mutant: the tail is not moved when the last child leaves.
unlink_no_tail(n) ==
  IF parent[n] = Null THEN UNCHANGED links
  ELSE /\ next' = IF prev[n] # Null THEN [next EXCEPT ![prev[n]] = next[n], ![n] = Null]
                                    ELSE [next EXCEPT ![n] = Null]
       /\ head' = IF prev[n] # Null THEN head ELSE [head EXCEPT ![parent[n]] = next[n]]
       /\ prev' = IF next[n] # Null THEN [prev EXCEPT ![next[n]] = prev[n], ![n] = Null]
                                    ELSE [prev EXCEPT ![n] = Null]
       /\ UNCHANGED tail
       /\ parent' = [parent EXCEPT ![n] = Null]
       /\ key' = [key EXCEPT ![n] = Null]

\* The body of json_remove_from_parent.
unlink(n) ==
  IF parent[n] = Null THEN UNCHANGED links
  ELSE /\ next' = IF prev[n] # Null THEN [next EXCEPT ![prev[n]] = next[n], ![n] = Null]
                                    ELSE [next EXCEPT ![n] = Null]
       /\ head' = IF prev[n] # Null THEN head ELSE [head EXCEPT ![parent[n]] = next[n]]
       /\ prev' = IF next[n] # Null THEN [prev EXCEPT ![next[n]] = prev[n], ![n] = Null]
                                    ELSE [prev EXCEPT ![n] = Null]
       /\ tail' = IF next[n] # Null THEN tail ELSE [tail EXCEPT ![parent[n]] = prev[n]]
       /\ parent' = [parent EXCEPT ![n] = Null]
       /\ key' = [key EXCEPT ![n] = Null]

json_remove_from_parent(n) ==
  /\ Idle
  /\ n \in Live
  /\ unlink(n)
  /\ handles' = handles \cup {n}
  /\ UNCHANGED <<tag, stack>>

(***************************************************************************)
(* Deletion.                                                               *)
(***************************************************************************)

\* An activation of json_delete: its node, and the child its loop looks at.
Activation(n) == [node |-> n, child |-> IF tag[n] \in Containers THEN head[n] ELSE Null]

Top == stack[Len(stack)]

\* A caller deletes a node it has found.
json_delete(n) ==
  /\ Idle
  /\ n \in Live
  /\ unlink(n)
  /\ stack' = <<Activation(n)>>
  /\ handles' = handles \ {n}
  /\ UNCHANGED tag

\* Mutant: the loop stops after the first child.
delete_child_once ==
  /\ stack # <<>> /\ Top.child # Null
  /\ unlink(Top.child)
  /\ stack' = Append([stack EXCEPT ![Len(stack)].child = Null], Activation(Top.child))
  /\ UNCHANGED <<tag, handles>>

\* One iteration: next = child->next, then json_delete(child).
delete_child ==
  /\ stack # <<>> /\ Top.child # Null
  /\ unlink(Top.child)
  /\ stack' = Append([stack EXCEPT ![Len(stack)].child = next[Top.child]],
                     Activation(Top.child))
  /\ UNCHANGED <<tag, handles>>

\* The loop is over: free(node) and return.
delete_free ==
  /\ stack # <<>> /\ Top.child = Null
  /\ tag' = [tag EXCEPT ![Top.node] = "free"]
  /\ head' = [head EXCEPT ![Top.node] = Null]
  /\ tail' = [tail EXCEPT ![Top.node] = Null]
  /\ stack' = SubSeq(stack, 1, Len(stack) - 1)
  /\ UNCHANGED <<parent, prev, next, key, handles>>

Next ==
  \/ \E n \in Nodes, t \in Tags : mknode(n, t)
  \/ \E p, c \in Nodes : json_append_element(p, c) \/ json_prepend_element(p, c)
  \/ \E p, c \in Nodes, k \in Keys :
       json_append_member(p, k, c) \/ json_prepend_member(p, k, c)
  \/ \E n \in Nodes : json_remove_from_parent(n) \/ json_delete(n)
  \/ delete_child
  \/ delete_free

Spec == Init /\ [][Next]_vars

(***************************************************************************)
(* Traversal.                                                              *)
(***************************************************************************)

\* The node k links after first in the list that link threads.
Nth(first, link, k) ==
  LET at[i \in 0..k] == IF i = 0 THEN first
                        ELSE IF at[i - 1] = Null THEN Null ELSE link[at[i - 1]]
  IN at[k]

\* The nodes of a list, in the order json_foreach visits them.
Walk(first, link) ==
  LET len == CHOOSE l \in 0..Cardinality(Nodes) :
               /\ l < Cardinality(Nodes) => Nth(first, link, l) = Null
               /\ \A k \in 0..(l - 1) : Nth(first, link, k) # Null
  IN [i \in 1..len |-> Nth(first, link, i - 1)]

Kids(n) == Walk(head[n], next)

json_first_child(n) == IF tag[n] \in Containers THEN head[n] ELSE Null

\* The first node in the list from n on with key k.
FirstWithKey(first, k) ==
  LET matching == {i \in DOMAIN Walk(first, next) : key[Walk(first, next)[i]] = k}
  IN IF matching = {} THEN Null
     ELSE Walk(first, next)[CHOOSE i \in matching : \A j \in matching : i <= j]

json_find_member(o, k) ==
  IF tag[o] # "object" THEN Null ELSE FirstWithKey(json_first_child(o), k)

json_find_element(a, i) ==
  IF tag[a] # "array" THEN Null ELSE Nth(json_first_child(a), next, i)

\* json_check for one node; it calls itself for the children.
json_check(n) ==
  /\ tag[n] \in Tags
  /\ tag[n] \in Containers =>
       /\ head[n] = Null <=> tail[n] = Null
       /\ head[n] # Null => prev[head[n]] = Null
       /\ \A c \in {Kids(n)[i] : i \in DOMAIN Kids(n)} :
            /\ c # n /\ next[c] # c /\ next[c] # head[n]
            /\ parent[c] = n
            /\ next[c] # Null => prev[next[c]] = c
            /\ key[c] = Null <=> tag[n] = "array"
       /\ Kids(n) # <<>> => Kids(n)[Len(Kids(n))] = tail[n]

(***************************************************************************)
(* Properties.                                                             *)
(***************************************************************************)

\* Tags, pointers and keys of the nodes, and the activations of json_delete.
TypeOK ==
  /\ tag \in [Nodes -> Tags \cup {"free"}]
  /\ parent \in [Nodes -> NodeOrNull]
  /\ prev \in [Nodes -> NodeOrNull]
  /\ next \in [Nodes -> NodeOrNull]
  /\ head \in [Nodes -> NodeOrNull]
  /\ tail \in [Nodes -> NodeOrNull]
  /\ key \in [Nodes -> Keys \cup {Null}]
  /\ stack \in Seq([node : Nodes, child : NodeOrNull])
  /\ handles \subseteq Nodes

\* json_check accepts every node that exists, whatever sequence of calls
\* built, cut or half deleted its tree.
TreeChecks == \A n \in Live : json_check(n)

\* No pointer of a node that exists, and no pointer json_delete still
\* follows, leads to freed memory.
NoDanglingPointer ==
  /\ \A n \in Live : {parent[n], prev[n], next[n], head[n], tail[n]} \ {Null} \subseteq Live
  /\ \A i \in DOMAIN stack : {stack[i].node, stack[i].child} \ {Null} \subseteq Live

\* json_delete frees all of the tree it is given: the nodes that exist are
\* those a caller still holds and those in a tree below one of them.
NoLeak == Idle => /\ {n \in Live : parent[n] = Null} = handles
                  /\ \A n \in Live : \E h \in handles : Below(n, h)

\* The prev pointers, followed from the tail.
Backward(n) == Walk(tail[n], prev)

\* A search from the head finds what a count from the tail says: the i-th
\* element, and no member before the one with the key that was asked for.
FindAgrees ==
  \A n \in Live :
    LET b == Backward(n)
        len == Len(b)
    IN /\ tag[n] = "array" =>
            \A i \in 0..Cardinality(Nodes) :
              json_find_element(n, i) = IF i < len THEN b[len - i] ELSE Null
       /\ tag[n] = "object" =>
            \A k \in Keys :
              LET found == json_find_member(n, k)
              IN IF found = Null THEN \A i \in 1..len : key[b[i]] # k
                 ELSE \E i \in 1..len : /\ b[i] = found /\ key[found] = k
                                        /\ \A j \in (i + 1)..len : key[b[j]] # k

\* The lists of children are what an ordered tree promises: each operation
\* puts a node at one end, or takes it out and keeps the order of the rest.
Ordered == INSTANCE OrderedTree WITH live <- Live, kids <- [n \in Nodes |-> Kids(n)]

ImplementsOrderedTree == Ordered!TreeSpec
=============================================================================
