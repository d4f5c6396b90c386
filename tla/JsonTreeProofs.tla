--------------------------- MODULE JsonTreeProofs ---------------------------
(***************************************************************************)
(* Proofs about the tree of util/json.c, for every number of nodes.        *)
(*                                                                         *)
(* The inductive invariant says of every pointer what it has to agree with *)
(* next to it, and of prev and parent that they have no cycle: every set   *)
(* of nodes has a member from which the pointer leads out of the set.      *)
(***************************************************************************)
EXTENDS JsonTree, FiniteSetTheorems, WellFoundedInduction, TLAPS

(***************************************************************************)
(* The inductive invariant.                                                *)
(***************************************************************************)

\* Freed memory is no part of a tree: calloc clears it, and the last node that
\* json_delete frees was cut off before.
FreeInv == \A n \in Nodes : tag[n] = "free" => head[n] = Null /\ parent[n] = Null

\* Only arrays and objects have children, and they have a first child if and
\* only if they have a last one.
EndsInv ==
  \A p \in Nodes :
    /\ tag[p] \notin Containers => head[p] = Null
    /\ head[p] = Null <=> tail[p] = Null
    /\ head[p] # Null => parent[head[p]] = p /\ prev[head[p]] = Null
    /\ tail[p] # Null => parent[tail[p]] = p /\ next[tail[p]] = Null

\* A root has no siblings and no key.
RootInv == \A c \in Nodes : parent[c] = Null => prev[c] = Null /\ next[c] = Null /\ key[c] = Null

\* The siblings of a child agree with it on their parent and on being next to
\* each other; the first and the last are where the parent looks for them.
ListInv ==
  \A c \in Nodes : parent[c] # Null =>
    /\ prev[c] = Null => head[parent[c]] = c
    /\ prev[c] # Null => parent[prev[c]] = parent[c] /\ next[prev[c]] = c
    /\ next[c] = Null => tail[parent[c]] = c
    /\ next[c] # Null => parent[next[c]] = parent[c] /\ prev[next[c]] = c
    /\ key[c] = Null <=> tag[parent[c]] = "array"

\* No pointer of this kind leads around in a circle.
Acyclic(link) == \A S \in SUBSET Nodes : S # {} => \E x \in S : link[x] \notin S

\* json_delete works on roots that no caller has, each once, and its loop
\* stands at the first child that is left.
StackInv ==
  /\ \A i \in DOMAIN stack :
       /\ stack[i].node \in Live \ handles
       /\ parent[stack[i].node] = Null
       /\ stack[i].child = head[stack[i].node]
  /\ \A i, j \in DOMAIN stack : stack[i].node = stack[j].node => i = j

\* A root is held by a caller or is about to be freed.
RootsInv ==
  /\ handles \subseteq {n \in Live : parent[n] = Null}
  /\ \A n \in Live : parent[n] = Null => \/ n \in handles
                                         \/ \E i \in DOMAIN stack : stack[i].node = n

Shape == FreeInv /\ EndsInv /\ RootInv /\ ListInv

IInv == TypeOK /\ Shape /\ Acyclic(prev) /\ Acyclic(parent) /\ StackInv /\ RootsInv

(***************************************************************************)
(* Numbers and lists.                                                      *)
(***************************************************************************)

\* A set of numbers has a least member.
LEMMA LeastNumber == ASSUME NEW S \in SUBSET Nat, S # {}
                     PROVE \E k \in S : \A j \in S : k <= j
<1> DEFINE T == {1..k : k \in S}
<1>1. T # {} /\ T \subseteq FiniteSubsetsOf(Nat)
  <2>1. \A k \in S : 1..k \in SUBSET Nat /\ IsFiniteSet(1..k)
    BY FS_Interval
  <2> QED
    BY <2>1 DEF FiniteSubsetsOf
<1>2. \E x \in T : \A y \in T : ~(<<y, x>> \in StrictSubsetOrdering(Nat))
  <2> HIDE DEF T
  <2> QED
    BY <1>1, WFMin, FS_StrictSubsetOrderingWellFounded
<1>3. PICK k \in S : \A j \in S : ~(<<1..j, 1..k>> \in StrictSubsetOrdering(Nat))
  BY <1>2
<1> SUFFICES ASSUME NEW j \in S, j < k
             PROVE FALSE
  OBVIOUS
<1>4. 1..j \subseteq 1..k /\ k \in 1..k /\ k \notin 1..j
  OBVIOUS
<1>5. 1..j \in SUBSET Nat /\ 1..k \in SUBSET Nat
  OBVIOUS
<1> QED
  BY <1>3, <1>4, <1>5 DEF StrictSubsetOrdering

\* What Nth is defined to be: a function on 0..k that starts with first and
\* follows link.
Follows(f, first, link, k) ==
  f = [i \in 0..k |-> IF i = 0 THEN first
                      ELSE IF f[i - 1] = Null THEN Null ELSE link[f[i - 1]]]

\* There is such a function for every k.
LEMMA FollowsExists ==
  ASSUME NEW first, NEW link, NEW k \in Nat
  PROVE \E f : Follows(f, first, link, k)
<1> DEFINE Bad == {m \in Nat : ~ \E f : Follows(f, first, link, m)}
<1> SUFFICES ASSUME Bad # {}
             PROVE FALSE
  OBVIOUS
<1>1. PICK m \in Bad : \A j \in Bad : m <= j
  BY LeastNumber
<1>2. m # 0
  <2>1. [i \in 0..0 |-> first] = [i \in 0..0 |-> IF i = 0 THEN first
             ELSE IF [j \in 0..0 |-> first][i - 1] = Null THEN Null
                  ELSE link[[j \in 0..0 |-> first][i - 1]]]
    OBVIOUS
  <2> QED
    BY <2>1 DEF Follows
<1>3. m - 1 \in Nat /\ m - 1 \notin Bad
  BY <1>1, <1>2
<1>4. PICK f : Follows(f, first, link, m - 1)
  BY <1>3
<1> DEFINE g == [i \in 0..m |-> IF i < m THEN f[i]
                                ELSE IF f[m - 1] = Null THEN Null ELSE link[f[m - 1]]]
<1>5. \A i \in 0..m : g[i] = IF i = 0 THEN first
                             ELSE IF g[i - 1] = Null THEN Null ELSE link[g[i - 1]]
  <2> SUFFICES ASSUME NEW i \in 0..m
               PROVE g[i] = IF i = 0 THEN first
                            ELSE IF g[i - 1] = Null THEN Null ELSE link[g[i - 1]]
    OBVIOUS
  <2>1. \A j \in 0..(m - 1) : f[j] = IF j = 0 THEN first
                                     ELSE IF f[j - 1] = Null THEN Null ELSE link[f[j - 1]]
    BY <1>4 DEF Follows
  <2>2. \A j \in 0..(m - 1) : g[j] = f[j]
    BY <1>3
  <2>3. g[m] = IF f[m - 1] = Null THEN Null ELSE link[f[m - 1]]
    BY <1>3
  <2> HIDE DEF g
  <2>4. CASE i = m
    BY <1>2, <1>3, <2>2, <2>3, <2>4
  <2>5. CASE i # m /\ i = 0
    BY <1>3, <2>1, <2>2, <2>5
  <2>6. CASE i # m /\ i # 0
    <3>1. i \in 0..(m - 1) /\ i - 1 \in 0..(m - 1)
      BY <1>3, <2>6
    <3> QED
      BY <2>1, <2>2, <3>1, <2>6
  <2> QED
    BY <2>4, <2>5, <2>6
<1>6. Follows(g, first, link, m)
  <2>1. g = [i \in 0..m |-> g[i]]
    OBVIOUS
  <2> HIDE DEF g
  <2> QED
    BY <1>5, <2>1 DEF Follows
<1> QED
  BY <1>6

\* The walk begins at first, and goes on from where it was.
LEMMA NthStep ==
  ASSUME NEW first, NEW link
  PROVE /\ Nth(first, link, 0) = first
        /\ \A k \in Nat : Nth(first, link, k + 1) =
             IF Nth(first, link, k) = Null THEN Null ELSE link[Nth(first, link, k)]
<1> DEFINE F(k) == CHOOSE f : Follows(f, first, link, k)
<1>1. \A k \in Nat : Follows(F(k), first, link, k)
  BY FollowsExists, Zenon
<1>2. \A k \in Nat : Nth(first, link, k) = F(k)[k]
  BY DEF Nth, Follows
<1> HIDE DEF F
<1>3. \A k \in Nat : \A i \in 0..k :
        F(k)[i] = IF i = 0 THEN first
                  ELSE IF F(k)[i - 1] = Null THEN Null ELSE link[F(k)[i - 1]]
  <2> SUFFICES ASSUME NEW k \in Nat, NEW i \in 0..k
               PROVE F(k)[i] = IF i = 0 THEN first
                               ELSE IF F(k)[i - 1] = Null THEN Null ELSE link[F(k)[i - 1]]
    OBVIOUS
  <2> DEFINE f == F(k)
  <2>1. Follows(f, first, link, k)
    BY <1>1
  <2> HIDE DEF f
  <2>2. f[i] = IF i = 0 THEN first ELSE IF f[i - 1] = Null THEN Null ELSE link[f[i - 1]]
    BY <2>1 DEF Follows
  <2> QED
    BY <2>2 DEF f
<1>4. \A k \in Nat : \A i \in 0..k : F(k + 1)[i] = F(k)[i]
  <2> SUFFICES ASSUME NEW k \in Nat
               PROVE \A i \in 0..k : F(k + 1)[i] = F(k)[i]
    OBVIOUS
  <2> DEFINE Bad == {i \in 0..k : F(k + 1)[i] # F(k)[i]}
  <2> SUFFICES ASSUME Bad # {}
               PROVE FALSE
    OBVIOUS
  <2>0. Bad \in SUBSET Nat
    OBVIOUS
  <2>1. PICK m \in Bad : \A j \in Bad : m <= j
    BY <2>0, LeastNumber, Zenon
  <2>2. m # 0
    BY <1>3, <2>1
  <2>3. m - 1 \in 0..k /\ m - 1 \notin Bad /\ m \in 0..k /\ m \in 0..(k + 1)
    BY <2>1, <2>2
  <2>4. F(k + 1)[m - 1] = F(k)[m - 1]
    BY <2>3
  <2>5. F(k + 1)[m] = IF F(k + 1)[m - 1] = Null THEN Null ELSE link[F(k + 1)[m - 1]]
    BY <1>3, <2>2, <2>3
  <2>6. F(k)[m] = IF F(k)[m - 1] = Null THEN Null ELSE link[F(k)[m - 1]]
    BY <1>3, <2>2, <2>3
  <2> QED
    BY <2>4, <2>5, <2>6
<1>5. Nth(first, link, 0) = first
  BY <1>2, <1>3
<1>6. ASSUME NEW k \in Nat
      PROVE Nth(first, link, k + 1) =
              IF Nth(first, link, k) = Null THEN Null ELSE link[Nth(first, link, k)]
  <2>1. k + 1 \in Nat /\ k + 1 # 0 /\ k + 1 \in 0..(k + 1) /\ (k + 1) - 1 = k /\ k \in 0..k
    OBVIOUS
  <2>2. F(k + 1)[k + 1] = IF F(k + 1)[k] = Null THEN Null ELSE link[F(k + 1)[k]]
    BY <1>3, <2>1
  <2>3. F(k + 1)[k] = F(k)[k]
    BY <1>4, <2>1
  <2> QED
    BY <1>2, <2>1, <2>2, <2>3
<1> QED
  BY <1>5, <1>6

\* Climbing is walking along the parent pointers.
LEMMA AncestorIsNth == ASSUME NEW n, NEW k
                       PROVE Ancestor(n, k) = Nth(n, parent, k)
BY DEF Ancestor, Nth

(***************************************************************************)
(* The lists of children.                                                  *)
(***************************************************************************)

\* A node that has a child has a first one: going back along prev from any
\* child ends, and it ends there.
LEMMA FirstChild ==
  ASSUME TypeOK, Shape, Acyclic(prev), NEW c \in Nodes, parent[c] # Null
  PROVE parent[c] \in Nodes /\ head[parent[c]] # Null
<1>1. PICK p : p = parent[c]
  OBVIOUS
<1>2. p \in Nodes
  BY <1>1 DEF TypeOK, NodeOrNull
<1> DEFINE S == {x \in Nodes : parent[x] = p}
<1>3. PICK x \in S : prev[x] \notin S
  BY <1>1 DEF Acyclic
<1>4. prev[x] = Null
  BY <1>1, <1>2, <1>3 DEF TypeOK, NodeOrNull, Shape, ListInv
<1> QED
  BY <1>1, <1>2, <1>3, <1>4, NodesAssumption DEF Shape, ListInv

\* append_node puts a root at the end of a list.
LEMMA AppendShape ==
  ASSUME TypeOK, Shape, Acyclic(prev), NEW p \in Live, NEW c \in Live, NEW k \in Keys \cup {Null},
         p # c, parent[c] = Null, tag[p] \in Containers, k = Null <=> tag[p] = "array",
         append_node(p, c), key' = [key EXCEPT ![c] = k], UNCHANGED tag
  PROVE Shape' /\ Acyclic(prev)'
<1> USE NodesAssumption DEF Live
<1>1. \A x \in Nodes : /\ parent'[x] = IF x = c THEN p ELSE parent[x]
                       /\ prev'[x] = IF x = c THEN tail[p] ELSE prev[x]
                       /\ next'[x] = IF x = c THEN Null ELSE IF x = tail[p] THEN c ELSE next[x]
                       /\ head'[x] = IF x = p /\ tail[p] = Null THEN c ELSE head[x]
                       /\ tail'[x] = IF x = p THEN c ELSE tail[x]
                       /\ key'[x] = IF x = c THEN k ELSE key[x]
                       /\ tag'[x] = tag[x]
  <2>1. tail[p] # c
    BY DEF Shape, EndsInv
  <2> QED
    BY <2>1 DEF append_node, TypeOK
<1>2. \A x \in Nodes : prev[x] # c /\ next[x] # c /\ head[x] # c /\ tail[x] # c
  BY DEF Shape, EndsInv, ListInv, RootInv
<1>3. FreeInv'
  BY <1>1 DEF Shape, FreeInv
<1>4. EndsInv'
  <2> SUFFICES ASSUME NEW q \in Nodes
               PROVE /\ tag'[q] \notin Containers => head'[q] = Null
                     /\ head'[q] = Null <=> tail'[q] = Null
                     /\ head'[q] # Null => parent'[head'[q]] = q /\ prev'[head'[q]] = Null
                     /\ tail'[q] # Null => parent'[tail'[q]] = q /\ next'[tail'[q]] = Null
    BY DEF EndsInv
  <2>1. head[q] \in NodeOrNull /\ tail[q] \in NodeOrNull
    BY DEF TypeOK
  <2> QED
    BY <1>1, <1>2, <2>1 DEF Shape, EndsInv, NodeOrNull
<1>5. RootInv'
  BY <1>1, <1>2 DEF Shape, RootInv, EndsInv, TypeOK, NodeOrNull
<1>6. ListInv'
  <2> SUFFICES ASSUME NEW x \in Nodes, parent'[x] # Null
               PROVE /\ prev'[x] = Null => head'[parent'[x]] = x
                     /\ prev'[x] # Null => parent'[prev'[x]] = parent'[x] /\ next'[prev'[x]] = x
                     /\ next'[x] = Null => tail'[parent'[x]] = x
                     /\ next'[x] # Null => parent'[next'[x]] = parent'[x] /\ prev'[next'[x]] = x
                     /\ key'[x] = Null <=> tag'[parent'[x]] = "array"
    BY DEF ListInv
  <2>1. /\ prev[x] \in NodeOrNull /\ next[x] \in NodeOrNull /\ parent[x] \in NodeOrNull
        /\ tail[p] \in NodeOrNull
    BY DEF TypeOK
  <2>2. CASE x = c
    BY <1>1, <1>2, <2>1, <2>2 DEF Shape, EndsInv, NodeOrNull
  <2>3. CASE x # c
    BY <1>1, <1>2, <2>1, <2>3 DEF Shape, EndsInv, ListInv, NodeOrNull
  <2> QED
    BY <2>2, <2>3
<1>7. Acyclic(prev)'
  <2> SUFFICES ASSUME NEW S \in SUBSET Nodes, S # {}
               PROVE \E x \in S : prev'[x] \notin S
    BY DEF Acyclic
  <2>1. CASE S = {c}
    BY <1>1, <1>2, <2>1
  <2>2. CASE S # {c}
    <3>1. S \ {c} # {} /\ S \ {c} \in SUBSET Nodes
      BY <2>2
    <3>2. PICK x \in S \ {c} : prev[x] \notin S \ {c}
      BY <3>1 DEF Acyclic
    <3> QED
      BY <1>1, <1>2, <3>2
  <2> QED
    BY <2>1, <2>2
<1> QED
  BY <1>3, <1>4, <1>5, <1>6, <1>7 DEF Shape

\* prepend_node puts a root at the front of a list.
LEMMA PrependShape ==
  ASSUME TypeOK, Shape, Acyclic(prev), NEW p \in Live, NEW c \in Live, NEW k \in Keys \cup {Null},
         p # c, parent[c] = Null, tag[p] \in Containers, k = Null <=> tag[p] = "array",
         prepend_node(p, c), key' = [key EXCEPT ![c] = k], UNCHANGED tag
  PROVE Shape' /\ Acyclic(prev)'
<1> USE NodesAssumption DEF Live
<1>1. \A x \in Nodes : /\ parent'[x] = IF x = c THEN p ELSE parent[x]
                       /\ next'[x] = IF x = c THEN head[p] ELSE next[x]
                       /\ prev'[x] = IF x = c THEN Null ELSE IF x = head[p] THEN c ELSE prev[x]
                       /\ tail'[x] = IF x = p /\ head[p] = Null THEN c ELSE tail[x]
                       /\ head'[x] = IF x = p THEN c ELSE head[x]
                       /\ key'[x] = IF x = c THEN k ELSE key[x]
                       /\ tag'[x] = tag[x]
  <2>1. head[p] # c
    BY DEF Shape, EndsInv
  <2> QED
    BY <2>1 DEF prepend_node, TypeOK
<1>2. \A x \in Nodes : prev[x] # c /\ next[x] # c /\ head[x] # c /\ tail[x] # c
  BY DEF Shape, EndsInv, ListInv, RootInv
<1>3. FreeInv'
  BY <1>1 DEF Shape, FreeInv
<1>4. EndsInv'
  <2> SUFFICES ASSUME NEW q \in Nodes
               PROVE /\ tag'[q] \notin Containers => head'[q] = Null
                     /\ head'[q] = Null <=> tail'[q] = Null
                     /\ head'[q] # Null => parent'[head'[q]] = q /\ prev'[head'[q]] = Null
                     /\ tail'[q] # Null => parent'[tail'[q]] = q /\ next'[tail'[q]] = Null
    BY DEF EndsInv
  <2>1. head[q] \in NodeOrNull /\ tail[q] \in NodeOrNull
    BY DEF TypeOK
  <2> QED
    BY <1>1, <1>2, <2>1 DEF Shape, EndsInv, NodeOrNull
<1>5. RootInv'
  BY <1>1, <1>2 DEF Shape, RootInv, EndsInv, TypeOK, NodeOrNull
<1>6. ListInv'
  <2> SUFFICES ASSUME NEW x \in Nodes, parent'[x] # Null
               PROVE /\ prev'[x] = Null => head'[parent'[x]] = x
                     /\ prev'[x] # Null => parent'[prev'[x]] = parent'[x] /\ next'[prev'[x]] = x
                     /\ next'[x] = Null => tail'[parent'[x]] = x
                     /\ next'[x] # Null => parent'[next'[x]] = parent'[x] /\ prev'[next'[x]] = x
                     /\ key'[x] = Null <=> tag'[parent'[x]] = "array"
    BY DEF ListInv
  <2>1. /\ prev[x] \in NodeOrNull /\ next[x] \in NodeOrNull /\ parent[x] \in NodeOrNull
        /\ head[p] \in NodeOrNull
    BY DEF TypeOK
  <2>2. CASE x = c
    BY <1>1, <1>2, <2>1, <2>2 DEF Shape, EndsInv, NodeOrNull
  <2>3. CASE x # c
    BY <1>1, <1>2, <2>1, <2>3 DEF Shape, EndsInv, ListInv, NodeOrNull
  <2> QED
    BY <2>2, <2>3
<1>7. Acyclic(prev)'
  <2> SUFFICES ASSUME NEW S \in SUBSET Nodes, S # {}
               PROVE \E x \in S : prev'[x] \notin S
    BY DEF Acyclic
  <2>1. CASE c \in S
    BY <1>1, <2>1
  <2>2. CASE c \notin S
    <3>1. PICK x \in S : prev[x] \notin S
      BY DEF Acyclic
    <3> QED
      BY <1>1, <2>2, <3>1
  <2> QED
    BY <2>1, <2>2
<1> QED
  BY <1>3, <1>4, <1>5, <1>6, <1>7 DEF Shape

\* unlink closes the gap that the node leaves, wherever in the list it was.
LEMMA UnlinkShape ==
  ASSUME TypeOK, Shape, Acyclic(prev), NEW n \in Nodes, parent[n] # Null, unlink(n), UNCHANGED tag
  PROVE Shape' /\ Acyclic(prev)'
<1> USE NodesAssumption
<1>1. PICK p : p = parent[n]
  OBVIOUS
<1>2. PICK a : a = prev[n]
  OBVIOUS
<1>3. PICK b : b = next[n]
  OBVIOUS
<1>4. p \in Nodes /\ a \in NodeOrNull /\ b \in NodeOrNull
  BY <1>1, <1>2, <1>3 DEF TypeOK, NodeOrNull
<1>5. a # n /\ b # n
  <2>1. {n} \in SUBSET Nodes /\ {n} # {}
    OBVIOUS
  <2>2. a # n
    BY <1>2, <2>1 DEF Acyclic
  <2> QED
    BY <1>2, <1>3, <2>2 DEF Shape, ListInv
<1>6. \A x \in Nodes : /\ parent'[x] = IF x = n THEN Null ELSE parent[x]
                       /\ prev'[x] = IF x = n THEN Null ELSE IF x = b THEN a ELSE prev[x]
                       /\ next'[x] = IF x = n THEN Null ELSE IF x = a THEN b ELSE next[x]
                       /\ head'[x] = IF x = p /\ a = Null THEN b ELSE head[x]
                       /\ tail'[x] = IF x = p /\ b = Null THEN a ELSE tail[x]
                       /\ key'[x] = IF x = n THEN Null ELSE key[x]
                       /\ tag'[x] = tag[x]
  BY <1>1, <1>2, <1>3, <1>4, <1>5 DEF unlink, TypeOK, NodeOrNull
<1>7. /\ a = Null => head[p] = n
      /\ a # Null => parent[a] = p /\ next[a] = n
      /\ b = Null => tail[p] = n
      /\ b # Null => parent[b] = p /\ prev[b] = n
  BY <1>1, <1>2, <1>3 DEF Shape, ListInv
<1>8. \A x \in Nodes : /\ prev[x] = n => x = b
                       /\ next[x] = n => x = a
                       /\ head[x] = n => x = p /\ a = Null
                       /\ tail[x] = n => x = p /\ b = Null
  BY <1>1, <1>2, <1>3 DEF Shape, EndsInv, ListInv, RootInv
<1>9. FreeInv'
  <2>1. tag[p] # "free"
    BY <1>1, FirstChild DEF Shape, FreeInv
  <2> QED
    BY <1>6, <2>1 DEF Shape, FreeInv
<1>10. EndsInv'
  <2> SUFFICES ASSUME NEW q \in Nodes
               PROVE /\ tag'[q] \notin Containers => head'[q] = Null
                     /\ head'[q] = Null <=> tail'[q] = Null
                     /\ head'[q] # Null => parent'[head'[q]] = q /\ prev'[head'[q]] = Null
                     /\ tail'[q] # Null => parent'[tail'[q]] = q /\ next'[tail'[q]] = Null
    BY DEF EndsInv
  <2>1. head[q] \in NodeOrNull /\ tail[q] \in NodeOrNull
    BY DEF TypeOK
  <2>2. CASE q = p
    BY <1>1, <1>4, <1>5, <1>6, <1>7, <1>8, <2>1, <2>2 DEF Shape, EndsInv, NodeOrNull
  <2>3. CASE q # p
    BY <1>1, <1>4, <1>5, <1>6, <1>7, <1>8, <2>1, <2>3 DEF Shape, EndsInv, NodeOrNull
  <2> QED
    BY <2>2, <2>3
<1>11. RootInv'
  BY <1>1, <1>4, <1>6, <1>7 DEF Shape, RootInv, TypeOK, NodeOrNull
<1>12. ListInv'
  <2> SUFFICES ASSUME NEW x \in Nodes, parent'[x] # Null
               PROVE /\ prev'[x] = Null => head'[parent'[x]] = x
                     /\ prev'[x] # Null => parent'[prev'[x]] = parent'[x] /\ next'[prev'[x]] = x
                     /\ next'[x] = Null => tail'[parent'[x]] = x
                     /\ next'[x] # Null => parent'[next'[x]] = parent'[x] /\ prev'[next'[x]] = x
                     /\ key'[x] = Null <=> tag'[parent'[x]] = "array"
    BY DEF ListInv
  <2>1. /\ prev[x] \in NodeOrNull /\ next[x] \in NodeOrNull /\ parent[x] \in NodeOrNull
    BY DEF TypeOK
  <2>2. x # n /\ parent'[x] = parent[x] /\ parent[x] \in Nodes
    BY <1>6, <2>1 DEF NodeOrNull
  <2>3. prev'[x] = Null => head'[parent'[x]] = x
    BY <1>4, <1>6, <1>7, <1>8, <2>1, <2>2 DEF Shape, ListInv, NodeOrNull
  <2>4. prev'[x] # Null => parent'[prev'[x]] = parent'[x] /\ next'[prev'[x]] = x
    BY <1>4, <1>5, <1>6, <1>7, <1>8, <2>1, <2>2 DEF Shape, ListInv, NodeOrNull
  <2>5. next'[x] = Null => tail'[parent'[x]] = x
    BY <1>4, <1>6, <1>7, <1>8, <2>1, <2>2 DEF Shape, ListInv, NodeOrNull
  <2>6. next'[x] # Null => parent'[next'[x]] = parent'[x] /\ prev'[next'[x]] = x
    BY <1>4, <1>5, <1>6, <1>7, <1>8, <2>1, <2>2 DEF Shape, ListInv, NodeOrNull
  <2>7. key'[x] = Null <=> tag'[parent'[x]] = "array"
    BY <1>6, <2>2 DEF Shape, ListInv
  <2> QED
    BY <2>3, <2>4, <2>5, <2>6, <2>7
<1>13. Acyclic(prev)'
  <2> SUFFICES ASSUME NEW S \in SUBSET Nodes, S # {}
               PROVE \E x \in S : prev'[x] \notin S
    BY DEF Acyclic
  <2>1. CASE n \in S
    BY <1>6, <2>1
  <2>2. CASE n \notin S
    <3>1. S \cup {n} \in SUBSET Nodes
      OBVIOUS
    <3>2. PICK x \in S : prev[x] \notin S
      BY DEF Acyclic
    <3>3. PICK y \in S \cup {n} : prev[y] \notin S \cup {n}
      BY <3>1 DEF Acyclic
    <3>4. CASE x # b
      BY <1>6, <2>2, <3>2, <3>4
    <3>5. CASE x = b /\ y = n
      BY <1>2, <1>6, <2>2, <3>2, <3>3, <3>5
    <3>6. CASE x = b /\ y # n
      <4>1. y # b /\ y \in S
        BY <1>4, <1>7, <3>3, <3>6
      <4> QED
        BY <1>6, <2>2, <3>3, <4>1
    <3> QED
      BY <3>4, <3>5, <3>6
  <2> QED
    BY <2>1, <2>2
<1> QED
  BY <1>9, <1>10, <1>11, <1>12, <1>13 DEF Shape

(***************************************************************************)
(* Walks that end.                                                         *)
(***************************************************************************)

\* A walk stays among the nodes.
LEMMA NthType ==
  ASSUME NEW first \in NodeOrNull, NEW link \in [Nodes -> NodeOrNull], NEW k \in Nat
  PROVE Nth(first, link, k) \in NodeOrNull
<1> DEFINE Bad == {m \in Nat : Nth(first, link, m) \notin NodeOrNull}
<1> SUFFICES ASSUME Bad # {}
             PROVE FALSE
  OBVIOUS
<1>1. PICK m \in Bad : \A j \in Bad : m <= j
  BY LeastNumber
<1>2. m # 0
  BY NthStep
<1>3. PICK r \in Nat : m = r + 1 /\ r \notin Bad
  <2>1. m - 1 \in Nat /\ m = (m - 1) + 1 /\ m - 1 \notin Bad
    BY <1>1, <1>2
  <2> QED
    BY <2>1
<1>4. Nth(first, link, m) =
        IF Nth(first, link, r) = Null THEN Null ELSE link[Nth(first, link, r)]
  <2>1. Nth(first, link, r + 1) =
          IF Nth(first, link, r) = Null THEN Null ELSE link[Nth(first, link, r)]
    BY NthStep, ZenonT(40)
  <2> QED
    BY <1>3, <2>1
<1> QED
  BY <1>3, <1>4 DEF NodeOrNull

\* A walk without circles comes to Null: before it has seen more nodes than
\* there are.
LEMMA WalkEnds ==
  ASSUME NEW first \in NodeOrNull, NEW link \in [Nodes -> NodeOrNull], Acyclic(link)
  PROVE \E k \in 0..Cardinality(Nodes) : Nth(first, link, k) = Null
<1>1. PICK N : N = Cardinality(Nodes)
  OBVIOUS
<1>2. N \in Nat
  BY <1>1, NodesAssumption, FS_CardinalityType
<1> SUFFICES ASSUME \A k \in 0..N : Nth(first, link, k) # Null
             PROVE FALSE
  BY <1>1
<1> DEFINE f == [k \in 0..N |-> Nth(first, link, k)]
<1>3. f \in [0..N -> Nodes]
  BY <1>2, NthType DEF NodeOrNull
<1>4. \A k \in 0..N : k + 1 \in 0..N => f[k + 1] = link[f[k]]
  BY <1>2, NthStep
<1> HIDE DEF f
<1>5. IsFiniteSet(0..N) /\ Cardinality(0..N) = N + 1
  BY <1>2, FS_Interval
<1>6. PICK i, j \in 0..N : i < j /\ f[i] = f[j]
  <2>1. PICK i, j \in 0..N : i # j /\ f[i] = f[j]
    BY <1>1, <1>2, <1>3, <1>5, NodesAssumption, FS_PigeonHole
  <2>2. CASE i < j
    BY <2>1, <2>2
  <2>3. CASE ~(i < j)
    <3>1. j < i
      BY <1>2, <2>1, <2>3
    <3> QED
      BY <2>1, <3>1
  <2> QED
    BY <2>2, <2>3
<1> DEFINE S == {f[k] : k \in i..(j - 1)}
<1>7. S \in SUBSET Nodes /\ S # {}
  <2>1. i \in i..(j - 1) /\ i..(j - 1) \subseteq 0..N
    BY <1>2, <1>6
  <2> QED
    BY <1>3, <2>1
<1>8. PICK x \in S : link[x] \notin S
  BY <1>7, Zenon DEF Acyclic
<1>9. PICK k \in i..(j - 1) : x = f[k]
  BY <1>8
<1>10. k \in 0..N /\ k + 1 \in 0..N
  BY <1>2, <1>6, <1>9
<1>11. link[x] = f[k + 1]
  BY <1>4, <1>9, <1>10
<1>12. CASE k + 1 = j
  <2>1. i \in i..(j - 1)
    BY <1>6
  <2> QED
    BY <1>6, <1>8, <1>11, <1>12, <2>1
<1>13. CASE k + 1 # j
  <2>1. k + 1 \in i..(j - 1)
    BY <1>6, <1>9, <1>13
  <2> QED
    BY <1>8, <1>11, <2>1
<1> QED
  BY <1>12, <1>13

\* The least step at which a walk is at Null; before it is at nodes.
LEMMA WalkStops ==
  ASSUME NEW first \in NodeOrNull, NEW link \in [Nodes -> NodeOrNull], Acyclic(link)
  PROVE \E l \in 0..Cardinality(Nodes) :
          /\ \A k \in 0..(l - 1) : Nth(first, link, k) \in Nodes
          /\ \A k \in Nat : l <= k => Nth(first, link, k) = Null
<1>1. PICK N : N = Cardinality(Nodes)
  OBVIOUS
<1>2. N \in Nat
  BY <1>1, NodesAssumption, FS_CardinalityType
<1> DEFINE Ends == {k \in 0..N : Nth(first, link, k) = Null}
<1>3. Ends # {} /\ Ends \in SUBSET Nat
  BY <1>1, WalkEnds
<1>4. PICK l \in Ends : \A j \in Ends : l <= j
  BY <1>3, LeastNumber, Zenon
<1>5. l \in 0..N /\ Nth(first, link, l) = Null
  BY <1>4
<1>6. ASSUME NEW k \in 0..(l - 1)
      PROVE Nth(first, link, k) \in Nodes
  <2>1. k \in Nat /\ k \in 0..N /\ ~(l <= k)
    BY <1>2, <1>5
  <2>2. Nth(first, link, k) # Null
    BY <1>4, <2>1
  <2> QED
    BY <2>1, <2>2, NthType DEF NodeOrNull
<1> DEFINE Bad == {k \in Nat : l <= k /\ Nth(first, link, k) # Null}
<1>7. Bad = {}
  <2> SUFFICES ASSUME Bad # {}
               PROVE FALSE
    OBVIOUS
  <2>1. PICK m \in Bad : \A j \in Bad : m <= j
    BY LeastNumber
  <2>2. m # l /\ l <= m /\ m \in Nat
    BY <1>5, <2>1
  <2>3. PICK r \in Nat : m = r + 1 /\ l <= r /\ r \notin Bad
    <3>1. m - 1 \in Nat /\ m = (m - 1) + 1 /\ l <= m - 1 /\ m - 1 \notin Bad
      BY <1>5, <2>1, <2>2
    <3> QED
      BY <3>1
  <2>4. Nth(first, link, r) = Null
    BY <2>3
  <2> QED
    BY <2>1, <2>3, <2>4, NthStep
<1> QED
  BY <1>1, <1>5, <1>6, <1>7

(***************************************************************************)
(* Parents.                                                                *)
(***************************************************************************)

\* A node that is not below c stays above no circle when c is put below it.
LEMMA InsertParents ==
  ASSUME TypeOK, Acyclic(parent), NEW p \in Nodes, NEW c \in Nodes, ~Below(p, c),
         parent' = [parent EXCEPT ![c] = p]
  PROVE p # c /\ Acyclic(parent)'
<1> USE NodesAssumption
<1>1. PICK N : N = Cardinality(Nodes)
  OBVIOUS
<1>2. N \in Nat
  BY <1>1, FS_CardinalityType
<1>3. \A k \in 0..N : Nth(p, parent, k) # c
  BY <1>1, AncestorIsNth DEF Below
<1>4. Nth(p, parent, 0) = p
  BY NthStep
<1>5. p # c
  BY <1>2, <1>3, <1>4
<1>6. PICK l \in 0..N : /\ \A k \in 0..(l - 1) : Nth(p, parent, k) \in Nodes
                        /\ \A k \in Nat : l <= k => Nth(p, parent, k) = Null
  <2>1. p \in NodeOrNull /\ parent \in [Nodes -> NodeOrNull]
    BY DEF TypeOK, NodeOrNull
  <2> QED
    BY <1>1, <2>1, WalkStops
<1>7. Acyclic(parent)'
  <2> SUFFICES ASSUME NEW S \in SUBSET Nodes, S # {}, \A x \in S : parent'[x] \in S
               PROVE FALSE
    BY DEF Acyclic
  <2>1. \A x \in Nodes : parent'[x] = IF x = c THEN p ELSE parent[x]
    BY DEF TypeOK
  <2>2. p \in S
    <3>1. PICK x \in S : parent[x] \notin S
      BY DEF Acyclic
    <3> QED
      BY <2>1, <3>1
  <2> DEFINE Bad == {k \in 0..l : Nth(p, parent, k) \notin S}
  <2>3. l \in Bad /\ Bad \in SUBSET Nat
    BY <1>6
  <2>4. PICK m \in Bad : \A j \in Bad : m <= j
    BY <2>3, LeastNumber, Zenon
  <2>5. m # 0
    BY <1>4, <2>2, <2>4
  <2>6. PICK r \in 0..(l - 1) : m = r + 1 /\ r \notin Bad
    <3>1. m - 1 \in 0..(l - 1) /\ m = (m - 1) + 1 /\ m - 1 \notin Bad
      BY <2>4, <2>5
    <3> QED
      BY <3>1
  <2>7. r \in 0..l /\ r \in 0..N /\ r \in Nat
    BY <1>2, <2>6
  <2>8. Nth(p, parent, r) \in S /\ Nth(p, parent, r) # c
    BY <1>3, <2>6, <2>7
  <2>9. Nth(p, parent, r + 1) = parent[Nth(p, parent, r)]
    BY <2>7, <2>8, NthStep
  <2>10. Nth(p, parent, r + 1) \in S
    BY <2>1, <2>8, <2>9
  <2> QED
    BY <2>4, <2>6, <2>10
<1> QED
  BY <1>5, <1>7

\* Cutting a node off makes no circle.
LEMMA UnlinkParents ==
  ASSUME TypeOK, Acyclic(parent), NEW n \in Nodes, parent' = [parent EXCEPT ![n] = Null]
  PROVE Acyclic(parent)'
<1> SUFFICES ASSUME NEW S \in SUBSET Nodes, S # {}
             PROVE \E x \in S : parent'[x] \notin S
  BY DEF Acyclic
<1>1. PICK x \in S : parent[x] \notin S
  BY DEF Acyclic
<1>2. \A y \in Nodes : parent'[y] = IF y = n THEN Null ELSE parent[y]
  BY DEF TypeOK
<1> QED
  BY <1>1, <1>2, NodesAssumption

(***************************************************************************)
(* The steps.                                                              *)
(***************************************************************************)

\* What a step does to a tree, apart from mknode and delete_free: put a child
\* in at either end, or cut a node off.
LEMMA InsertTree ==
  ASSUME IInv, NEW p \in Nodes, NEW c \in Nodes, NEW k \in Keys \cup {Null},
         Insertable(p, c), tag[p] \in Containers, k = Null <=> tag[p] = "array",
         append_node(p, c) \/ prepend_node(p, c), key' = [key EXCEPT ![c] = k], UNCHANGED tag
  PROVE Shape' /\ Acyclic(prev)' /\ Acyclic(parent)'
<1>1. p \in Live /\ c \in Live /\ parent[c] = Null /\ ~Below(p, c)
  BY DEF Insertable
<1>2. parent' = [parent EXCEPT ![c] = p]
  BY DEF append_node, prepend_node
<1>3. p # c /\ Acyclic(parent)'
  BY <1>1, <1>2, InsertParents DEF IInv
<1>4. CASE append_node(p, c)
  BY <1>1, <1>3, <1>4, AppendShape DEF IInv
<1>5. CASE prepend_node(p, c)
  BY <1>1, <1>3, <1>5, PrependShape DEF IInv
<1> QED
  BY <1>3, <1>4, <1>5

LEMMA UnlinkTree ==
  ASSUME IInv, NEW n \in Nodes, unlink(n), UNCHANGED tag
  PROVE Shape' /\ Acyclic(prev)' /\ Acyclic(parent)'
<1>1. CASE parent[n] = Null
  BY <1>1 DEF unlink, links, IInv, Shape, FreeInv, EndsInv, RootInv, ListInv, Acyclic
<1>2. CASE parent[n] # Null
  <2>1. parent' = [parent EXCEPT ![n] = Null]
    BY <1>2 DEF unlink
  <2> QED
    BY <1>2, <2>1, UnlinkShape, UnlinkParents DEF IInv
<1> QED
  BY <1>1, <1>2

\* What the callers of unlink see of it.
LEMMA UnlinkEffect ==
  ASSUME TypeOK, NEW n \in Nodes, unlink(n)
  PROVE /\ \A x \in Nodes : parent'[x] = IF x = n THEN Null ELSE parent[x]
        /\ \A x \in Nodes : x # parent[n] => head'[x] = head[x]
        /\ parent[n] # Null /\ prev[n] = Null => head'[parent[n]] = next[n]
<1>1. CASE parent[n] = Null
  BY <1>1 DEF unlink, links
<1>2. CASE parent[n] # Null
  <2>1. parent[n] \in Nodes
    BY <1>2 DEF TypeOK, NodeOrNull
  <2> QED
    BY <1>2, <2>1 DEF unlink, TypeOK
<1> QED
  BY <1>1, <1>2

LEMMA UnlinkType ==
  ASSUME TypeOK, NEW n \in Nodes, unlink(n)
  PROVE /\ parent' \in [Nodes -> NodeOrNull] /\ prev' \in [Nodes -> NodeOrNull]
        /\ next' \in [Nodes -> NodeOrNull] /\ head' \in [Nodes -> NodeOrNull]
        /\ tail' \in [Nodes -> NodeOrNull] /\ key' \in [Nodes -> Keys \cup {Null}]
<1>1. CASE parent[n] = Null
  BY <1>1 DEF unlink, links, TypeOK
<1>2. CASE parent[n] # Null
  <2>1. prev[n] \in NodeOrNull /\ next[n] \in NodeOrNull /\ Null \in NodeOrNull
    BY DEF TypeOK, NodeOrNull
  <2>2. parent' \in [Nodes -> NodeOrNull] /\ key' \in [Nodes -> Keys \cup {Null}]
    BY <1>2, <2>1 DEF unlink, TypeOK
  <2>3. prev' \in [Nodes -> NodeOrNull]
    BY <1>2, <2>1 DEF unlink, TypeOK
  <2>4. next' \in [Nodes -> NodeOrNull]
    BY <1>2, <2>1 DEF unlink, TypeOK
  <2>5. head' \in [Nodes -> NodeOrNull] /\ tail' \in [Nodes -> NodeOrNull]
    BY <1>2, <2>1 DEF unlink, TypeOK
  <2> QED
    BY <2>2, <2>3, <2>4, <2>5
<1> QED
  BY <1>1, <1>2

LEMMA InsertType ==
  ASSUME TypeOK, NEW p \in Nodes, NEW c \in Nodes, append_node(p, c) \/ prepend_node(p, c)
  PROVE /\ parent' \in [Nodes -> NodeOrNull] /\ prev' \in [Nodes -> NodeOrNull]
        /\ next' \in [Nodes -> NodeOrNull] /\ head' \in [Nodes -> NodeOrNull]
        /\ tail' \in [Nodes -> NodeOrNull]
<1>1. head[p] \in NodeOrNull /\ tail[p] \in NodeOrNull /\ Null \in NodeOrNull
      /\ p \in NodeOrNull /\ c \in NodeOrNull
  BY DEF TypeOK, NodeOrNull
<1>2. CASE append_node(p, c)
  BY <1>1, <1>2 DEF append_node, TypeOK
<1>3. CASE prepend_node(p, c)
  BY <1>1, <1>3 DEF prepend_node, TypeOK
<1> QED
  BY <1>2, <1>3

\* The activation that runs.
LEMMA TopType ==
  ASSUME TypeOK, stack # <<>>
  PROVE Len(stack) \in DOMAIN stack /\ Top \in [node : Nodes, child : NodeOrNull]
<1>1. PICK T : T = [node : Nodes, child : NodeOrNull]
  OBVIOUS
<1>2. stack \in Seq(T)
  BY <1>1 DEF TypeOK
<1>3. Len(stack) \in 1..Len(stack) /\ DOMAIN stack = 1..Len(stack)
  BY <1>2
<1>4. Top \in T
  BY <1>2, <1>3 DEF Top
<1> QED
  BY <1>1, <1>3, <1>4

\* An insertion has its effect on the type, the roots and the stack.
LEMMA InsertStep ==
  ASSUME IInv, NEW p \in Nodes, NEW c \in Nodes, NEW k \in Keys \cup {Null},
         Insertable(p, c), tag[p] \in Containers, k = Null <=> tag[p] = "array",
         append_node(p, c) \/ prepend_node(p, c), key' = [key EXCEPT ![c] = k],
         handles' = handles \ {c}, UNCHANGED <<tag, stack>>
  PROVE IInv'
<1>1. Shape' /\ Acyclic(prev)' /\ Acyclic(parent)'
  BY InsertTree
<1>2. TypeOK'
  BY InsertType DEF IInv, TypeOK
<1>3. stack = <<>> /\ stack' = <<>>
  BY DEF Insertable, Idle
<1>4. StackInv'
  BY <1>3 DEF StackInv
<1>5. \A x \in Nodes : parent'[x] = IF x = c THEN p ELSE parent[x]
  BY DEF append_node, prepend_node, IInv, TypeOK
<1>6. RootsInv'
  BY <1>3, <1>5, NodesAssumption DEF IInv, RootsInv, Live
<1> QED
  BY <1>1, <1>2, <1>4, <1>6 DEF IInv

LEMMA InitInvariant == Init => IInv
<1> SUFFICES ASSUME Init
             PROVE IInv
  OBVIOUS
<1> USE NodesAssumption DEF Init
<1>1. TypeOK
  BY DEF TypeOK, NodeOrNull, Tags
<1>2. Shape
  BY DEF Shape, FreeInv, EndsInv, RootInv, ListInv
<1>3. Acyclic(prev) /\ Acyclic(parent)
  BY DEF Acyclic
<1>4. StackInv /\ RootsInv
  BY DEF StackInv, RootsInv, Live
<1> QED
  BY <1>1, <1>2, <1>3, <1>4 DEF IInv

LEMMA MknodeStep ==
  ASSUME IInv, NEW n \in Nodes, NEW t \in Tags, mknode(n, t)
  PROVE IInv'
<1> USE NodesAssumption
<1>1. TypeOK'
  BY DEF mknode, links, IInv, TypeOK, Tags
<1>2. \A x \in Nodes : tag'[x] = IF x = n THEN t ELSE tag[x]
  BY DEF mknode, IInv, TypeOK
<1>3. \A c \in Nodes : parent[c] # n
  BY FirstChild DEF IInv, Shape, FreeInv, mknode
<1>4. t # "free"
  BY DEF Tags, Containers
<1>5. Shape'
  <2>1. FreeInv'
    BY <1>2, <1>4 DEF mknode, links, IInv, Shape, FreeInv
  <2>2. EndsInv'
    BY <1>2 DEF mknode, links, IInv, Shape, FreeInv, EndsInv
  <2>3. RootInv'
    BY DEF mknode, links, IInv, Shape, RootInv
  <2>4. ListInv'
    BY <1>2, <1>3 DEF mknode, links, IInv, Shape, ListInv, TypeOK, NodeOrNull
  <2> QED
    BY <2>1, <2>2, <2>3, <2>4 DEF Shape
<1>6. Acyclic(prev)' /\ Acyclic(parent)'
  BY DEF mknode, links, IInv, Acyclic
<1>7. stack = <<>> /\ stack' = <<>>
  BY DEF mknode, Idle
<1>8. StackInv'
  BY <1>7 DEF StackInv
<1>9. RootsInv'
  BY <1>2, <1>4, <1>7 DEF mknode, links, IInv, Shape, FreeInv, RootsInv, Live
<1> QED
  BY <1>1, <1>5, <1>6, <1>8, <1>9 DEF IInv

LEMMA RemoveStep ==
  ASSUME IInv, NEW n \in Nodes, json_remove_from_parent(n)
  PROVE IInv'
<1>1. unlink(n) /\ UNCHANGED <<tag, stack>> /\ stack = <<>> /\ n \in Live
  BY DEF json_remove_from_parent, Idle
<1>2. Shape' /\ Acyclic(prev)' /\ Acyclic(parent)'
  BY <1>1, UnlinkTree
<1>3. TypeOK'
  BY <1>1, UnlinkType DEF json_remove_from_parent, IInv, TypeOK
<1>4. StackInv'
  BY <1>1 DEF StackInv
<1>5. \A x \in Nodes : parent'[x] = IF x = n THEN Null ELSE parent[x]
  BY <1>1, UnlinkEffect DEF IInv
<1>6. RootsInv'
  BY <1>1, <1>5 DEF json_remove_from_parent, IInv, RootsInv, Live
<1> QED
  BY <1>2, <1>3, <1>4, <1>6 DEF IInv

LEMMA DeleteStep ==
  ASSUME IInv, NEW n \in Nodes, json_delete(n)
  PROVE IInv'
<1> USE NodesAssumption
<1>1. unlink(n) /\ UNCHANGED tag /\ stack = <<>> /\ n \in Live
  BY DEF json_delete, Idle
<1>2. PICK top : top = Activation(n)
  OBVIOUS
<1>3. stack' = <<top>> /\ handles' = handles \ {n}
  BY <1>2 DEF json_delete
<1>4. top \in [node : Nodes, child : NodeOrNull] /\ top.node = n /\ top.child = head[n]
  <2>1. head[n] \in NodeOrNull /\ (tag[n] \notin Containers => head[n] = Null)
    BY DEF IInv, TypeOK, Shape, EndsInv
  <2> QED
    BY <1>2, <2>1 DEF Activation
<1>5. Shape' /\ Acyclic(prev)' /\ Acyclic(parent)'
  BY <1>1, UnlinkTree
<1>6. TypeOK'
  <2>1. stack' \in Seq([node : Nodes, child : NodeOrNull])
    BY <1>3, <1>4
  <2>2. /\ parent' \in [Nodes -> NodeOrNull] /\ prev' \in [Nodes -> NodeOrNull]
        /\ next' \in [Nodes -> NodeOrNull] /\ head' \in [Nodes -> NodeOrNull]
        /\ tail' \in [Nodes -> NodeOrNull] /\ key' \in [Nodes -> Keys \cup {Null}]
    BY <1>1, UnlinkType DEF IInv
  <2>3. tag' \in [Nodes -> Tags \cup {"free"}] /\ handles' \subseteq Nodes
    BY <1>1, <1>3 DEF IInv, TypeOK
  <2> QED
    BY <2>1, <2>2, <2>3 DEF TypeOK
<1>7. \A x \in Nodes : parent'[x] = IF x = n THEN Null ELSE parent[x]
  BY <1>1, UnlinkEffect DEF IInv
<1>8. head'[n] = head[n]
  <2>1. {n} \in SUBSET Nodes /\ {n} # {}
    OBVIOUS
  <2>2. parent[n] # n
    BY <2>1 DEF IInv, Acyclic
  <2> QED
    BY <1>1, <2>2, UnlinkEffect DEF IInv
<1>9. DOMAIN stack' = {1} /\ stack'[1] = top
  BY <1>3
<1>10. StackInv'
  BY <1>1, <1>3, <1>4, <1>7, <1>8, <1>9 DEF StackInv, Live
<1>11. RootsInv'
  BY <1>1, <1>3, <1>4, <1>7, <1>9 DEF IInv, RootsInv, Live
<1> QED
  BY <1>5, <1>6, <1>10, <1>11 DEF IInv

LEMMA DeleteChildStep ==
  ASSUME IInv, delete_child
  PROVE IInv'
<1> USE NodesAssumption
<1> DEFINE A == [node : Nodes, child : NodeOrNull]
<1>1. PICK l : l = Len(stack)
  OBVIOUS
<1>2. stack \in Seq(A) /\ l \in Nat /\ l \in DOMAIN stack /\ DOMAIN stack = 1..l /\ stack[l] \in A
  <2>1. stack \in Seq(A) /\ stack # <<>>
    BY DEF IInv, TypeOK, delete_child
  <2>2. l \in DOMAIN stack /\ stack[l] \in A
    BY <1>1, <2>1, TopType DEF IInv, Top
  <2> QED
    BY <1>1, <2>1, <2>2
<1>3. PICK c : c = stack[l].child
  OBVIOUS
<1>4. PICK p : p = stack[l].node
  OBVIOUS
<1>5. c \in Nodes /\ p \in Nodes /\ unlink(c) /\ UNCHANGED <<tag, handles>>
  BY <1>1, <1>2, <1>3, <1>4 DEF delete_child, Top, NodeOrNull
<1>6. c = head[p] /\ parent[c] = p /\ prev[c] = Null /\ parent[p] = Null /\ p # c
  BY <1>2, <1>3, <1>4, <1>5 DEF IInv, StackInv, Shape, EndsInv
<1>7. PICK top : top = Activation(c)
  OBVIOUS
<1>8. PICK s : s = [stack EXCEPT ![l].child = next[c]]
  OBVIOUS
<1>9. stack' = Append(s, top)
  BY <1>1, <1>3, <1>7, <1>8 DEF delete_child, Top
<1>10. top \in A /\ top.node = c /\ top.child = head[c]
  <2>1. head[c] \in NodeOrNull /\ (tag[c] \notin Containers => head[c] = Null)
    BY <1>5 DEF IInv, TypeOK, Shape, EndsInv
  <2> QED
    BY <1>5, <1>7, <2>1 DEF Activation
<1>11. s \in Seq(A) /\ Len(s) = l /\ DOMAIN s = 1..l
       /\ \A i \in 1..l : /\ s[i].node = stack[i].node
                          /\ s[i].child = IF i = l THEN next[c] ELSE stack[i].child
  <2>1. next[c] \in NodeOrNull
    BY <1>5 DEF IInv, TypeOK
  <2>2. DOMAIN s = 1..l /\ \A i \in 1..l : s[i] = IF i = l THEN [stack[i] EXCEPT !.child = next[c]] ELSE stack[i]
    BY <1>2, <1>8
  <2>3. \A i \in 1..l : stack[i] \in A
    <3> HIDE DEF A
    <3> QED
      BY <1>2
  <2>4. \A i \in 1..l : s[i] \in A
    BY <2>1, <2>2, <2>3
  <2>5. s \in Seq(A) /\ Len(s) = l
    <3>1. s = [i \in 1..l |-> s[i]]
      BY <1>2, <1>8
    <3> QED
      BY <1>2, <2>4, <3>1, SMTT(30)
  <2> QED
    BY <2>2, <2>3, <2>5
<1>12. /\ stack' \in Seq(A) /\ DOMAIN stack' = 1..(l + 1) /\ stack'[l + 1] = top
       /\ \A i \in 1..l : stack'[i] = s[i]
  BY <1>2, <1>9, <1>10, <1>11
<1>13. Shape' /\ Acyclic(prev)' /\ Acyclic(parent)'
  BY <1>5, UnlinkTree
<1>14. TypeOK'
  <2>1. /\ parent' \in [Nodes -> NodeOrNull] /\ prev' \in [Nodes -> NodeOrNull]
        /\ next' \in [Nodes -> NodeOrNull] /\ head' \in [Nodes -> NodeOrNull]
        /\ tail' \in [Nodes -> NodeOrNull] /\ key' \in [Nodes -> Keys \cup {Null}]
    BY <1>5, UnlinkType DEF IInv
  <2>2. tag' \in [Nodes -> Tags \cup {"free"}] /\ handles' \subseteq Nodes
    BY <1>5 DEF IInv, TypeOK
  <2> QED
    BY <1>12, <2>1, <2>2 DEF TypeOK
<1>15. /\ \A x \in Nodes : parent'[x] = IF x = c THEN Null ELSE parent[x]
       /\ \A x \in Nodes : x # p => head'[x] = head[x]
       /\ head'[p] = next[c]
  BY <1>5, <1>6, UnlinkEffect DEF IInv
<1>16. c \in Live \ handles
  BY <1>5, <1>6 DEF IInv, Shape, FreeInv, RootsInv, Live
<1>17. \A i \in 1..l : /\ stack[i].node \in Live \ handles
                       /\ stack[i].node \in Nodes
                       /\ parent[stack[i].node] = Null
                       /\ stack[i].child = head[stack[i].node]
                       /\ i # l => stack[i].node # p
                       /\ stack[i].node # c
  BY <1>2, <1>4, <1>5, <1>6 DEF IInv, StackInv, Live
<1>18. StackInv'
  <2>1. ASSUME NEW i \in 1..(l + 1)
        PROVE /\ stack'[i].node \in Live' \ handles'
              /\ parent'[stack'[i].node] = Null
              /\ stack'[i].child = head'[stack'[i].node]
    <3>1. CASE i = l + 1
      BY <1>5, <1>6, <1>10, <1>12, <1>15, <1>16, <3>1 DEF Live
    <3>2. CASE i # l + 1
      <4>1. i \in 1..l
        BY <1>2, <3>2
      <4>2. stack'[i].node = stack[i].node
            /\ stack'[i].child = IF i = l THEN next[c] ELSE stack[i].child
        BY <1>11, <1>12, <4>1
      <4>3. CASE i = l
        BY <1>4, <1>5, <1>15, <1>17, <4>1, <4>2, <4>3 DEF Live
      <4>4. CASE i # l
        BY <1>5, <1>15, <1>17, <4>1, <4>2, <4>4 DEF Live
      <4> QED
        BY <4>3, <4>4
    <3> QED
      BY <3>1, <3>2
  <2>2. ASSUME NEW i \in 1..(l + 1), NEW j \in 1..(l + 1), stack'[i].node = stack'[j].node
        PROVE i = j
    <3>1. \A x \in 1..l : stack'[x].node = stack[x].node /\ stack[x].node # c
      BY <1>11, <1>12, <1>17
    <3>2. stack'[l + 1].node = c
      BY <1>10, <1>12
    <3>3. \A x, y \in 1..l : stack[x].node = stack[y].node => x = y
      BY <1>2 DEF IInv, StackInv
    <3>4. \A x \in 1..(l + 1) : x \in 1..l \/ x = l + 1
      BY <1>2
    <3> QED
      BY <2>2, <3>1, <3>2, <3>3, <3>4
  <2> QED
    BY <1>12, <2>1, <2>2 DEF StackInv
<1>19. RootsInv'
  <2>1. handles' \subseteq {n \in Live' : parent'[n] = Null}
    BY <1>5, <1>15 DEF IInv, RootsInv, Live
  <2>2. ASSUME NEW n \in Live', parent'[n] = Null
        PROVE n \in handles' \/ \E i \in DOMAIN stack' : stack'[i].node = n
    <3>1. CASE n = c
      <4>1. l + 1 \in DOMAIN stack'
        BY <1>2, <1>12
      <4> QED
        BY <1>10, <1>12, <3>1, <4>1
    <3>2. CASE n # c
      <4>1. n \in handles \/ \E i \in DOMAIN stack : stack[i].node = n
        BY <1>5, <1>15, <2>2, <3>2 DEF IInv, RootsInv, Live
      <4>2. ASSUME NEW i \in DOMAIN stack, stack[i].node = n
            PROVE i \in DOMAIN stack' /\ stack'[i].node = n
        BY <1>2, <1>11, <1>12, <4>2
      <4> QED
        BY <1>5, <4>1, <4>2
    <3> QED
      BY <3>1, <3>2
  <2> QED
    BY <2>1, <2>2 DEF RootsInv
<1> QED
  BY <1>13, <1>14, <1>18, <1>19 DEF IInv

LEMMA DeleteFreeStep ==
  ASSUME IInv, delete_free
  PROVE IInv'
<1> USE NodesAssumption
<1> DEFINE A == [node : Nodes, child : NodeOrNull]
<1>1. PICK l : l = Len(stack)
  OBVIOUS
<1>2. stack \in Seq(A) /\ l \in Nat /\ l \in DOMAIN stack /\ DOMAIN stack = 1..l /\ stack[l] \in A
  <2>1. stack \in Seq(A) /\ stack # <<>>
    BY DEF IInv, TypeOK, delete_free
  <2>2. l \in DOMAIN stack /\ stack[l] \in A
    BY <1>1, <2>1, TopType DEF IInv, Top
  <2> QED
    BY <1>1, <2>1, <2>2
<1>3. PICK p : p = stack[l].node
  OBVIOUS
<1>4. p \in Nodes /\ UNCHANGED <<parent, prev, next, key, handles>>
      /\ stack[l].child = Null /\ stack' = SubSeq(stack, 1, l - 1)
  BY <1>1, <1>2, <1>3 DEF delete_free, Top
<1>5. \A x \in Nodes : /\ tag'[x] = IF x = p THEN "free" ELSE tag[x]
                       /\ head'[x] = IF x = p THEN Null ELSE head[x]
                       /\ tail'[x] = IF x = p THEN Null ELSE tail[x]
  BY <1>1, <1>3 DEF delete_free, Top, IInv, TypeOK
<1>6. stack' \in Seq(A) /\ DOMAIN stack' = 1..(l - 1) /\ \A i \in 1..(l - 1) : stack'[i] = stack[i]
  <2> HIDE DEF A
  <2> QED
    BY <1>2, <1>4
<1>7. head[p] = Null /\ tail[p] = Null /\ parent[p] = Null /\ p \notin handles
  BY <1>2, <1>3, <1>4 DEF IInv, StackInv, Shape, EndsInv
<1>8. \A c \in Nodes : parent[c] # p
  BY <1>4, <1>7, FirstChild DEF IInv
<1>9. TypeOK'
  <2>1. tag' \in [Nodes -> Tags \cup {"free"}]
    BY <1>1, <1>3 DEF delete_free, Top, IInv, TypeOK
  <2>2. head' \in [Nodes -> NodeOrNull] /\ tail' \in [Nodes -> NodeOrNull]
    BY <1>1, <1>3 DEF delete_free, Top, IInv, TypeOK, NodeOrNull
  <2> QED
    BY <1>4, <1>6, <2>1, <2>2 DEF IInv, TypeOK
<1>10. Shape'
  <2>1. FreeInv'
    BY <1>4, <1>5, <1>7 DEF IInv, Shape, FreeInv
  <2>2. EndsInv'
    BY <1>4, <1>5 DEF IInv, Shape, EndsInv
  <2>3. RootInv'
    BY <1>4 DEF IInv, Shape, RootInv
  <2>4. ListInv'
    BY <1>4, <1>5, <1>8 DEF IInv, Shape, ListInv, TypeOK, NodeOrNull
  <2> QED
    BY <2>1, <2>2, <2>3, <2>4 DEF Shape
<1>11. Acyclic(prev)' /\ Acyclic(parent)'
  BY <1>4 DEF IInv, Acyclic
<1>12. \A i \in 1..(l - 1) : i \in 1..l /\ stack[i].node # p /\ stack[i].node \in Nodes
  BY <1>2, <1>3 DEF IInv, StackInv, Live
<1>13. StackInv'
  BY <1>2, <1>4, <1>5, <1>6, <1>12, SMTT(30) DEF IInv, StackInv, Live
<1>14. RootsInv'
  <2>1. handles' \subseteq {n \in Live' : parent'[n] = Null}
    BY <1>4, <1>5, <1>7 DEF IInv, RootsInv, Live
  <2>2. ASSUME NEW n \in Live', parent'[n] = Null
        PROVE n \in handles' \/ \E i \in DOMAIN stack' : stack'[i].node = n
    <3>1. n # p /\ n \in Live /\ parent[n] = Null
      BY <1>4, <1>5, <2>2 DEF Live
    <3>2. ASSUME NEW i \in DOMAIN stack, stack[i].node = n
          PROVE i \in DOMAIN stack' /\ stack'[i].node = n
      BY <1>2, <1>3, <1>6, <3>1, <3>2
    <3> QED
      BY <1>4, <3>1, <3>2 DEF IInv, RootsInv
  <2> QED
    BY <2>1, <2>2 DEF RootsInv
<1> QED
  BY <1>9, <1>10, <1>11, <1>13, <1>14 DEF IInv

LEMMA NextInvariant == IInv /\ [Next]_vars => IInv'
<1> SUFFICES ASSUME IInv, [Next]_vars
             PROVE IInv'
  OBVIOUS
<1>1. ASSUME NEW n \in Nodes, NEW t \in Tags, mknode(n, t)
      PROVE IInv'
  BY <1>1, MknodeStep
<1>2. ASSUME NEW p \in Nodes, NEW c \in Nodes, json_append_element(p, c) \/ json_prepend_element(p, c)
      PROVE IInv'
  <2>1. /\ Insertable(p, c) /\ tag[p] = "array"
        /\ append_node(p, c) \/ prepend_node(p, c)
        /\ handles' = handles \ {c} /\ UNCHANGED <<tag, key, stack>>
    BY <1>2 DEF json_append_element, json_prepend_element
  <2>2. key' = [key EXCEPT ![c] = Null]
    <3>1. key[c] = Null
      BY <2>1 DEF Insertable, IInv, Shape, RootInv
    <3> QED
      BY <2>1, <3>1 DEF IInv, TypeOK
  <2> QED
    BY <2>1, <2>2, InsertStep DEF Containers
<1>3. ASSUME NEW p \in Nodes, NEW c \in Nodes, NEW k \in Keys,
             json_append_member(p, k, c) \/ json_prepend_member(p, k, c)
      PROVE IInv'
  <2>1. /\ Insertable(p, c) /\ tag[p] = "object"
        /\ append_node(p, c) \/ prepend_node(p, c)
        /\ key' = [key EXCEPT ![c] = k]
        /\ handles' = handles \ {c} /\ UNCHANGED <<tag, stack>>
    BY <1>3 DEF json_append_member, json_prepend_member
  <2>2. k # Null /\ k \in Keys \cup {Null}
    BY NodesAssumption
  <2> QED
    BY <2>1, <2>2, InsertStep DEF Containers
<1>4. ASSUME NEW n \in Nodes, json_remove_from_parent(n)
      PROVE IInv'
  BY <1>4, RemoveStep
<1>5. ASSUME NEW n \in Nodes, json_delete(n)
      PROVE IInv'
  BY <1>5, DeleteStep
<1>6. CASE delete_child
  BY <1>6, DeleteChildStep
<1>7. CASE delete_free
  BY <1>7, DeleteFreeStep
<1>8. CASE UNCHANGED vars
  BY <1>8 DEF vars, IInv, TypeOK, Shape, FreeInv, EndsInv, RootInv, ListInv, Acyclic, StackInv,
              RootsInv, Live
<1> QED
  BY <1>1, <1>2, <1>3, <1>4, <1>5, <1>6, <1>7, <1>8 DEF Next

LEMMA Invariant == Spec => []IInv
BY InitInvariant, NextInvariant, PTL DEF Spec

(***************************************************************************)
(* Consequences.                                                           *)
(***************************************************************************)

\* Tags, pointers and keys stay of their types.
THEOREM TypeCorrect == Spec => []TypeOK
BY Invariant, PTL DEF IInv

LEMMA NoDanglingPointerHolds == IInv => NoDanglingPointer
<1> SUFFICES ASSUME IInv
             PROVE NoDanglingPointer
  OBVIOUS
<1> USE NodesAssumption
<1>1. \A c \in Nodes : parent[c] # Null => c \in Live /\ parent[c] \in Live
  BY FirstChild DEF IInv, Shape, FreeInv, EndsInv, Live
<1>2. ASSUME NEW n \in Live, NEW x \in {parent[n], prev[n], next[n], head[n], tail[n]} \ {Null}
      PROVE x \in Live
  <2>1. n \in Nodes /\ x \in Nodes
    BY <1>2 DEF Live, IInv, TypeOK, NodeOrNull
  <2> QED
    BY <1>1, <1>2, <2>1 DEF IInv, Shape, EndsInv, RootInv, ListInv
<1>3. ASSUME NEW i \in DOMAIN stack, NEW x \in {stack[i].node, stack[i].child} \ {Null}
      PROVE x \in Live
  <2>1. stack[i].node \in Live /\ stack[i].child = head[stack[i].node]
    BY DEF IInv, StackInv
  <2> QED
    BY <1>2, <1>3, <2>1
<1> QED
  BY <1>2, <1>3 DEF NoDanglingPointer

\* Whatever is built, cut and deleted: no pointer leads to freed memory, and
\* json_delete follows none that does, also between two of its calls.
THEOREM NoUseAfterFree == Spec => []NoDanglingPointer
BY Invariant, NoDanglingPointerHolds, PTL

LEMMA NoLeakHolds == IInv => NoLeak
<1> SUFFICES ASSUME IInv, Idle
             PROVE /\ {n \in Live : parent[n] = Null} = handles
                   /\ \A n \in Live : \E h \in handles : Below(n, h)
  BY DEF NoLeak
<1> USE NodesAssumption
<1>1. {n \in Live : parent[n] = Null} = handles
  BY DEF IInv, RootsInv, Idle
<1>2. ASSUME NEW n \in Live
      PROVE \E h \in handles : Below(n, h)
  <2>1. n \in Nodes /\ n \in NodeOrNull /\ n # Null /\ parent \in [Nodes -> NodeOrNull]
    BY DEF Live, IInv, TypeOK, NodeOrNull
  <2>2. PICK N : N = Cardinality(Nodes)
    OBVIOUS
  <2>3. N \in Nat
    BY <2>2, FS_CardinalityType
  <2>4. PICK l \in 0..N : /\ \A k \in 0..(l - 1) : Nth(n, parent, k) \in Nodes
                          /\ \A k \in Nat : l <= k => Nth(n, parent, k) = Null
    BY <2>1, <2>2, WalkStops DEF IInv
  <2>5. Nth(n, parent, 0) = n
    BY NthStep
  <2>6. l # 0
    BY <2>1, <2>4, <2>5
  <2>7. PICK r : r = l - 1
    OBVIOUS
  <2>8. r \in Nat /\ r \in 0..N /\ r \in 0..(l - 1) /\ l = r + 1
    BY <2>3, <2>4, <2>6, <2>7
  <2>9. PICK h : h = Nth(n, parent, r)
    OBVIOUS
  <2>10. h \in Nodes /\ parent[h] = Null
    <3>1. h \in Nodes
      BY <2>4, <2>8, <2>9
    <3>2. Nth(n, parent, r + 1) = parent[h]
      <4>1. Nth(n, parent, r + 1) =
              IF Nth(n, parent, r) = Null THEN Null ELSE parent[Nth(n, parent, r)]
        BY <2>8, NthStep, ZenonT(40)
      <4> QED
        BY <2>9, <3>1, <4>1
    <3>3. Nth(n, parent, l) = Null
      BY <2>4
    <3> QED
      BY <2>8, <3>1, <3>2, <3>3
  <2>11. h \in Live
    <3>1. CASE r = 0
      BY <2>5, <2>9, <3>1
    <3>2. CASE r # 0
      <4>1. PICK q : q = r - 1
        OBVIOUS
      <4>2. q \in Nat /\ q \in 0..(l - 1) /\ r = q + 1
        BY <2>8, <3>2, <4>1
      <4>3. PICK c : c = Nth(n, parent, q)
        OBVIOUS
      <4>4. c \in Nodes
        BY <2>4, <4>2, <4>3
      <4>5. Nth(n, parent, q + 1) = parent[c]
        <5>1. Nth(n, parent, q + 1) =
                IF Nth(n, parent, q) = Null THEN Null ELSE parent[Nth(n, parent, q)]
          BY <4>2, NthStep, ZenonT(40)
        <5> QED
          BY <4>3, <4>4, <5>1
      <4>6. h = parent[c]
        BY <2>9, <4>2, <4>5
      <4> QED
        BY <2>10, <4>4, <4>6, FirstChild DEF IInv, Shape, FreeInv, Live
    <3> QED
      BY <3>1, <3>2
  <2>12. Below(n, h)
    BY <2>2, <2>8, <2>9, AncestorIsNth DEF Below
  <2> QED
    BY <1>1, <2>10, <2>11, <2>12
<1> QED
  BY <1>1, <1>2

\* json_delete frees all of a tree: outside it, a node exists only below one
\* that a caller holds.
THEOREM DeleteFreesAll == Spec => []NoLeak
BY Invariant, NoLeakHolds, PTL

\* As prev has no circle, next has none: it leads back along prev.
LEMMA NextAcyclic == ASSUME IInv
                     PROVE Acyclic(next)
<1> USE NodesAssumption
<1> SUFFICES ASSUME NEW S \in SUBSET Nodes, S # {}, \A x \in S : next[x] \in S
             PROVE FALSE
  BY DEF Acyclic
<1>1. \A x \in S : prev[next[x]] = x
  BY DEF IInv, Shape, RootInv, ListInv
<1> DEFINE f == [x \in S |-> next[x]]
<1>2. f \in Injection(S, S)
  <2>1. f \in [S -> S]
    OBVIOUS
  <2>2. \A x, y \in S : f[x] = f[y] => x = y
    BY <1>1
  <2> HIDE DEF f
  <2> QED
    BY <2>1, <2>2 DEF Injection, IsInjective
<1>3. IsFiniteSet(S)
  BY FS_Subset
<1>4. f \in Surjection(S, S)
  <2> HIDE DEF f
  <2> QED
    BY <1>2, <1>3, FS_Injection
<1>5. PICK x \in S : prev[x] \notin S
  BY DEF IInv, Acyclic
<1>6. PICK y \in S : f[y] = x
  BY <1>4, <1>5, Zenon DEF Surjection
<1> QED
  BY <1>1, <1>5, <1>6

(***************************************************************************)
(* The sequence of the children.                                           *)
(***************************************************************************)

\* A walk that goes through w and then comes to Null is w.
LEMMA WalkIs ==
  ASSUME NEW first \in NodeOrNull, NEW link \in [Nodes -> NodeOrNull], Acyclic(link),
         NEW w \in Seq(Nodes),
         \A k \in Nat : Nth(first, link, k) = IF k < Len(w) THEN w[k + 1] ELSE Null
  PROVE Walk(first, link) = w /\ Len(w) <= Cardinality(Nodes)
<1> USE NodesAssumption
<1> DEFINE N == Cardinality(Nodes)
           P(l) == /\ l < N => Nth(first, link, l) = Null
                   /\ \A k \in 0..(l - 1) : Nth(first, link, k) # Null
<1>1. N \in Nat
  BY FS_CardinalityType
<1>2. PICK e \in 0..N : Nth(first, link, e) = Null
  BY WalkEnds
<1> HIDE DEF N
<1>3. \A k \in Nat : k < Len(w) => w[k + 1] \in Nodes
  OBVIOUS
<1>4. Len(w) \in 0..N
  BY <1>1, <1>2, <1>3
<1>5. P(Len(w))
  BY <1>1, <1>3, <1>4
<1>6. ASSUME NEW l \in 0..N, P(l)
      PROVE l = Len(w)
  <2>1. CASE l < Len(w)
    BY <1>1, <1>3, <1>4, <1>6, <2>1
  <2>2. CASE l > Len(w)
    <3>1. Len(w) \in 0..(l - 1) /\ Len(w) \in Nat /\ ~(Len(w) < Len(w))
      BY <1>1, <1>4, <2>2
    <3> QED
      BY <1>6, <3>1
  <2> QED
    BY <1>1, <1>4, <2>1, <2>2
<1>7. (CHOOSE l \in 0..N : P(l)) = Len(w)
  <2> HIDE DEF P
  <2>1. (CHOOSE l \in 0..N : P(l)) \in 0..N /\ P(CHOOSE l \in 0..N : P(l))
    BY <1>4, <1>5, Zenon
  <2> QED
    BY <1>6, <2>1
<1>8. Walk(first, link) = [i \in 1..Len(w) |-> Nth(first, link, i - 1)]
  BY <1>7, Zenon DEF Walk, N
<1>9. \A i \in 1..Len(w) : Nth(first, link, i - 1) = w[i]
  OBVIOUS
<1> QED
  BY <1>4, <1>8, <1>9 DEF N

\* w is threaded by link from first on.
Threaded(w, first, link) ==
  /\ w \in Seq(Nodes)
  /\ first = IF w = <<>> THEN Null ELSE w[1]
  /\ \A i \in DOMAIN w : link[w[i]] = IF i < Len(w) THEN w[i + 1] ELSE Null

\* Walking along a thread gives its nodes, one after the other.
LEMMA ThreadedNth ==
  ASSUME NEW w, NEW first, NEW link, Threaded(w, first, link)
  PROVE \A k \in Nat : Nth(first, link, k) = IF k < Len(w) THEN w[k + 1] ELSE Null
<1> USE NodesAssumption
<1>1. w \in Seq(Nodes) /\ Len(w) \in Nat /\ (w = <<>> <=> Len(w) = 0) /\ DOMAIN w = 1..Len(w)
  BY DEF Threaded
<1> DEFINE Bad == {k \in Nat : Nth(first, link, k) # IF k < Len(w) THEN w[k + 1] ELSE Null}
<1> SUFFICES ASSUME Bad # {}
             PROVE FALSE
  OBVIOUS
<1>2. PICK m \in Bad : \A j \in Bad : m <= j
  BY LeastNumber
<1>3. m # 0
  <2>1. Nth(first, link, 0) = first
    BY NthStep
  <2> QED
    BY <1>1, <1>2, <2>1 DEF Threaded
<1>4. PICK r \in Nat : m = r + 1 /\ r \notin Bad
  <2>1. m - 1 \in Nat /\ m = (m - 1) + 1 /\ m - 1 \notin Bad
    BY <1>2, <1>3
  <2> QED
    BY <2>1
<1>5. Nth(first, link, r) = IF r < Len(w) THEN w[r + 1] ELSE Null
  BY <1>4
<1>6. Nth(first, link, r + 1) =
        IF Nth(first, link, r) = Null THEN Null ELSE link[Nth(first, link, r)]
  BY NthStep, ZenonT(40)
<1>7. Nth(first, link, r + 1) = IF r + 1 < Len(w) THEN w[r + 2] ELSE Null
  <2>1. CASE r < Len(w)
    <3>1. r + 1 \in DOMAIN w /\ w[r + 1] \in Nodes /\ (r + 1) + 1 = r + 2
      BY <1>1, <2>1
    <3>2. link[w[r + 1]] = IF r + 1 < Len(w) THEN w[r + 2] ELSE Null
      BY <3>1 DEF Threaded
    <3> QED
      BY <1>5, <1>6, <2>1, <3>1, <3>2
  <2>2. CASE ~(r < Len(w))
    BY <1>1, <1>5, <1>6, <2>2
  <2> QED
    BY <2>1, <2>2
<1> QED
  BY <1>2, <1>4, <1>7

LEMMA ThreadedWalk ==
  ASSUME NEW w, NEW first, NEW link \in [Nodes -> NodeOrNull], Acyclic(link),
         Threaded(w, first, link)
  PROVE Walk(first, link) = w
<1>1. w \in Seq(Nodes) /\ first \in NodeOrNull
  BY DEF Threaded, NodeOrNull
<1> QED
  BY <1>1, ThreadedNth, WalkIs

\* Walking without circles makes a thread.
LEMMA WalkThreaded ==
  ASSUME NEW first \in NodeOrNull, NEW link \in [Nodes -> NodeOrNull], Acyclic(link)
  PROVE Threaded(Walk(first, link), first, link)
<1> USE NodesAssumption
<1>1. PICK N : N = Cardinality(Nodes)
  OBVIOUS
<1>2. PICK l \in 0..N : /\ \A k \in 0..(l - 1) : Nth(first, link, k) \in Nodes
                        /\ \A k \in Nat : l <= k => Nth(first, link, k) = Null
  BY <1>1, WalkStops
<1>3. l \in Nat
  BY <1>1, <1>2, FS_CardinalityType
<1> DEFINE w == [i \in 1..l |-> Nth(first, link, i - 1)]
<1>4. w \in Seq(Nodes) /\ Len(w) = l
  BY <1>2, <1>3
<1>5. \A k \in Nat : k < l => w[k + 1] = Nth(first, link, k)
  BY <1>3
<1> HIDE DEF w
<1>6. \A k \in Nat : Nth(first, link, k) = IF k < Len(w) THEN w[k + 1] ELSE Null
  BY <1>2, <1>3, <1>4, <1>5
<1>7. Walk(first, link) = w
  BY <1>4, <1>6, WalkIs
<1>8. first = IF w = <<>> THEN Null ELSE w[1]
  <2>1. Nth(first, link, 0) = first
    BY NthStep
  <2> QED
    BY <1>3, <1>4, <1>6, <2>1
<1>9. ASSUME NEW i \in DOMAIN w
      PROVE link[w[i]] = IF i < Len(w) THEN w[i + 1] ELSE Null
  <2>1. PICK k \in Nat : i = k + 1 /\ k < Len(w)
    <3>1. i - 1 \in Nat /\ i = (i - 1) + 1 /\ i - 1 < Len(w)
      BY <1>3, <1>4
    <3> QED
      BY <3>1
  <2>2. Nth(first, link, k + 1) = link[w[i]]
    <3>1. Nth(first, link, k) = w[i] /\ w[i] \in Nodes
      BY <1>4, <1>6, <2>1
    <3>2. Nth(first, link, k + 1) =
            IF Nth(first, link, k) = Null THEN Null ELSE link[Nth(first, link, k)]
      BY NthStep, ZenonT(40)
    <3> QED
      BY <3>1, <3>2
  <2>3. Nth(first, link, k + 1) = IF k + 1 < Len(w) THEN w[(k + 1) + 1] ELSE Null
    BY <1>6
  <2> QED
    BY <2>1, <2>2, <2>3
<1> QED
  BY <1>4, <1>7, <1>8, <1>9 DEF Threaded

\* w is the list of the children of n, threaded forwards and backwards.
ListOf(n, w) ==
  /\ Threaded(w, head[n], next)
  /\ tail[n] = IF w = <<>> THEN Null ELSE w[Len(w)]
  /\ \A i \in DOMAIN w : /\ parent[w[i]] = n
                         /\ prev[w[i]] = IF i > 1 THEN w[i - 1] ELSE Null

LEMMA KidsList == ASSUME IInv, NEW n \in Nodes
                  PROVE ListOf(n, Kids(n))
<1> USE NodesAssumption
<1>1. PICK w : w = Kids(n)
  OBVIOUS
<1>2. Threaded(w, head[n], next)
  <2>1. head[n] \in NodeOrNull /\ next \in [Nodes -> NodeOrNull]
    BY DEF IInv, TypeOK
  <2> QED
    BY <1>1, <2>1, WalkThreaded, NextAcyclic DEF Kids
<1>3. w \in Seq(Nodes) /\ Len(w) \in Nat /\ (w = <<>> <=> Len(w) = 0) /\ DOMAIN w = 1..Len(w)
  BY <1>2 DEF Threaded
<1> DEFINE Good(i) == parent[w[i]] = n /\ prev[w[i]] = IF i > 1 THEN w[i - 1] ELSE Null
           Bad == {i \in 1..Len(w) : ~Good(i)}
<1>4. Bad = {}
  <2> SUFFICES ASSUME Bad # {}
               PROVE FALSE
    OBVIOUS
  <2>1. Bad \in SUBSET Nat
    OBVIOUS
  <2>2. PICK m \in Bad : \A j \in Bad : m <= j
    BY <2>1, LeastNumber, Zenon
  <2>3. m \in 1..Len(w)
    BY <2>2
  <2>4. m # 1
    <3>1. Len(w) # 0 => w[1] = head[n] /\ w[1] \in Nodes
      BY <1>2, <1>3 DEF Threaded
    <3>2. Len(w) # 0 => Good(1)
      BY <1>3, <3>1 DEF IInv, Shape, EndsInv
    <3> QED
      BY <1>3, <2>2, <2>3, <3>2
  <2>5. PICK r : r = m - 1
    OBVIOUS
  <2>6. r \in 1..Len(w) /\ r < Len(w) /\ m = r + 1 /\ r \notin Bad
    BY <1>3, <2>2, <2>3, <2>4, <2>5
  <2>7. parent[w[r]] = n
    BY <2>6
  <2>8. w[r] \in Nodes /\ w[m] \in Nodes
    BY <1>3, <2>3, <2>6
  <2>9. next[w[r]] = w[m]
    BY <1>2, <1>3, <2>6 DEF Threaded
  <2>10. parent[w[m]] = n /\ prev[w[m]] = w[r]
    BY <2>7, <2>8, <2>9 DEF IInv, Shape, ListInv
  <2>11. m > 1 /\ m - 1 = r
    BY <1>3, <2>6
  <2> QED
    BY <2>2, <2>10, <2>11
<1>5. \A i \in DOMAIN w : Good(i)
  BY <1>3, <1>4
<1>6. tail[n] = IF w = <<>> THEN Null ELSE w[Len(w)]
  <2>1. CASE w = <<>>
    BY <1>2, <2>1 DEF Threaded, IInv, Shape, EndsInv
  <2>2. CASE w # <<>>
    <3>1. Len(w) \in DOMAIN w /\ ~(Len(w) < Len(w))
      BY <1>3, <2>2
    <3>2. w[Len(w)] \in Nodes /\ parent[w[Len(w)]] = n /\ next[w[Len(w)]] = Null
      BY <1>2, <1>3, <1>5, <3>1 DEF Threaded
    <3> QED
      BY <2>2, <3>2 DEF IInv, Shape, ListInv
  <2> QED
    BY <2>1, <2>2
<1> QED
  BY <1>1, <1>2, <1>5, <1>6 DEF ListOf

\* Every child is in the list.
LEMMA KidsComplete ==
  ASSUME IInv, NEW n \in Nodes, NEW w, ListOf(n, w), NEW c \in Nodes, parent[c] = n
  PROVE \E i \in DOMAIN w : w[i] = c
<1> USE NodesAssumption
<1>1. w \in Seq(Nodes) /\ Len(w) \in Nat /\ (w = <<>> <=> Len(w) = 0) /\ DOMAIN w = 1..Len(w)
  BY DEF ListOf, Threaded
<1> DEFINE S == {x \in Nodes : parent[x] = n /\ \A i \in DOMAIN w : w[i] # x}
<1> SUFFICES ASSUME c \in S
             PROVE FALSE
  OBVIOUS
<1>2. PICK x \in S : prev[x] \notin S
  BY DEF IInv, Acyclic
<1>3. CASE prev[x] = Null
  <2>1. head[n] = x
    BY <1>2, <1>3 DEF IInv, Shape, ListInv
  <2>2. w # <<>> /\ w[1] = x
    BY <1>2, <2>1 DEF ListOf, Threaded
  <2> QED
    BY <1>1, <1>2, <2>2
<1>4. CASE prev[x] # Null
  <2>1. prev[x] \in Nodes /\ parent[prev[x]] = n /\ next[prev[x]] = x
    BY <1>2, <1>4 DEF IInv, TypeOK, NodeOrNull, Shape, ListInv
  <2>2. PICK i \in DOMAIN w : w[i] = prev[x]
    BY <1>2, <2>1
  <2>3. i < Len(w) /\ w[i + 1] = x
    BY <1>2, <2>1, <2>2 DEF ListOf, Threaded
  <2>4. i + 1 \in DOMAIN w
    BY <1>1, <2>3
  <2> QED
    BY <1>2, <2>3, <2>4
<1> QED
  BY <1>3, <1>4

LEMMA TreeChecksHolds == IInv => TreeChecks
<1> SUFFICES ASSUME IInv, NEW n \in Live
             PROVE json_check(n)
  BY DEF TreeChecks
<1> USE NodesAssumption
<1>1. PICK w : w = Kids(n)
  OBVIOUS
<1>2. n \in Nodes /\ tag[n] \in Tags
  BY DEF Live, IInv, TypeOK
<1>3. ListOf(n, w)
  BY <1>1, <1>2, KidsList
<1>4. w \in Seq(Nodes) /\ Len(w) \in Nat /\ (w = <<>> <=> Len(w) = 0) /\ DOMAIN w = 1..Len(w)
  BY <1>3 DEF ListOf, Threaded
<1>5. head[n] = Null <=> tail[n] = Null
  BY <1>2 DEF IInv, Shape, EndsInv
<1>6. head[n] # Null => prev[head[n]] = Null
  BY <1>2 DEF IInv, Shape, EndsInv
<1>7. w # <<>> => w[Len(w)] = tail[n]
  BY <1>3 DEF ListOf
<1>8. ASSUME NEW c \in {w[i] : i \in DOMAIN w}
      PROVE /\ c # n /\ next[c] # c /\ next[c] # head[n]
            /\ parent[c] = n
            /\ next[c] # Null => prev[next[c]] = c
            /\ key[c] = Null <=> tag[n] = "array"
  <2>1. c \in Nodes /\ parent[c] = n /\ n # Null
    BY <1>2, <1>3, <1>4, <1>8 DEF ListOf
  <2>2. c # n
    <3>1. {c} \in SUBSET Nodes /\ {c} # {}
      BY <2>1
    <3>2. parent[c] # c
      BY <3>1 DEF IInv, Acyclic
    <3> QED
      BY <2>1, <3>2
  <2>3. next[c] # c
    <3>1. {c} \in SUBSET Nodes /\ {c} # {}
      BY <2>1
    <3> QED
      BY <3>1, NextAcyclic DEF Acyclic
  <2>4. /\ next[c] # Null => prev[next[c]] = c
        /\ key[c] = Null <=> tag[n] = "array"
        /\ next[c] = Null => tail[n] = c
    BY <2>1 DEF IInv, Shape, ListInv
  <2>5. next[c] # head[n]
    BY <1>5, <1>6, <2>1, <2>4
  <2> QED
    BY <2>1, <2>2, <2>3, <2>4, <2>5
<1> QED
  BY <1>1, <1>2, <1>5, <1>6, <1>7, <1>8 DEF json_check

\* Whatever calls made it, and in the middle of json_delete: json_check finds
\* nothing wrong with a tree.
THEOREM CheckNeverFails == Spec => []TreeChecks
BY Invariant, TreeChecksHolds, PTL

\* From the tail along prev, a list is what it is from the head along next.
LEMMA BackwardIs ==
  ASSUME IInv, NEW n \in Nodes, NEW w, ListOf(n, w)
  PROVE Backward(n) = [i \in 1..Len(w) |-> w[Len(w) + 1 - i]]
<1>1. PICK l : l = Len(w)
  OBVIOUS
<1>2. w \in Seq(Nodes) /\ l \in Nat /\ (w = <<>> <=> l = 0) /\ DOMAIN w = 1..l
  BY <1>1 DEF ListOf, Threaded
<1> DEFINE b == [i \in 1..l |-> w[l + 1 - i]]
<1>3. b \in Seq(Nodes) /\ Len(b) = l /\ DOMAIN b = 1..l /\ \A i \in 1..l : b[i] = w[l + 1 - i]
  <2>1. \A i \in 1..l : l + 1 - i \in 1..l
    BY <1>2
  <2>2. \A i \in 1..l : w[l + 1 - i] \in Nodes
    BY <1>2, <2>1
  <2> QED
    BY <1>2, <2>2
<1> HIDE DEF b
<1>4. b = <<>> <=> w = <<>>
  BY <1>2, <1>3
<1>5. tail[n] = IF b = <<>> THEN Null ELSE b[1]
  <2>1. w # <<>> => b[1] = w[l]
    <3>1. l # 0 => 1 \in 1..l /\ (l + 1) - 1 = l
      BY <1>2
    <3> QED
      BY <1>2, <1>3, <3>1
  <2> QED
    BY <1>1, <1>4, <2>1 DEF ListOf
<1>6. ASSUME NEW i \in DOMAIN b
      PROVE prev[b[i]] = IF i < Len(b) THEN b[i + 1] ELSE Null
  <2>1. PICK j : j = l + 1 - i
    OBVIOUS
  <2>2. i \in 1..l /\ j \in 1..l /\ (i < l <=> j > 1) /\ (i < l => i + 1 \in 1..l /\ l + 1 - (i + 1) = j - 1)
    BY <1>2, <1>3, <2>1
  <2>3. b[i] = w[j]
    BY <1>3, <2>1, <2>2
  <2>4. prev[w[j]] = IF j > 1 THEN w[j - 1] ELSE Null
    BY <1>2, <2>2 DEF ListOf
  <2>5. i < l => b[i + 1] = w[j - 1]
    <3>1. i < l => b[i + 1] = w[l + 1 - (i + 1)]
      BY <1>3, <2>2
    <3> QED
      BY <2>2, <3>1
  <2> QED
    BY <1>3, <2>2, <2>3, <2>4, <2>5
<1>7. Threaded(b, tail[n], prev)
  BY <1>3, <1>5, <1>6 DEF Threaded
<1>8. Backward(n) = b
  <2>1. prev \in [Nodes -> NodeOrNull]
    BY DEF IInv, TypeOK
  <2> QED
    BY <1>7, <2>1, ThreadedWalk DEF IInv, Backward
<1> QED
  BY <1>1, <1>8 DEF b

LEMMA FindAgreesHolds == IInv => FindAgrees
<1> SUFFICES ASSUME IInv, NEW n \in Live
             PROVE /\ tag[n] = "array" =>
                        \A i \in 0..Cardinality(Nodes) :
                          json_find_element(n, i) =
                            IF i < Len(Backward(n)) THEN Backward(n)[Len(Backward(n)) - i] ELSE Null
                   /\ tag[n] = "object" =>
                        \A k \in Keys :
                          LET found == json_find_member(n, k)
                              b == Backward(n)
                              len == Len(b)
                          IN IF found = Null THEN \A i \in 1..len : key[b[i]] # k
                             ELSE \E i \in 1..len : /\ b[i] = found /\ key[found] = k
                                                    /\ \A j \in (i + 1)..len : key[b[j]] # k
  BY DEF FindAgrees
<1> USE NodesAssumption
<1>1. PICK w : w = Kids(n)
  OBVIOUS
<1>2. n \in Nodes
  BY DEF Live
<1>3. ListOf(n, w)
  BY <1>1, <1>2, KidsList
<1>4. PICK l : l = Len(w)
  OBVIOUS
<1>5. w \in Seq(Nodes) /\ l \in Nat /\ DOMAIN w = 1..l
  BY <1>3, <1>4 DEF ListOf, Threaded
<1>6. PICK b : b = Backward(n)
  OBVIOUS
<1>7. Len(b) = l /\ \A i \in 1..l : b[i] = w[l + 1 - i]
  <2>1. b = [i \in 1..l |-> w[l + 1 - i]]
    BY <1>2, <1>3, <1>4, <1>6, BackwardIs
  <2> QED
    BY <1>5, <2>1
<1>8. CASE tag[n] = "array"
  <2>1. ASSUME NEW i \in 0..Cardinality(Nodes)
        PROVE json_find_element(n, i) = IF i < l THEN b[l - i] ELSE Null
    <3>1. i \in Nat
      BY FS_CardinalityType
    <3>2. json_find_element(n, i) = Nth(head[n], next, i)
      BY <1>8 DEF json_find_element, json_first_child, Containers
    <3>3. Nth(head[n], next, i) = IF i < l THEN w[i + 1] ELSE Null
      BY <1>3, <1>4, <3>1, ThreadedNth DEF ListOf
    <3>4. i < l => b[l - i] = w[i + 1]
      <4>1. i < l => l - i \in 1..l /\ l + 1 - (l - i) = i + 1
        BY <1>5, <3>1
      <4>2. i < l => b[l - i] = w[l + 1 - (l - i)]
        BY <1>7, <4>1
      <4> QED
        BY <4>1, <4>2
    <3> QED
      BY <3>2, <3>3, <3>4
  <2> QED
    BY <1>6, <1>7, <1>8, <2>1
<1>9. CASE tag[n] = "object"
  <2>0. tag[n] # "array"
    BY <1>9
  <2> SUFFICES ASSUME NEW k \in Keys
               PROVE IF json_find_member(n, k) = Null THEN \A i \in 1..l : key[b[i]] # k
                     ELSE \E i \in 1..l : /\ b[i] = json_find_member(n, k)
                                          /\ key[json_find_member(n, k)] = k
                                          /\ \A j \in (i + 1)..l : key[b[j]] # k
    BY <1>6, <1>7, <2>0
  <2> DEFINE matching == {i \in DOMAIN w : key[w[i]] = k}
  <2>1. json_find_member(n, k) =
          IF matching = {} THEN Null ELSE w[CHOOSE i \in matching : \A j \in matching : i <= j]
    <3>1. json_find_member(n, k) = FirstWithKey(head[n], k)
      BY <1>9 DEF json_find_member, json_first_child, Containers
    <3>2. w = Walk(head[n], next)
      BY <1>1 DEF Kids
    <3> QED
      BY <3>1, <3>2, Zenon DEF FirstWithKey
  <2>2. CASE matching = {}
    <3>1. json_find_member(n, k) = Null
      BY <2>1, <2>2
    <3>2. \A i \in 1..l : l + 1 - i \in 1..l
      BY <1>5
    <3>3. \A i \in 1..l : key[w[i]] # k
      BY <1>5, <2>2
    <3> HIDE DEF matching
    <3>4. \A i \in 1..l : key[b[i]] # k
      BY <1>7, <3>2, <3>3, SMTT(30)
    <3> QED
      BY <3>1, <3>4
  <2>3. CASE matching # {}
    <3> DEFINE least == CHOOSE i \in matching : \A j \in matching : i <= j
    <3>1. \E i \in matching : \A j \in matching : i <= j
      <4>1. matching \in SUBSET Nat
        BY <1>5
      <4> QED
        BY <2>3, <4>1, LeastNumber, Zenon
    <3>2. least \in matching /\ \A j \in matching : least <= j
      BY <3>1, Zenon
    <3>3. PICK m : m = least
      OBVIOUS
    <3>4. json_find_member(n, k) = w[m]
      BY <2>1, <2>3, <3>3, Zenon
    <3>5. m \in 1..l /\ key[w[m]] = k /\ \A j \in 1..l : key[w[j]] = k => m <= j
      BY <1>5, <3>2, <3>3
    <3> HIDE DEF least, matching
    <3>6. PICK i : i = l + 1 - m
      OBVIOUS
    <3>7. i \in 1..l /\ l + 1 - i = m
      BY <1>5, <3>5, <3>6
    <3>8. b[i] = w[m]
      BY <1>7, <3>7
    <3>9. ASSUME NEW j \in (i + 1)..l
          PROVE key[b[j]] # k
      <4>1. PICK x : x = l + 1 - j
        OBVIOUS
      <4>2. j \in 1..l /\ x \in 1..l /\ x < m
        BY <1>5, <3>5, <3>7, <4>1
      <4>3. key[w[x]] # k
        BY <1>5, <3>5, <4>2
      <4> QED
        BY <1>7, <4>1, <4>2, <4>3
    <3>10. w[m] # Null
      BY <1>5, <3>5
    <3> QED
      BY <3>4, <3>5, <3>7, <3>8, <3>9, <3>10
  <2> QED
    BY <2>2, <2>3
<1> QED
  BY <1>8, <1>9

\* json_find_element and json_find_member return what is in the list at that
\* place, or first under that key, as the pointers in the other direction
\* tell.
THEOREM FindIsExact == Spec => []FindAgrees
BY Invariant, FindAgreesHolds, PTL

(***************************************************************************)
(* The pointers implement the sequences of OrderedTree, for every number   *)
(* of nodes: a step of JsonTree changes the sequence of one parent at one  *)
(* place, and no other.                                                    *)
(***************************************************************************)

LEMMA NextAcyclicAfter == IInv' => Acyclic(next)'
<1>1. IInv => Acyclic(next)
  BY NextAcyclic
<1> QED
  BY <1>1, PTL

\* A thread of the new links is the new list of children.
LEMMA KidsAfter ==
  ASSUME IInv', NEW n \in Nodes, NEW w, Threaded(w, head'[n], next')
  PROVE Kids(n)' = w
<1>1. Acyclic(next)'
  BY NextAcyclicAfter
<1>2. next' \in [Nodes -> NodeOrNull]
  BY DEF IInv, TypeOK
<1>3. Acyclic(next')
  BY <1>1 DEF Acyclic
<1>4. Walk(head'[n], next') = w
  BY <1>2, <1>3, ThreadedWalk
<1> QED
  BY <1>4 DEF Kids

\* No node is twice in a list.
LEMMA ListDistinct ==
  ASSUME NEW n, NEW w, ListOf(n, w)
  PROVE \A a, b \in DOMAIN w : w[a] = w[b] => a = b
<1> USE NodesAssumption
<1>1. w \in Seq(Nodes) /\ Len(w) \in Nat /\ DOMAIN w = 1..Len(w)
  BY DEF ListOf, Threaded
<1>back. \A i \in 1..Len(w) : prev[w[i]] = IF i > 1 THEN w[i - 1] ELSE Null
  BY <1>1 DEF ListOf
<1> DEFINE Bad == {a \in 1..Len(w) : \E b \in 1..Len(w) : a < b /\ w[a] = w[b]}
<1>2. Bad = {}
  <2> SUFFICES ASSUME Bad # {}
               PROVE FALSE
    OBVIOUS
  <2>1. Bad \in SUBSET Nat
    OBVIOUS
  <2>2. PICK a \in Bad : \A j \in Bad : a <= j
    BY <2>1, LeastNumber, Zenon
  <2>3. a \in 1..Len(w)
    BY <2>2
  <2>4. PICK b \in 1..Len(w) : a < b /\ w[a] = w[b]
    BY <2>2
  <2>5. prev[w[b]] = w[b - 1] /\ w[b - 1] \in Nodes /\ b - 1 \in 1..Len(w)
    <3>1. b > 1 /\ b \in DOMAIN w /\ b - 1 \in 1..Len(w)
      BY <1>1, <2>3, <2>4
    <3>2. w[b - 1] \in Nodes
      BY <1>1, <3>1
    <3> QED
      BY <1>back, <3>1, <3>2
  <2>6. CASE a = 1
    <3>1. prev[w[a]] = Null
      BY <1>back, <2>3, <2>6
    <3> QED
      BY <2>4, <2>5, <3>1
  <2>7. CASE a # 1
    <3>0. a > 1 /\ a - 1 \in 1..Len(w) /\ a - 1 < b - 1
      BY <1>1, <2>3, <2>4, <2>7
    <3>1. prev[w[a]] = w[a - 1] /\ a - 1 \in 1..Len(w) /\ a - 1 < b - 1
      BY <1>back, <2>3, <3>0
    <3>2. a - 1 \in Bad
      BY <2>4, <2>5, <3>1
    <3> QED
      BY <2>2, <2>3, <3>1, <3>2
  <2> QED
    BY <2>6, <2>7
<1> SUFFICES ASSUME NEW a \in DOMAIN w, NEW b \in DOMAIN w, w[a] = w[b], a # b
             PROVE FALSE
  OBVIOUS
<1>3. CASE a < b
  BY <1>1, <1>2, <1>3
<1>4. CASE b < a
  BY <1>1, <1>2, <1>4
<1> QED
  BY <1>1, <1>3, <1>4

\* A list whose links and head stay is the same list.
LEMMA KidsSame ==
  ASSUME IInv, IInv', NEW q \in Nodes, head'[q] = head[q],
         \A x \in Nodes : parent[x] = q => next'[x] = next[x]
  PROVE Kids(q)' = Kids(q)
<1>1. PICK w : w = Kids(q)
  OBVIOUS
<1>2. ListOf(q, w)
  BY <1>1, KidsList
<1>3. w \in Seq(Nodes) /\ \A i \in DOMAIN w : w[i] \in Nodes /\ parent[w[i]] = q
  BY <1>2 DEF ListOf, Threaded
<1>4. Threaded(w, head'[q], next')
  BY <1>2, <1>3 DEF ListOf, Threaded
<1> QED
  BY <1>1, <1>4, KidsAfter

\* append_node adds at the end.
LEMMA KidsAppend ==
  ASSUME IInv, IInv', NEW p \in Nodes, NEW c \in Nodes, p # c, parent[c] = Null, append_node(p, c)
  PROVE \A q \in Nodes : Kids(q)' = IF q = p THEN Append(Kids(p), c) ELSE Kids(q)
<1> USE NodesAssumption
<1>1. tail[p] # c /\ tail[p] \in NodeOrNull /\ (tail[p] # Null => parent[tail[p]] = p)
  BY DEF IInv, TypeOK, Shape, EndsInv
<1>2. \A x \in Nodes : /\ next'[x] = IF x = c THEN Null ELSE IF x = tail[p] THEN c ELSE next[x]
                       /\ head'[x] = IF x = p /\ tail[p] = Null THEN c ELSE head[x]
  BY <1>1 DEF append_node, IInv, TypeOK, NodeOrNull
<1>3. ASSUME NEW q \in Nodes, q # p
      PROVE Kids(q)' = Kids(q)
  BY <1>1, <1>2, <1>3, KidsSame
<1>4. Kids(p)' = Append(Kids(p), c)
  <2>1. PICK w : w = Kids(p)
    OBVIOUS
  <2>2. ListOf(p, w)
    BY <2>1, KidsList
  <2>3. PICK l : l = Len(w)
    OBVIOUS
  <2>4. w \in Seq(Nodes) /\ l \in Nat /\ (w = <<>> <=> l = 0) /\ DOMAIN w = 1..l
    BY <2>2, <2>3 DEF ListOf, Threaded
  <2>5. PICK v : v = Append(w, c)
    OBVIOUS
  <2>6. v \in Seq(Nodes) /\ Len(v) = l + 1 /\ DOMAIN v = 1..(l + 1) /\ v # <<>>
        /\ v[l + 1] = c /\ \A i \in 1..l : v[i] = w[i]
    BY <2>3, <2>4, <2>5
  <2>7. \A i \in 1..l : w[i] \in Nodes /\ w[i] # c /\ (w[i] = tail[p] <=> i = l)
    <3>1. \A i \in 1..l : w[i] \in Nodes /\ w[i] # c
      BY <2>2, <2>4 DEF ListOf
    <3>2. l # 0 => tail[p] = w[l] /\ l \in 1..l
      BY <2>2, <2>3, <2>4 DEF ListOf
    <3>3. \A i, j \in 1..l : w[i] = w[j] => i = j
      BY <2>2, <2>4, ListDistinct
    <3> QED
      BY <2>4, <3>1, <3>2, <3>3
  <2>8. head'[p] = v[1]
    <3>1. CASE l = 0
      BY <1>2, <2>2, <2>4, <2>6, <3>1 DEF ListOf
    <3>2. CASE l # 0
      <4>1. 1 \in 1..l /\ l \in 1..l
        BY <2>4, <3>2
      <4>2. head[p] = w[1] /\ tail[p] = w[l]
        BY <2>2, <2>3, <2>4, <3>2 DEF ListOf, Threaded
      <4> QED
        BY <1>2, <2>6, <2>7, <4>1, <4>2
    <3> QED
      BY <3>1, <3>2
  <2>9. ASSUME NEW i \in 1..(l + 1)
        PROVE next'[v[i]] = IF i < l + 1 THEN v[i + 1] ELSE Null
    <3>1. CASE i = l + 1
      BY <1>2, <2>4, <2>6, <3>1
    <3>2. CASE i = l
      <4>1. i \in 1..l
        BY <2>4, <3>2
      <4>2. v[i] = w[i] /\ w[i] \in Nodes /\ w[i] # c /\ w[i] = tail[p]
        BY <2>6, <2>7, <3>2, <4>1
      <4> QED
        BY <1>2, <2>4, <2>6, <3>2, <4>2
    <3>3. CASE i < l
      <4>1. i \in 1..l /\ i + 1 \in 1..l
        BY <2>4, <3>3
      <4>2. next[w[i]] = w[i + 1]
        BY <2>2, <2>3, <2>4, <3>3, <4>1 DEF ListOf, Threaded
      <4>3. next'[w[i]] = next[w[i]]
        BY <1>2, <2>4, <2>7, <3>3, <4>1
      <4> QED
        BY <2>4, <2>6, <3>3, <4>1, <4>2, <4>3
    <3> QED
      BY <2>4, <3>1, <3>2, <3>3
  <2>10. Threaded(v, head'[p], next')
    BY <2>6, <2>8, <2>9 DEF Threaded
  <2> QED
    BY <2>1, <2>5, <2>10, KidsAfter
<1> QED
  BY <1>3, <1>4

\* prepend_node adds at the front.
LEMMA KidsPrepend ==
  ASSUME IInv, IInv', NEW p \in Nodes, NEW c \in Nodes, p # c, parent[c] = Null, prepend_node(p, c)
  PROVE \A q \in Nodes : Kids(q)' = IF q = p THEN <<c>> \o Kids(p) ELSE Kids(q)
<1> USE NodesAssumption
<1>1. \A x \in Nodes : /\ next'[x] = IF x = c THEN head[p] ELSE next[x]
                       /\ head'[x] = IF x = p THEN c ELSE head[x]
  BY DEF prepend_node, IInv, TypeOK
<1>2. ASSUME NEW q \in Nodes, q # p
      PROVE Kids(q)' = Kids(q)
  BY <1>1, <1>2, KidsSame
<1>3. Kids(p)' = <<c>> \o Kids(p)
  <2>1. PICK w : w = Kids(p)
    OBVIOUS
  <2>2. ListOf(p, w)
    BY <2>1, KidsList
  <2>3. PICK l : l = Len(w)
    OBVIOUS
  <2>4. w \in Seq(Nodes) /\ l \in Nat /\ (w = <<>> <=> l = 0) /\ DOMAIN w = 1..l
    BY <2>2, <2>3 DEF ListOf, Threaded
  <2>5. PICK v : v = <<c>> \o w
    OBVIOUS
  <2>6. v \in Seq(Nodes) /\ Len(v) = l + 1 /\ DOMAIN v = 1..(l + 1) /\ v # <<>>
        /\ v[1] = c /\ \A i \in 2..(l + 1) : v[i] = w[i - 1]
    BY <2>3, <2>4, <2>5
  <2>7. \A i \in 1..l : w[i] \in Nodes /\ w[i] # c
    BY <2>2, <2>4 DEF ListOf
  <2>8. ASSUME NEW i \in 1..(l + 1)
        PROVE next'[v[i]] = IF i < l + 1 THEN v[i + 1] ELSE Null
    <3>1. CASE i = 1 /\ l = 0
      <4>1. head[p] = Null
        BY <2>2, <2>4, <3>1 DEF ListOf, Threaded
      <4> QED
        BY <1>1, <2>6, <3>1, <4>1
    <3>2. CASE i = 1 /\ l # 0
      <4>1. head[p] = w[1]
        BY <2>2, <2>4, <3>2 DEF ListOf, Threaded
      <4>2. 2 \in 2..(l + 1) /\ v[2] = w[1]
        BY <2>4, <2>6, <3>2
      <4> QED
        BY <1>1, <2>4, <2>6, <3>2, <4>1, <4>2
    <3>3. CASE i # 1
      <4>1. PICK j : j = i - 1
        OBVIOUS
      <4>2. j \in 1..l /\ i \in 2..(l + 1) /\ i = j + 1 /\ (i < l + 1 <=> j < l)
        BY <2>4, <3>3, <4>1
      <4>3. v[i] = w[j] /\ next'[w[j]] = next[w[j]]
        BY <1>1, <2>6, <2>7, <4>1, <4>2
      <4>4. next[w[j]] = IF j < l THEN w[j + 1] ELSE Null
        BY <2>2, <2>3, <2>4, <4>2 DEF ListOf, Threaded
      <4>5. j < l => v[i + 1] = w[j + 1]
        <5>1. j < l => i + 1 \in 2..(l + 1) /\ (i + 1) - 1 = j + 1
          BY <2>4, <4>2
        <5> QED
          BY <2>6, <5>1
      <4> QED
        BY <4>2, <4>3, <4>4, <4>5
    <3> QED
      BY <3>1, <3>2, <3>3
  <2>9. Threaded(v, head'[p], next')
    BY <1>1, <2>6, <2>8 DEF Threaded
  <2> QED
    BY <2>1, <2>5, <2>9, KidsAfter
<1> QED
  BY <1>2, <1>3

\* A sequence without its i-th member.
LEMMA RemoveAtIs ==
  ASSUME NEW w \in Seq(Nodes), NEW i \in 1..Len(w)
  PROVE LET v == Ordered!RemoveAt(w, i)
        IN /\ v \in Seq(Nodes) /\ Len(v) = Len(w) - 1
           /\ \A j \in 1..(Len(w) - 1) : v[j] = IF j < i THEN w[j] ELSE w[j + 1]
<1>1. PICK l : l = Len(w)
  OBVIOUS
<1>2. l \in Nat /\ i \in 1..l
  BY <1>1
<1>3. PICK a : a = SubSeq(w, 1, i - 1)
  OBVIOUS
<1>4. PICK b : b = SubSeq(w, i + 1, l)
  OBVIOUS
<1>5. a \in Seq(Nodes) /\ Len(a) = i - 1 /\ \A j \in 1..(i - 1) : a[j] = w[j]
  BY <1>1, <1>2, <1>3
<1>6. b \in Seq(Nodes) /\ Len(b) = l - i /\ \A j \in 1..(l - i) : b[j] = w[i + j]
  BY <1>1, <1>2, <1>4
<1>7. PICK v : v = a \o b
  OBVIOUS
<1>8. v \in Seq(Nodes) /\ Len(v) = l - 1
  <2>1. v \in Seq(Nodes) /\ Len(v) = Len(a) + Len(b)
    <3>1. a \in Seq(Nodes) /\ b \in Seq(Nodes)
      BY <1>5, <1>6
    <3> QED
      BY <1>7, <3>1
  <2> QED
    BY <1>2, <1>5, <1>6, <2>1
<1>9. ASSUME NEW j \in 1..(l - 1)
      PROVE v[j] = IF j < i THEN w[j] ELSE w[j + 1]
  <2>1. CASE j < i
    BY <1>2, <1>5, <1>6, <1>7, <2>1
  <2>2. CASE ~(j < i)
    <3>1. PICK k : k = j - (i - 1)
      OBVIOUS
    <3>2. k \in 1..(l - i) /\ i + k = j + 1
      BY <1>2, <2>2, <3>1
    <3>3. v[j] = b[k]
      BY <1>2, <1>5, <1>6, <1>7, <2>2, <3>1
    <3> QED
      BY <1>6, <2>2, <3>2, <3>3
  <2> QED
    BY <2>1, <2>2
<1>10. v = Ordered!RemoveAt(w, i)
  BY <1>1, <1>3, <1>4, <1>7 DEF Ordered!RemoveAt
<1> QED
  BY <1>1, <1>8, <1>9, <1>10

\* unlink takes the node out of the sequence of its parent, at its place.
LEMMA KidsUnlink ==
  ASSUME IInv, IInv', NEW n \in Nodes, parent[n] # Null, unlink(n)
  PROVE \E p \in Nodes : \E i \in DOMAIN Kids(p) :
          /\ Kids(p)[i] = n
          /\ \A q \in Nodes : Kids(q)' = IF q = p THEN Ordered!RemoveAt(Kids(p), i) ELSE Kids(q)
<1> USE NodesAssumption
<1>1. PICK p : p = parent[n]
  OBVIOUS
<1>2. PICK a : a = prev[n]
  OBVIOUS
<1>3. PICK b : b = next[n]
  OBVIOUS
<1>4. p \in Nodes /\ a \in NodeOrNull /\ b \in NodeOrNull
  BY <1>1, <1>2, <1>3 DEF IInv, TypeOK, NodeOrNull
<1>5. a # n /\ (a # Null => parent[a] = p)
  <2>1. {n} \in SUBSET Nodes /\ {n} # {}
    OBVIOUS
  <2>2. a # n
    BY <1>2, <2>1 DEF IInv, Acyclic
  <2> QED
    BY <1>1, <1>2, <2>2 DEF IInv, Shape, ListInv
<1>6. \A x \in Nodes : /\ next'[x] = IF x = n THEN Null ELSE IF x = a THEN b ELSE next[x]
                       /\ head'[x] = IF x = p /\ a = Null THEN b ELSE head[x]
  BY <1>1, <1>2, <1>3, <1>4, <1>5 DEF unlink, IInv, TypeOK, NodeOrNull
<1>7. ASSUME NEW q \in Nodes, q # p
      PROVE Kids(q)' = Kids(q)
  BY <1>1, <1>4, <1>5, <1>6, <1>7, KidsSame DEF NodeOrNull
<1>8. PICK w : w = Kids(p)
  OBVIOUS
<1>9. ListOf(p, w)
  BY <1>4, <1>8, KidsList
<1>10. PICK l : l = Len(w)
  OBVIOUS
<1>11. w \in Seq(Nodes) /\ l \in Nat /\ (w = <<>> <=> l = 0) /\ DOMAIN w = 1..l
  BY <1>9, <1>10 DEF ListOf, Threaded
<1>12. PICK i \in 1..l : w[i] = n
  BY <1>1, <1>4, <1>9, <1>11, KidsComplete
<1>13. PICK v : v = Ordered!RemoveAt(w, i)
  OBVIOUS
<1>14. v \in Seq(Nodes) /\ Len(v) = l - 1 /\ \A j \in 1..(l - 1) : v[j] = IF j < i THEN w[j] ELSE w[j + 1]
  BY <1>10, <1>11, <1>12, <1>13, RemoveAtIs
<1>15. DOMAIN v = 1..(l - 1) /\ (v = <<>> <=> l = 1)
  BY <1>11, <1>12, <1>14
<1>16. /\ a = IF i > 1 THEN w[i - 1] ELSE Null
       /\ b = IF i < l THEN w[i + 1] ELSE Null
  BY <1>2, <1>3, <1>9, <1>10, <1>11, <1>12 DEF ListOf, Threaded
<1>17. \A j \in 1..l : /\ w[j] \in Nodes
                       /\ w[j] = n <=> j = i
                       /\ w[j] = a <=> j = i - 1
                       /\ next[w[j]] = IF j < l THEN w[j + 1] ELSE Null
  <2>1. \A j \in 1..l : w[j] \in Nodes
    BY <1>11
  <2>2. \A j, k \in 1..l : w[j] = w[k] => j = k
    BY <1>9, <1>11, ListDistinct
  <2>3. \A j \in 1..l : w[j] = n <=> j = i
    BY <1>12, <2>2
  <2>4. \A j \in 1..l : w[j] = a <=> j = i - 1
    <3>1. CASE i = 1
      BY <1>11, <1>16, <2>1, <3>1
    <3>2. CASE i > 1
      <4>1. i - 1 \in 1..l /\ a = w[i - 1]
        BY <1>11, <1>12, <1>16, <3>2
      <4> QED
        BY <2>2, <4>1
    <3> QED
      BY <1>11, <1>12, <3>1, <3>2
  <2>5. \A j \in 1..l : next[w[j]] = IF j < l THEN w[j + 1] ELSE Null
    BY <1>9, <1>10, <1>11 DEF ListOf, Threaded
  <2> QED
    BY <2>1, <2>3, <2>4, <2>5
<1>18. head'[p] = IF v = <<>> THEN Null ELSE v[1]
  <2>1. head[p] = w[1]
    BY <1>9, <1>11, <1>12 DEF ListOf, Threaded
  <2>2. CASE i = 1
    <3>1. a = Null
      BY <1>16, <2>2
    <3>2. l # 1 => v[1] = w[2] /\ 1 < l
      BY <1>11, <1>12, <1>14, <2>2
    <3> QED
      BY <1>4, <1>6, <1>11, <1>15, <1>16, <2>2, <3>1, <3>2
  <2>3. CASE i > 1
    <3>1. 1 \in 1..(l - 1) /\ v[1] = w[1] /\ l # 1
      BY <1>11, <1>12, <1>14, <2>3
    <3>2. a # Null
      <4>1. i - 1 \in 1..l
        BY <1>11, <1>12, <2>3
      <4> QED
        BY <1>16, <1>17, <2>3, <4>1
    <3> QED
      BY <1>4, <1>6, <1>15, <2>1, <3>1, <3>2
  <2> QED
    BY <1>11, <1>12, <2>2, <2>3
<1>19. ASSUME NEW j \in 1..(l - 1)
       PROVE next'[v[j]] = IF j < l - 1 THEN v[j + 1] ELSE Null
  <2>1. j \in 1..l /\ j + 1 \in 1..l /\ (j < l - 1 => j + 1 \in 1..(l - 1) /\ j + 2 \in 1..l)
    BY <1>11
  <2>2. CASE j < i - 1
    <3>1. v[j] = w[j] /\ v[j + 1] = w[j + 1] /\ j < l - 1 /\ j < l
      BY <1>11, <1>12, <1>14, <2>1, <2>2
    <3>2. next'[w[j]] = next[w[j]]
      BY <1>6, <1>11, <1>12, <1>17, <2>1, <2>2
    <3> QED
      BY <1>17, <2>1, <3>1, <3>2
  <2>3. CASE j = i - 1
    <3>1. v[j] = w[j] /\ (j < l - 1 => v[j + 1] = w[i + 1]) /\ (i < l <=> j < l - 1)
      <4>1. j < i /\ ~(j + 1 < i) /\ j + 1 = i /\ (j + 1) + 1 = i + 1 /\ (i < l <=> j < l - 1)
        BY <1>11, <1>12, <2>3
      <4> QED
        BY <1>14, <2>1, <4>1
    <3>2. next'[w[j]] = b
      BY <1>6, <1>11, <1>12, <1>17, <2>1, <2>3
    <3> QED
      BY <1>16, <3>1, <3>2
  <2>4. CASE j >= i
    <3>1. v[j] = w[j + 1] /\ (j < l - 1 => v[j + 1] = w[j + 2]) /\ (j + 1 < l <=> j < l - 1)
      <4>1. ~(j < i) /\ ~(j + 1 < i) /\ (j + 1) + 1 = j + 2 /\ (j + 1 < l <=> j < l - 1)
        BY <1>11, <1>12, <2>4
      <4> QED
        BY <1>14, <2>1, <4>1
    <3>2. next'[w[j + 1]] = next[w[j + 1]]
      <4>1. j + 1 # i /\ j + 1 # i - 1
        BY <1>11, <1>12, <2>4
      <4> QED
        BY <1>6, <1>17, <2>1, <4>1
    <3>3. next[w[j + 1]] = IF j + 1 < l THEN w[j + 2] ELSE Null
      <4>1. (j + 1) + 1 = j + 2
        OBVIOUS
      <4> QED
        BY <1>17, <2>1, <4>1
    <3> QED
      BY <3>1, <3>2, <3>3
  <2> QED
    BY <1>11, <1>12, <2>2, <2>3, <2>4
<1>20. Threaded(v, head'[p], next')
  BY <1>14, <1>15, <1>18, <1>19 DEF Threaded
<1>21. Kids(p)' = v
  BY <1>4, <1>20, KidsAfter
<1> QED
  BY <1>4, <1>7, <1>8, <1>11, <1>12, <1>13, <1>21

(***************************************************************************)
(* The steps.                                                              *)
(***************************************************************************)

\* A root is in no sequence.
LEMMA RootNotPlaced ==
  ASSUME IInv, NEW c \in Nodes, parent[c] = Null
  PROVE c \notin Ordered!Placed
<1>1. ASSUME NEW p \in Nodes, NEW i \in DOMAIN Kids(p), Kids(p)[i] = c
      PROVE FALSE
  <2>1. ListOf(p, Kids(p))
    BY KidsList
  <2> QED
    BY <1>1, <2>1, NodesAssumption DEF ListOf
<1>2. \A p \in Nodes : c \notin Ordered!ToSet(Kids(p))
  BY <1>1 DEF Ordered!ToSet
<1> QED
  BY <1>2 DEF Ordered!Placed

\* Both forms of insertion are a step of Place.
LEMMA InsertPlaces ==
  ASSUME IInv, IInv', NEW p \in Nodes, NEW c \in Nodes, Insertable(p, c),
         append_node(p, c) \/ prepend_node(p, c), UNCHANGED tag
  PROVE Ordered!Place(p, c)
<1>1. p \in Live /\ c \in Live /\ parent[c] = Null /\ ~Below(p, c)
  BY DEF Insertable
<1>2. parent' = [parent EXCEPT ![c] = p]
  BY DEF append_node, prepend_node
<1>3. p # c
  BY <1>1, <1>2, InsertParents DEF IInv
<1>4. c \notin Ordered!Placed
  BY <1>1, RootNotPlaced
<1>5. Live' = Live
  BY DEF Live
<1> DEFINE K == [n \in Nodes |-> Kids(n)]
           K2 == [n \in Nodes |-> Kids(n)']
<1>6. K' = K2
  OBVIOUS
<1>7. K2 = [K EXCEPT ![p] = Append(@, c)] \/ K2 = [K EXCEPT ![p] = <<c>> \o @]
  <2>1. CASE append_node(p, c)
    <3>1. \A q \in Nodes : Kids(q)' = IF q = p THEN Append(Kids(p), c) ELSE Kids(q)
      BY <1>1, <1>3, <2>1, KidsAppend
    <3> QED
      BY <3>1
  <2>2. CASE prepend_node(p, c)
    <3>1. \A q \in Nodes : Kids(q)' = IF q = p THEN <<c>> \o Kids(p) ELSE Kids(q)
      BY <1>1, <1>3, <2>2, KidsPrepend
    <3> QED
      BY <3>1
  <2> QED
    BY <2>1, <2>2
<1> QED
  BY <1>1, <1>3, <1>4, <1>5, <1>6, <1>7, Zenon DEF Ordered!Place

\* unlink is a step of Detach, or has no effect on a root.
LEMMA UnlinkDetaches ==
  ASSUME IInv, IInv', NEW n \in Nodes, unlink(n), UNCHANGED tag
  PROVE Ordered!Detach(n) \/ UNCHANGED <<Live, [m \in Nodes |-> Kids(m)]>>
<1>1. Live' = Live
  BY DEF Live
<1> DEFINE K == [m \in Nodes |-> Kids(m)]
           K2 == [m \in Nodes |-> Kids(m)']
<1>2. K' = K2
  OBVIOUS
<1>3. CASE parent[n] = Null
  <2>1. head' = head /\ next' = next
    BY <1>3 DEF unlink, links
  <2> QED
    BY <1>1, <2>1 DEF Kids
<1>4. CASE parent[n] # Null
  <2>0. PICK p \in Nodes : \E i \in DOMAIN Kids(p) :
          /\ Kids(p)[i] = n
          /\ \A q \in Nodes : Kids(q)' = IF q = p THEN Ordered!RemoveAt(Kids(p), i) ELSE Kids(q)
    BY <1>4, KidsUnlink
  <2>1. PICK i \in DOMAIN Kids(p) :
          /\ Kids(p)[i] = n
          /\ \A q \in Nodes : Kids(q)' = IF q = p THEN Ordered!RemoveAt(Kids(p), i) ELSE Kids(q)
    BY <2>0
  <2>2. K2 = [K EXCEPT ![p] = Ordered!RemoveAt(@, i)] /\ K[p] = Kids(p)
    BY <2>1
  <2>3. i \in DOMAIN K[p] /\ K[p][i] = n
    BY <2>1, <2>2
  <2> QED
    BY <1>1, <1>2, <2>2, <2>3, Zenon DEF Ordered!Detach
<1> QED
  BY <1>3, <1>4

LEMMA StepImplements ==
  ASSUME IInv, IInv', Next
  PROVE Ordered!TreeNext \/ UNCHANGED <<Live, [m \in Nodes |-> Kids(m)]>>
<1> USE NodesAssumption
<1>1. ASSUME NEW n \in Nodes, NEW t \in Tags, mknode(n, t)
      PROVE Ordered!TreeNext
  <2>1. t # "free" /\ tag[n] = "free" /\ head' = head /\ next' = next
    BY <1>1 DEF mknode, links, Tags, Containers
  <2>2. Live' = Live \cup {n} /\ n \notin Live
    BY <1>1, <2>1 DEF mknode, Live, IInv, TypeOK
  <2>3. [m \in Nodes |-> Kids(m)]' = [m \in Nodes |-> Kids(m)]
    BY <2>1 DEF Kids
  <2> QED
    BY <2>2, <2>3 DEF Ordered!TreeNext, Ordered!Make
<1>2. ASSUME NEW p \in Nodes, NEW c \in Nodes, json_append_element(p, c) \/ json_prepend_element(p, c)
      PROVE Ordered!TreeNext
  BY <1>2, InsertPlaces DEF json_append_element, json_prepend_element, Ordered!TreeNext
<1>3. ASSUME NEW p \in Nodes, NEW c \in Nodes, NEW k \in Keys,
             json_append_member(p, k, c) \/ json_prepend_member(p, k, c)
      PROVE Ordered!TreeNext
  BY <1>3, InsertPlaces DEF json_append_member, json_prepend_member, Ordered!TreeNext
<1>4. ASSUME NEW n \in Nodes, json_remove_from_parent(n) \/ json_delete(n)
      PROVE Ordered!TreeNext \/ UNCHANGED <<Live, [m \in Nodes |-> Kids(m)]>>
  BY <1>4, UnlinkDetaches DEF json_remove_from_parent, json_delete, Ordered!TreeNext
<1>5. CASE delete_child
  <2>1. Top.child \in Nodes
    <3>1. Top.child \in NodeOrNull
      BY <1>5, TopType DEF delete_child, IInv
    <3> QED
      BY <1>5, <3>1 DEF delete_child, NodeOrNull
  <2> QED
    BY <1>5, <2>1, UnlinkDetaches DEF delete_child, Ordered!TreeNext
<1>6. CASE delete_free
  <2>1. PICK l : l = Len(stack)
    OBVIOUS
  <2>2. PICK p : p = Top.node
    OBVIOUS
  <2>3. l \in DOMAIN stack /\ p \in Nodes /\ p = stack[l].node /\ stack[l].child = Null
    BY <1>6, <2>1, <2>2, TopType DEF delete_free, IInv, Top
  <2>4. p \in Live /\ head[p] = Null /\ parent[p] = Null
    BY <2>3 DEF IInv, StackInv
  <2>5. Live' = Live \ {p}
    BY <1>6, <2>2, <2>3 DEF delete_free, Live, IInv, TypeOK
  <2>6. head' = head /\ next' = next
    BY <1>6, <2>2, <2>3, <2>4 DEF delete_free, IInv, TypeOK
  <2>7. [m \in Nodes |-> Kids(m)]' = [m \in Nodes |-> Kids(m)]
    BY <2>6 DEF Kids
  <2>8. Kids(p) = <<>>
    <3>1. ListOf(p, Kids(p))
      BY <2>3, KidsList
    <3>2. Kids(p) # <<>> => Kids(p)[1] \in Nodes /\ Kids(p)[1] = head[p]
      BY <3>1 DEF ListOf, Threaded
    <3> QED
      BY <2>4, <3>2
  <2>9. p \notin Ordered!Placed
    BY <2>3, <2>4, RootNotPlaced
  <2>10. Ordered!Free(p)
    BY <2>3, <2>4, <2>5, <2>7, <2>8, <2>9 DEF Ordered!Free
  <2> QED
    BY <2>3, <2>10 DEF Ordered!TreeNext
<1> QED
  BY <1>1, <1>2, <1>3, <1>4, <1>5, <1>6 DEF Next

\* Every call of the interface, and every step json_delete takes for it, does
\* to the lists of children what OrderedTree says: the library implements it.
THEOREM JsonImplementsOrderedTree == Spec => ImplementsOrderedTree
<1>1. Init => Ordered!TreeInit
  <2> SUFFICES ASSUME Init
               PROVE Ordered!TreeInit
    OBVIOUS
  <2>1. Live = {}
    BY DEF Init, Live
  <2>2. ASSUME NEW n \in Nodes
        PROVE Kids(n) = <<>>
    <3>1. IInv
      BY InitInvariant
    <3>2. ListOf(n, Kids(n))
      BY <3>1, KidsList
    <3>3. Kids(n) # <<>> => Kids(n)[1] \in Nodes /\ Kids(n)[1] = head[n]
      BY <3>2 DEF ListOf, Threaded
    <3> QED
      BY <3>3, NodesAssumption DEF Init
  <2> QED
    BY <2>1, <2>2 DEF Ordered!TreeInit
<1>2. IInv /\ IInv' /\ [Next]_vars => [Ordered!TreeNext]_Ordered!treeVars
  <2> SUFFICES ASSUME IInv, IInv', [Next]_vars
               PROVE Ordered!TreeNext \/ UNCHANGED <<Live, [m \in Nodes |-> Kids(m)]>>
    BY DEF Ordered!treeVars
  <2>1. CASE UNCHANGED vars
    BY <2>1 DEF vars, Live, Kids
  <2> QED
    BY <2>1, StepImplements
<1> QED
  BY <1>1, <1>2, Invariant, PTL DEF Spec, ImplementsOrderedTree, Ordered!TreeSpec
=============================================================================
