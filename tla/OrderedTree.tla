---------------------------- MODULE OrderedTree ----------------------------
(***************************************************************************)
(* What the tree part of util/json.c promises: a forest whose inner nodes  *)
(* have an ordered sequence of children.  A node enters a sequence at      *)
(* either end, leaves it from any place, and is freed only when it is in   *)
(* no sequence and has no children.                                        *)
(***************************************************************************)
EXTENDS Sequences, SequencesExt

CONSTANTS Nodes

VARIABLES live,  \* the nodes that exist
          kids   \* the children of each node, in order

treeVars == <<live, kids>>

\* The nodes that are in some sequence.
Placed == UNION {ToSet(kids[p]) : p \in Nodes}

TreeInit == live = {} /\ kids = [n \in Nodes |-> <<>>]

Make(n) == /\ n \notin live
           /\ live' = live \cup {n}
           /\ UNCHANGED kids

\* c becomes the last or the first child of p.
Place(p, c) ==
  /\ {p, c} \subseteq live
  /\ p # c /\ c \notin Placed
  /\ \/ kids' = [kids EXCEPT ![p] = Append(@, c)]
     \/ kids' = [kids EXCEPT ![p] = <<c>> \o @]
  /\ UNCHANGED live

\* n leaves the sequence it is in; the order of the others stays.
Detach(n) ==
  /\ \E p \in Nodes : \E i \in DOMAIN kids[p] :
       kids[p][i] = n /\ kids' = [kids EXCEPT ![p] = RemoveAt(@, i)]
  /\ UNCHANGED live

Free(n) ==
  /\ n \in live \ Placed
  /\ kids[n] = <<>>
  /\ live' = live \ {n}
  /\ UNCHANGED kids

TreeNext == \/ \E n \in Nodes : Make(n) \/ Detach(n) \/ Free(n)
            \/ \E p, c \in Nodes : Place(p, c)

TreeSpec == TreeInit /\ [][TreeNext]_treeVars
=============================================================================
