-------------------------- MODULE JsonValueProofs --------------------------
(***************************************************************************)
(* Proofs about json_decode and json_validate, for texts of every length   *)
(* and every number of nodes: the parser builds its tree only as callers   *)
(* of the interface may, so that all that is proved of JsonTree holds of   *)
(* it; every string has one owner; and a call that fails leaves nothing.   *)
(***************************************************************************)
EXTENDS JsonValue, JsonTreeProofs

Frame == [kind : Containers, ret : NodeOrNull, key : Keys \cup {Null}]

ValueTypeOK ==
  /\ phase \in {"calls", "parse", "fail", "returned", "exit"}
  /\ wanted \in BOOLEAN
  /\ point \in Points
  /\ frames \in Seq(Frame)
  /\ value \in NodeOrNull
  /\ ok \in BOOLEAN
  /\ string_ \in [Nodes -> Keys \cup {Null}]
  /\ strings \in Int

\* The value between its end and its place in a list, or in the hands of the
\* caller of json_decode.
Held == IF point \in {"append", "end"} THEN {value} \ {Null} ELSE {}

Rets == {frames[i].ret : i \in DOMAIN frames} \ {Null}

\* What the calls of the parser have in hand is what exists without a parent:
\* the container each call of parse_array and parse_object fills, and the
\* value parsed last.  json_validate has nothing.
HandsInv ==
  phase \in {"parse", "fail"} =>
    /\ handles = Rets \cup Held
    /\ Rets \cap Held = {}
    /\ ~wanted => value = Null
    /\ \A i \in DOMAIN frames : /\ wanted <=> frames[i].ret # Null
                                /\ wanted => tag[frames[i].ret] = frames[i].kind
                                /\ ~wanted => frames[i].key = Null
    /\ wanted => \A i, j \in DOMAIN frames : frames[i].ret = frames[j].ret => i = j

\* Where the innermost call is, and the keys that are waiting for a value.
PointInv ==
  phase = "parse" =>
    /\ Idle
    /\ frames = <<>> => point \in {"value", "end"}
    /\ point = "end" => frames = <<>>
    /\ point \in {"key", "colon"} => Inner.kind = "object"
    /\ wanted /\ point \in {"append", "end"} => value # Null
    /\ wanted => \A i \in DOMAIN frames :
                   frames[i].key # Null <=>
                     /\ frames[i].kind = "object"
                     /\ i < Len(frames) \/ point \in {"colon", "value", "append"}

\* How a call ends.
EndInv ==
  /\ phase \in {"parse", "fail"} => ~ok
  /\ phase = "fail" => point # "append" /\ (point = "end" => frames = <<>>)
  /\ phase \in {"calls", "returned"} => frames = <<>>
  /\ phase = "returned" => Idle /\ (~(ok /\ wanted) => handles = {})

\* Freed memory holds no string.
FreeStringInv == \A n \in Nodes : tag[n] = "free" => string_[n] = Null

ValueInv == /\ ValueTypeOK /\ HandsInv /\ PointInv /\ EndInv /\ FreeStringInv
            /\ StringsOwned

(***************************************************************************)
(* The stack of calls.                                                     *)
(***************************************************************************)

LEMMA FramesDomain ==
  ASSUME ValueTypeOK
  PROVE /\ Len(frames) \in Nat /\ DOMAIN frames = 1..Len(frames)
        /\ frames # <<>> <=> Len(frames) # 0
        /\ \A i \in DOMAIN frames : frames[i] \in Frame
BY DEF ValueTypeOK

\* The innermost call.
LEMMA InnerType ==
  ASSUME ValueTypeOK, frames # <<>>
  PROVE /\ Len(frames) \in DOMAIN frames /\ Inner \in Frame
        /\ Inner = frames[Len(frames)]
        /\ Inner.kind \in Containers /\ Inner.ret \in NodeOrNull /\ Inner.key \in Keys \cup {Null}
<1>1. Len(frames) \in DOMAIN frames
  BY FramesDomain
<1>2. Inner \in Frame
  BY <1>1, FramesDomain DEF Inner
<1> QED
  BY <1>1, <1>2 DEF Inner, Frame

\* The calls around it.
LEMMA OuterIs ==
  ASSUME ValueTypeOK, frames # <<>>
  PROVE /\ Outer \in Seq(Frame) /\ Len(Outer) = Len(frames) - 1
        /\ DOMAIN Outer = 1..(Len(frames) - 1)
        /\ \A i \in 1..(Len(frames) - 1) : Outer[i] = frames[i]
        /\ Outer = <<>> <=> Len(frames) = 1
<1>1. PICK l : l = Len(frames)
  OBVIOUS
<1>2. frames \in Seq(Frame) /\ l \in Nat /\ l # 0
  BY <1>1 DEF ValueTypeOK
<1>3. PICK s : s = SubSeq(frames, 1, l - 1)
  OBVIOUS
<1>4. s \in Seq(Frame) /\ Len(s) = l - 1 /\ \A i \in 1..(l - 1) : s[i] = frames[i]
  BY <1>1, <1>2, <1>3
<1>5. DOMAIN s = 1..(l - 1) /\ (s = <<>> <=> l = 1)
  BY <1>2, <1>4
<1> QED
  BY <1>1, <1>3, <1>4, <1>5 DEF Outer

\* A call begins.
LEMMA PushIs ==
  ASSUME ValueTypeOK, NEW f \in Frame
  PROVE LET s == Append(frames, f)
        IN /\ s \in Seq(Frame) /\ Len(s) = Len(frames) + 1
           /\ DOMAIN s = 1..(Len(frames) + 1)
           /\ s[Len(frames) + 1] = f
           /\ \A i \in 1..Len(frames) : s[i] = frames[i]
BY DEF ValueTypeOK

\* The innermost call assigns its key.
LEMMA SetKeyIs ==
  ASSUME ValueTypeOK, frames # <<>>, NEW k \in Keys \cup {Null}
  PROVE LET s == [frames EXCEPT ![Len(frames)].key = k]
        IN /\ s \in Seq(Frame) /\ Len(s) = Len(frames) /\ DOMAIN s = DOMAIN frames
           /\ \A i \in DOMAIN frames :
                /\ s[i].kind = frames[i].kind /\ s[i].ret = frames[i].ret
                /\ s[i].key = IF i = Len(frames) THEN k ELSE frames[i].key
<1>1. PICK l : l = Len(frames)
  OBVIOUS
<1>2. frames \in Seq(Frame) /\ l \in Nat /\ DOMAIN frames = 1..l /\ l \in 1..l
  BY <1>1, FramesDomain DEF ValueTypeOK
<1>3. PICK s : s = [frames EXCEPT ![l].key = k]
  OBVIOUS
<1>4. DOMAIN s = 1..l /\ \A i \in 1..l : s[i] = IF i = l THEN [frames[i] EXCEPT !.key = k] ELSE frames[i]
  BY <1>2, <1>3
<1>5. \A i \in 1..l : frames[i] \in Frame
  BY <1>2, FramesDomain
<1>6. \A i \in 1..l : s[i] \in Frame /\ s[i].kind = frames[i].kind /\ s[i].ret = frames[i].ret
                      /\ s[i].key = IF i = l THEN k ELSE frames[i].key
  BY <1>4, <1>5 DEF Frame
<1>7. s \in Seq(Frame) /\ Len(s) = l
  <2>1. s = [i \in 1..l |-> s[i]]
    BY <1>2, <1>3
  <2> QED
    BY <1>2, <1>6, <2>1
<1> QED
  BY <1>1, <1>2, <1>3, <1>4, <1>6, <1>7

(***************************************************************************)
(* The parser as a caller of the tree.                                     *)
(***************************************************************************)

\* The container that is filled and the value for it are different roots, so
\* that neither is below the other.
LEMMA ParsedInsertable ==
  ASSUME IInv, ValueInv, phase = "parse", point = "append", wanted
  PROVE /\ frames # <<>> /\ Inner.ret \in Nodes /\ value \in Nodes
        /\ Insertable(Inner.ret, value) /\ tag[Inner.ret] = Inner.kind
        /\ Inner.key = Null <=> Inner.kind = "array"
        /\ value \in handles /\ value \notin Rets /\ key[value] = Null
<1> USE NodesAssumption
<1>1. Idle /\ frames # <<>> /\ value # Null
  BY DEF ValueInv, PointInv
<1>2. PICK r : r = Inner.ret
  OBVIOUS
<1>3. r # Null /\ tag[r] = Inner.kind /\ r \in Rets /\ r \in Nodes
  BY <1>1, <1>2, InnerType DEF ValueInv, HandsInv, Rets, NodeOrNull
<1>4. value \in Held /\ value \in Nodes
  BY <1>1 DEF Held, ValueInv, ValueTypeOK, NodeOrNull
<1>5. r \in handles /\ value \in handles /\ r # value /\ value \notin Rets
  BY <1>3, <1>4 DEF ValueInv, HandsInv
<1>6. r \in Live /\ value \in Live /\ parent[r] = Null /\ parent[value] = Null
  BY <1>5 DEF IInv, RootsInv
<1>7. ~Below(r, value)
  <2> SUFFICES ASSUME NEW k \in 0..Cardinality(Nodes), Ancestor(r, k) = value
               PROVE FALSE
    BY DEF Below
  <2>1. k \in Nat /\ Nth(r, parent, k) = value
    BY AncestorIsNth, FS_CardinalityType
  <2>2. Nth(r, parent, 0) = r
    BY NthStep
  <2>3. Nth(r, parent, 1) = Null
    <3>1. Nth(r, parent, 0 + 1) = IF Nth(r, parent, 0) = Null THEN Null ELSE parent[Nth(r, parent, 0)]
      BY NthStep
    <3> QED
      BY <1>6, <2>2, <3>1
  <2> DEFINE Bad == {m \in Nat : m # 0 /\ Nth(r, parent, m) # Null}
  <2>4. k \in Bad
    BY <1>1, <1>5, <2>1, <2>2
  <2>5. PICK m \in Bad : \A j \in Bad : m <= j
    BY <2>4, LeastNumber
  <2>6. m # 1 /\ m # 0 /\ m \in Nat
    BY <2>3, <2>5
  <2>7. PICK q \in Nat : m = q + 1 /\ q \notin Bad /\ q # 0
    <3>1. m - 1 \in Nat /\ m = (m - 1) + 1 /\ m - 1 \notin Bad /\ m - 1 # 0
      BY <2>5, <2>6
    <3> QED
      BY <3>1
  <2>8. Nth(r, parent, q) = Null
    BY <2>7
  <2>9. Nth(r, parent, q + 1) = IF Nth(r, parent, q) = Null THEN Null ELSE parent[Nth(r, parent, q)]
    BY NthStep, ZenonT(40)
  <2> QED
    BY <2>5, <2>7, <2>8, <2>9
<1>8. Inner.key = Null <=> Inner.kind = "array"
  <2>1. Inner.key # Null <=> Inner.kind = "object"
    BY <1>1, InnerType DEF ValueInv, PointInv
  <2> QED
    BY <1>1, <2>1, InnerType DEF ValueInv, Containers
<1>9. key[value] = Null
  BY <1>4, <1>6 DEF IInv, Shape, RootInv
<1> QED
  BY <1>1, <1>2, <1>3, <1>4, <1>5, <1>6, <1>7, <1>8, <1>9 DEF Insertable

\* What the parser does with a token, and where.
AtValue == point = "value" \/ (point = "first" /\ Inner.kind = "array")
AtKey == point = "key" \/ (point = "first" /\ Inner.kind # "array")

Moves(p) == point' = p /\ UNCHANGED <<vars, phase, wanted, frames, value, ok, stringVars>>

LEMMA ParseCases ==
  ASSUME parse
  PROVE /\ phase = "parse" /\ point # "append"
        /\ \/ \E c : AtValue /\ (parse_scalar(c) \/ parse_open(c))
           \/ \E c \in Keys : AtKey /\ parse_key(c)
           \/ point \in {"first", "after"} /\ Close
           \/ point = "after" /\ Moves(IF Inner.kind = "array" THEN "value" ELSE "key")
           \/ point = "colon" /\ Moves("value")
           \/ point = "end" /\ parse_end("nul")
           \/ Fail
<1>1. PICK c \in Tokens \ {Space} :
        \/ Reads("value", c) /\ parse_value(c)
        \/ Reads("first", c) /\ parse_first(c)
        \/ Reads("key", c) /\ parse_key(c)
        \/ Reads("colon", c) /\ parse_colon(c)
        \/ Reads("after", c) /\ parse_after(c)
        \/ Reads("end", c) /\ parse_end(c)
  BY Zenon DEF parse
<1>2. ASSUME parse_value(c)
      PROVE parse_scalar(c) \/ parse_open(c) \/ Fail
  <2>1. CASE c \in {"v"} \cup Keys /\ c \notin {"[", "{"}
    BY <1>2, <2>1, Zenon DEF parse_value
  <2>2. CASE c \notin {"v"} \cup Keys /\ c \in {"[", "{"}
    BY <1>2, <2>2, Zenon DEF parse_value
  <2>3. CASE c \in {"v"} \cup Keys /\ c \in {"[", "{"}
    BY <1>2, <2>3, Zenon DEF parse_value
  <2>4. CASE c \notin {"v"} \cup Keys /\ c \notin {"[", "{"}
    BY <1>2, <2>4, Zenon DEF parse_value
  <2> QED
    BY <2>1, <2>2, <2>3, <2>4
<1>3. ASSUME parse_key(c)
      PROVE c \in Keys \/ Fail
  BY <1>3, Zenon DEF parse_key
<1>4. CASE Reads("value", c) /\ parse_value(c)
  BY <1>2, <1>4 DEF Reads, AtValue
<1>5. CASE Reads("first", c) /\ parse_first(c)
  <2>1. Close \/ (Inner.kind = "array" /\ parse_value(c)) \/ (Inner.kind # "array" /\ parse_key(c))
    <3>1. CASE c = Closer[Inner.kind]
      BY <1>5, <3>1, Zenon DEF parse_first
    <3>2. CASE c # Closer[Inner.kind] /\ Inner.kind = "array"
      BY <1>5, <3>2, Zenon DEF parse_first
    <3>3. CASE c # Closer[Inner.kind] /\ Inner.kind # "array"
      BY <1>5, <3>3, Zenon DEF parse_first
    <3> QED
      BY <3>1, <3>2, <3>3
  <2>2. phase = "parse" /\ point = "first"
    BY <1>5 DEF Reads
  <2> QED
    BY <1>2, <1>3, <2>1, <2>2 DEF AtValue, AtKey
<1>6. CASE Reads("key", c) /\ parse_key(c)
  BY <1>3, <1>6 DEF Reads, AtKey
<1>7. CASE Reads("colon", c) /\ parse_colon(c)
  BY <1>7 DEF Reads, parse_colon, Moves
<1>8. CASE Reads("after", c) /\ parse_after(c)
  <2>1. Close \/ Moves(IF Inner.kind = "array" THEN "value" ELSE "key") \/ Fail
    <3>1. CASE c = Closer[Inner.kind] /\ c # ","
      BY <1>8, <3>1, Zenon DEF parse_after
    <3>2. CASE c # Closer[Inner.kind] /\ c = ","
      BY <1>8, <3>2, Zenon DEF parse_after, Moves
    <3>3. CASE c # Closer[Inner.kind] /\ c # ","
      BY <1>8, <3>3, Zenon DEF parse_after
    <3>4. CASE c = Closer[Inner.kind] /\ c = ","
      BY <1>8, <3>4, Zenon DEF parse_after, Moves
    <3> QED
      BY <3>1, <3>2, <3>3, <3>4
  <2>2. phase = "parse" /\ point = "after"
    BY <1>8 DEF Reads
  <2> QED
    BY <2>1, <2>2
<1>9. CASE Reads("end", c) /\ parse_end(c)
  <2>1. c = "nul" \/ Fail
    BY <1>9 DEF parse_end
  <2> QED
    BY <1>9, <2>1 DEF Reads
<1> QED
  BY <1>1, <1>4, <1>5, <1>6, <1>7, <1>8, <1>9

LEMMA AppendParsedIsNext ==
  ASSUME IInv, ValueInv, append_parsed
  PROVE [Next]_vars
<1>1. CASE ~wanted
  BY <1>1 DEF append_parsed
<1>2. CASE wanted
  <2>1. phase = "parse" /\ point = "append"
    BY DEF append_parsed
  <2>2. PICK r : r = Inner.ret
    OBVIOUS
  <2>3. PICK k : k = Inner.key
    OBVIOUS
  <2>4. /\ r \in Nodes /\ value \in Nodes /\ Insertable(r, value) /\ tag[r] = Inner.kind
        /\ k = Null <=> Inner.kind = "array"
        /\ key[value] = Null
    BY <1>2, <2>1, <2>2, <2>3, ParsedInsertable
  <2>5. Inner.kind \in Containers /\ k \in Keys \cup {Null}
    BY <1>2, <2>1, <2>3, ParsedInsertable, InnerType DEF ValueInv
  <2>6. /\ append_node(r, value) /\ key' = [key EXCEPT ![value] = k]
        /\ handles' = handles \ {value} /\ UNCHANGED <<tag, stack>>
    BY <1>2, <2>2, <2>3 DEF append_parsed
  <2>7. CASE Inner.kind = "array"
    <3>1. key' = key
      BY <2>4, <2>6, <2>7 DEF IInv, TypeOK
    <3>2. json_append_element(r, value)
      BY <2>4, <2>6, <2>7, <3>1 DEF json_append_element
    <3> QED
      BY <2>4, <3>2 DEF Next
  <2>8. CASE Inner.kind = "object"
    <3>1. k \in Keys
      BY <2>4, <2>5, <2>8
    <3>2. json_append_member(r, k, value)
      BY <2>4, <2>6, <2>8 DEF json_append_member
    <3> QED
      BY <2>4, <3>1, <3>2 DEF Next
  <2> QED
    BY <2>5, <2>7, <2>8 DEF Containers
<1> QED
  BY <1>1, <1>2

\* The tree operations are those of JsonTree.
LEMMA CallsAreNext ==
  ASSUME calls
  PROVE Next
<1>1. CASE without_string
  BY <1>1 DEF without_string, Next
<1>2. CASE copy_key
  BY <1>2 DEF copy_key, Next
<1>3. CASE remove_or_delete
  BY <1>3 DEF remove_or_delete, Next
<1>4. CASE delete_on
  BY <1>4 DEF delete_on, Next
<1>5. CASE \E n \in Nodes, s \in Keys : json_mkstring(n, s)
  BY <1>5 DEF json_mkstring, Next, Tags
<1> QED
  BY <1>1, <1>2, <1>3, <1>4, <1>5 DEF calls

\* Whatever the parser does to the tree, a caller of the interface may do.
LEMMA StepIsNext ==
  ASSUME IInv, ValueInv, [ValueNext]_valueVars
  PROVE [Next]_vars
<1>1. CASE calls
  BY <1>1, CallsAreNext
<1>2. CASE json_decode \/ skip_space \/ resume \/ exited \/ UNCHANGED valueVars
  BY <1>2 DEF json_decode, skip_space, resume, exited, valueVars
<1>3. CASE parse
  <2>1. ASSUME NEW n, NEW t \in Tags, NewNode(t, n)
        PROVE [Next]_vars
    BY <2>1 DEF NewNode, Next
  <2>2. ASSUME NEW c, parse_scalar(c)
        PROVE [Next]_vars
    BY <2>1, <2>2 DEF parse_scalar, OutOfMemory, Tags
  <2>3. ASSUME NEW c, parse_open(c)
        PROVE [Next]_vars
    BY <2>1, <2>3 DEF parse_open, OutOfMemory, Kind, Tags, Containers
  <2>4. ASSUME NEW c \in Keys, parse_key(c)
        PROVE [Next]_vars
    BY <2>4 DEF parse_key
  <2>5. CASE Close
    BY <2>5 DEF Close
  <2>6. ASSUME NEW p, Moves(p)
        PROVE [Next]_vars
    BY <2>6 DEF Moves
  <2>7. CASE parse_end("nul")
    BY <2>7 DEF parse_end
  <2>8. CASE Fail
    BY <2>8 DEF Fail
  <2> QED
    BY <1>3, ParseCases, <2>2, <2>3, <2>4, <2>5, <2>6, <2>7, <2>8
<1>4. CASE append_parsed
  BY <1>4, AppendParsedIsNext
<1>5. CASE failure
  <2>1. Inner.ret \in NodeOrNull
    BY <1>5, InnerType DEF failure, ValueInv
  <2> QED
    BY <1>5, <2>1 DEF failure, NodeOrNull, Next
<1>6. CASE deleting
  BY <1>6 DEF deleting, delete_on, Next
<1>7. CASE decode_failed
  <2>1. value \in NodeOrNull
    BY DEF ValueInv, ValueTypeOK
  <2> QED
    BY <1>7, <2>1 DEF decode_failed, NodeOrNull, Next
<1> QED
  BY <1>1, <1>2, <1>3, <1>4, <1>5, <1>6, <1>7 DEF ValueNext

(***************************************************************************)
(* Counting strings.                                                       *)
(***************************************************************************)

OwnedKeys == {n \in Nodes : key[n] # Null}
OwnedStrings == {n \in Nodes : string_[n] # Null}
WaitingKeys == {i \in DOMAIN frames : frames[i].key # Null}

LEMMA StringsOwnedIs ==
  StringsOwned <=> strings = Cardinality(OwnedKeys) + Cardinality(OwnedStrings)
                             + Cardinality(WaitingKeys)
BY Zenon DEF StringsOwned, Owned, OwnedKeys, OwnedStrings, WaitingKeys

LEMMA StringsOwnedAfter ==
  StringsOwned' <=> strings' = Cardinality(OwnedKeys') + Cardinality(OwnedStrings')
                               + Cardinality(WaitingKeys')
BY Zenon DEF StringsOwned, Owned, OwnedKeys, OwnedStrings, WaitingKeys

LEMMA NodesCount ==
  ASSUME NEW S \in SUBSET Nodes
  PROVE IsFiniteSet(S) /\ Cardinality(S) \in Nat
BY NodesAssumption, FS_Subset, FS_CardinalityType

LEMMA WaitingCount ==
  ASSUME ValueTypeOK
  PROVE IsFiniteSet(WaitingKeys) /\ Cardinality(WaitingKeys) \in Nat
<1>1. WaitingKeys \in SUBSET (1..Len(frames)) /\ Len(frames) \in Nat
  BY FramesDomain DEF WaitingKeys
<1>2. IsFiniteSet(1..Len(frames))
  BY <1>1, FS_Interval
<1> QED
  BY <1>1, <1>2, FS_Subset, FS_CardinalityType

LEMMA OneMore ==
  ASSUME NEW S, IsFiniteSet(S), NEW x, x \notin S
  PROVE Cardinality(S \cup {x}) = Cardinality(S) + 1
BY FS_AddElement

LEMMA OneLess ==
  ASSUME NEW S, IsFiniteSet(S), NEW x \in S
  PROVE Cardinality(S \ {x}) = Cardinality(S) - 1
BY FS_RemoveElement

\* What a step of the count adds up to, from the change of each kind of owner.
LEMMA CountOwned ==
  ASSUME ValueTypeOK, StringsOwned, UNCHANGED frames,
         NEW k \in Int, Cardinality(OwnedKeys') = Cardinality(OwnedKeys) + k,
         NEW s \in Int, Cardinality(OwnedStrings') = Cardinality(OwnedStrings) + s,
         strings' = strings + k + s
  PROVE StringsOwned' /\ strings' \in Int
<1>1. WaitingKeys' = WaitingKeys
  BY DEF WaitingKeys
<1>2. OwnedKeys \in SUBSET Nodes /\ OwnedStrings \in SUBSET Nodes
  BY DEF OwnedKeys, OwnedStrings
<1>3. Cardinality(OwnedKeys) \in Nat /\ Cardinality(OwnedStrings) \in Nat
  BY <1>2, NodesCount
<1>4. Cardinality(WaitingKeys) \in Nat
  BY WaitingCount
<1>5. strings = Cardinality(OwnedKeys) + Cardinality(OwnedStrings) + Cardinality(WaitingKeys)
  BY StringsOwnedIs
<1>6. strings' = Cardinality(OwnedKeys') + Cardinality(OwnedStrings') + Cardinality(WaitingKeys')
      /\ strings' \in Int
  BY <1>1, <1>3, <1>4, <1>5
<1> QED
  BY <1>6, StringsOwnedAfter

\* Nothing happens to strings.
LEMMA SameStrings ==
  ASSUME StringsOwned, UNCHANGED <<key, frames, stringVars>>
  PROVE StringsOwned'
<1>1. OwnedKeys' = OwnedKeys /\ OwnedStrings' = OwnedStrings /\ WaitingKeys' = WaitingKeys
  BY DEF OwnedKeys, OwnedStrings, WaitingKeys, stringVars
<1>2. strings' = strings
  BY DEF stringVars
<1> QED
  BY <1>1, <1>2, StringsOwnedIs, StringsOwnedAfter

(***************************************************************************)
(* The steps of the invariant.                                             *)
(***************************************************************************)

\* Adding a node to the owners of keys or of strings, or taking one away.
LEMMA OwnersChange ==
  ASSUME NEW A, NEW B, A \in SUBSET Nodes, NEW n
  PROVE /\ B = A => Cardinality(B) = Cardinality(A) + 0
        /\ B = A \cup {n} /\ n \notin A => Cardinality(B) = Cardinality(A) + 1
        /\ B = A \ {n} /\ n \in A => Cardinality(B) = Cardinality(A) + (-1)
<1>1. IsFiniteSet(A) /\ Cardinality(A) \in Nat
  BY NodesCount
<1>2. CASE B = A
  BY <1>1, <1>2
<1>3. CASE B = A \cup {n} /\ n \notin A
  BY <1>1, <1>3, OneMore
<1>4. CASE B = A \ {n} /\ n \in A
  BY <1>1, <1>4, OneLess
<1> QED
  BY <1>1, <1>2, <1>3, <1>4

\* What unlink does to the keys, and what is freed for it.
LEMMA UnlinkCount ==
  ASSUME IInv, NEW n \in Nodes, unlink(n)
  PROVE \E k \in Int : k = - KeysFreed(n) /\ Cardinality(OwnedKeys') = Cardinality(OwnedKeys) + k
<1> USE NodesAssumption
<1>1. OwnedKeys \in SUBSET Nodes
  BY DEF OwnedKeys
<1>2. CASE parent[n] = Null
  <2>1. OwnedKeys' = OwnedKeys /\ KeysFreed(n) = 0
    BY <1>2 DEF unlink, links, OwnedKeys, KeysFreed
  <2> QED
    BY <1>1, <2>1, OwnersChange
<1>3. CASE parent[n] # Null /\ key[n] = Null
  <2>1. key' = [key EXCEPT ![n] = Null] /\ KeysFreed(n) = 0
    BY <1>3 DEF unlink, KeysFreed
  <2>2. OwnedKeys' = OwnedKeys
    BY <1>3, <2>1 DEF OwnedKeys, IInv, TypeOK
  <2> QED
    BY <1>1, <2>1, <2>2, OwnersChange
<1>4. CASE parent[n] # Null /\ key[n] # Null
  <2>1. key' = [key EXCEPT ![n] = Null] /\ KeysFreed(n) = 1
    BY <1>4 DEF unlink, KeysFreed
  <2>2. OwnedKeys' = OwnedKeys \ {n} /\ n \in OwnedKeys
    BY <1>4, <2>1 DEF OwnedKeys, IInv, TypeOK
  <2> QED
    BY <1>1, <2>1, <2>2, OwnersChange
<1> QED
  BY <1>2, <1>3, <1>4

\* json_remove_from_parent, json_delete and its loop free the key they drop.
LEMMA UnlinkOwned ==
  ASSUME IInv, ValueInv, UNCHANGED <<frames, string_>>,
         NEW n \in Nodes, unlink(n), strings' = strings - KeysFreed(n)
  PROVE StringsOwned' /\ strings' \in Int
<1>1. PICK k \in Int : k = - KeysFreed(n) /\ Cardinality(OwnedKeys') = Cardinality(OwnedKeys) + k
  BY UnlinkCount
<1>2. Cardinality(OwnedStrings') = Cardinality(OwnedStrings) + 0
  <2>1. OwnedStrings \in SUBSET Nodes /\ OwnedStrings' = OwnedStrings
    BY DEF OwnedStrings
  <2> QED
    BY <2>1, OwnersChange
<1>3. strings \in Int /\ KeysFreed(n) \in Int
  BY DEF ValueInv, ValueTypeOK, KeysFreed
<1>4. strings' = strings + k + 0
  BY <1>1, <1>3
<1> QED
  BY <1>1, <1>2, <1>4, CountOwned DEF ValueInv

\* A node that json_delete frees had its key freed before, and has its string
\* freed now.
LEMMA DeleteOnOwned ==
  ASSUME IInv, ValueInv, UNCHANGED frames, delete_on
  PROVE /\ StringsOwned' /\ strings' \in Int
        /\ string_' \in [Nodes -> Keys \cup {Null}] /\ FreeStringInv'
        /\ delete_child \/ delete_free
<1> USE NodesAssumption
<1>1. CASE /\ delete_child
           /\ strings' = strings - KeysFreed(Top.child)
           /\ UNCHANGED string_
  <2>1. Top.child \in Nodes
    <3>1. stack # <<>> /\ Top.child # Null
      BY <1>1 DEF delete_child
    <3> QED
      BY <3>1, TopType DEF IInv, NodeOrNull
  <2>2. unlink(Top.child) /\ UNCHANGED tag
    BY <1>1 DEF delete_child
  <2>3. StringsOwned' /\ strings' \in Int
    BY <1>1, <2>1, <2>2, UnlinkOwned
  <2>4. string_' \in [Nodes -> Keys \cup {Null}] /\ FreeStringInv'
    BY <1>1, <2>2 DEF ValueInv, ValueTypeOK, FreeStringInv
  <2> QED
    BY <1>1, <2>3, <2>4
<1>2. CASE /\ delete_free
           /\ strings' = strings - (IF string_[Top.node] # Null THEN 1 ELSE 0)
           /\ string_' = [string_ EXCEPT ![Top.node] = Null]
  <2>1. Top.node \in Nodes
    <3>1. stack # <<>>
      BY <1>2 DEF delete_free
    <3> QED
      BY <3>1, TopType DEF IInv
  <2>2. PICK t \in Nodes : t = Top.node
    BY <2>1
  <2>3. string_ \in [Nodes -> Keys \cup {Null}] /\ strings \in Int
    BY DEF ValueInv, ValueTypeOK
  <2>4. string_' = [string_ EXCEPT ![t] = Null] /\ tag' = [tag EXCEPT ![t] = "free"]
    BY <1>2, <2>2 DEF delete_free
  <2>5. string_' \in [Nodes -> Keys \cup {Null}]
    BY <2>3, <2>4
  <2>6. FreeStringInv'
    BY <2>3, <2>4 DEF ValueInv, FreeStringInv, IInv, TypeOK
  <2>7. Cardinality(OwnedKeys') = Cardinality(OwnedKeys) + 0
    <3>1. OwnedKeys \in SUBSET Nodes /\ OwnedKeys' = OwnedKeys
      BY <1>2 DEF delete_free, OwnedKeys
    <3> QED
      BY <3>1, OwnersChange
  <2>8. OwnedStrings \in SUBSET Nodes
    BY DEF OwnedStrings
  <2>9. CASE string_[t] # Null
    <3>1. OwnedStrings' = OwnedStrings \ {t} /\ t \in OwnedStrings
      BY <2>3, <2>4, <2>9 DEF OwnedStrings
    <3>2. Cardinality(OwnedStrings') = Cardinality(OwnedStrings) + (-1)
      BY <2>8, <3>1, OwnersChange
    <3>3. strings' = strings + 0 + (-1)
      BY <1>2, <2>2, <2>3, <2>9
    <3>4. StringsOwned' /\ strings' \in Int
      BY <1>2, <2>7, <3>2, <3>3, CountOwned DEF ValueInv
    <3> QED
      BY <1>2, <2>5, <2>6, <3>4
  <2>10. CASE string_[t] = Null
    <3>1. OwnedStrings' = OwnedStrings
      BY <2>3, <2>4, <2>10 DEF OwnedStrings
    <3>2. Cardinality(OwnedStrings') = Cardinality(OwnedStrings) + 0
      BY <2>8, <3>1, OwnersChange
    <3>3. strings' = strings + 0 + 0
      BY <1>2, <2>2, <2>3, <2>10
    <3>4. StringsOwned' /\ strings' \in Int
      BY <1>2, <2>7, <3>2, <3>3, CountOwned DEF ValueInv
    <3> QED
      BY <1>2, <2>5, <2>6, <3>4
  <2> QED
    BY <2>9, <2>10
<1> QED
  BY <1>1, <1>2 DEF delete_on

\* json_append_member and json_prepend_member: the value has no key yet, and
\* gets a copy.
LEMMA CopyKeyOwned ==
  ASSUME IInv, ValueInv, UNCHANGED frames, copy_key
  PROVE /\ StringsOwned' /\ strings' \in Int /\ tag' = tag
<1> USE NodesAssumption
<1>1. PICK o \in Nodes, c \in Nodes, k \in Keys :
        json_append_member(o, k, c) \/ json_prepend_member(o, k, c)
  BY DEF copy_key
<1>2. /\ c \in Live /\ parent[c] = Null
      /\ key' = [key EXCEPT ![c] = k]
      /\ tag' = tag
  BY <1>1 DEF json_append_member, json_prepend_member, Insertable
<1>3. key[c] = Null
  BY <1>2 DEF IInv, Shape, RootInv
<1>4. OwnedKeys' = OwnedKeys \cup {c} /\ c \notin OwnedKeys
  BY <1>2, <1>3 DEF OwnedKeys, IInv, TypeOK
<1>5. OwnedKeys \in SUBSET Nodes /\ OwnedStrings \in SUBSET Nodes
  BY DEF OwnedKeys, OwnedStrings
<1>6. Cardinality(OwnedKeys') = Cardinality(OwnedKeys) + 1
  BY <1>4, <1>5, OwnersChange
<1>7. OwnedStrings' = OwnedStrings /\ strings' = strings + 1
  BY DEF copy_key, OwnedStrings
<1>8. Cardinality(OwnedStrings') = Cardinality(OwnedStrings) + 0
  BY <1>5, <1>7, OwnersChange
<1>9. strings' = strings + 1 + 0
  BY <1>7 DEF ValueInv, ValueTypeOK
<1> QED
  BY <1>2, <1>6, <1>8, <1>9, CountOwned DEF ValueInv

\* json_mkstring: memory that was free has no string.
LEMMA MkstringOwned ==
  ASSUME IInv, ValueInv, UNCHANGED frames, NEW n \in Nodes, NEW s \in Keys, json_mkstring(n, s)
  PROVE /\ StringsOwned' /\ strings' \in Int
        /\ string_' \in [Nodes -> Keys \cup {Null}] /\ FreeStringInv'
<1> USE NodesAssumption
<1>1. /\ tag[n] = "free" /\ tag' = [tag EXCEPT ![n] = "scalar"] /\ key' = key
      /\ string_' = [string_ EXCEPT ![n] = s] /\ strings' = strings + 1
  BY DEF json_mkstring, mknode, links
<1>2. string_ \in [Nodes -> Keys \cup {Null}] /\ string_[n] = Null /\ strings \in Int
  BY <1>1 DEF ValueInv, ValueTypeOK, FreeStringInv
<1>3. s # Null
  OBVIOUS
<1>4. OwnedStrings' = OwnedStrings \cup {n} /\ n \notin OwnedStrings
  BY <1>1, <1>2, <1>3 DEF OwnedStrings
<1>5. OwnedKeys \in SUBSET Nodes /\ OwnedStrings \in SUBSET Nodes /\ OwnedKeys' = OwnedKeys
  BY <1>1 DEF OwnedKeys, OwnedStrings
<1>6. /\ Cardinality(OwnedKeys') = Cardinality(OwnedKeys) + 0
      /\ Cardinality(OwnedStrings') = Cardinality(OwnedStrings) + 1
  BY <1>4, <1>5, OwnersChange
<1>7. strings' = strings + 0 + 1
  BY <1>1, <1>2
<1>8. string_' \in [Nodes -> Keys \cup {Null}] /\ FreeStringInv'
  BY <1>1, <1>2 DEF ValueInv, FreeStringInv, IInv, TypeOK
<1> QED
  BY <1>6, <1>7, <1>8, CountOwned DEF ValueInv

LEMMA CallsStep ==
  ASSUME IInv, IInv', ValueInv, calls
  PROVE ValueInv'
<1> USE DEF parserVars
<1>1. UNCHANGED parserVars /\ phase = "calls"
  BY DEF calls
<1>2. /\ StringsOwned' /\ strings' \in Int
      /\ string_' \in [Nodes -> Keys \cup {Null}] /\ FreeStringInv'
  <2>1. CASE without_string
    <3>1. key' = key /\ UNCHANGED stringVars
      BY <2>1 DEF without_string, mknode, json_append_element, json_prepend_element, links
    <3>2. \A m \in Nodes : tag'[m] = "free" => tag[m] = "free"
      <4>1. CASE \E n \in Nodes, t \in Tags : mknode(n, t)
        BY <4>1 DEF mknode, IInv, TypeOK
      <4>2. CASE \E p, c \in Nodes : json_append_element(p, c) \/ json_prepend_element(p, c)
        BY <4>2 DEF json_append_element, json_prepend_element
      <4> QED
        BY <2>1, <4>1, <4>2 DEF without_string
    <3>3. StringsOwned'
      BY <1>1, <3>1, SameStrings DEF ValueInv
    <3> QED
      BY <3>1, <3>2, <3>3 DEF ValueInv, ValueTypeOK, FreeStringInv, stringVars
  <2>2. CASE copy_key
    <3>1. StringsOwned' /\ strings' \in Int /\ tag' = tag
      BY <1>1, <2>2, CopyKeyOwned
    <3>2. string_' = string_
      BY <2>2 DEF copy_key
    <3> QED
      BY <3>1, <3>2 DEF ValueInv, ValueTypeOK, FreeStringInv
  <2>3. CASE remove_or_delete
    <3>1. PICK n \in Nodes : /\ json_remove_from_parent(n) \/ json_delete(n)
                             /\ strings' = strings - KeysFreed(n)
                             /\ UNCHANGED string_
      BY <2>3 DEF remove_or_delete
    <3>2. unlink(n) /\ tag' = tag
      BY <3>1 DEF json_remove_from_parent, json_delete
    <3>3. StringsOwned' /\ strings' \in Int
      BY <1>1, <3>1, <3>2, UnlinkOwned
    <3> QED
      BY <3>1, <3>2, <3>3 DEF ValueInv, ValueTypeOK, FreeStringInv
  <2>4. CASE delete_on
    BY <1>1, <2>4, DeleteOnOwned
  <2>5. CASE \E n \in Nodes, s \in Keys : json_mkstring(n, s)
    BY <1>1, <2>5, MkstringOwned
  <2> QED
    BY <2>1, <2>2, <2>3, <2>4, <2>5 DEF calls
<1>3. ValueTypeOK'
  BY <1>1, <1>2 DEF ValueInv, ValueTypeOK
<1>4. HandsInv' /\ PointInv' /\ EndInv'
  BY <1>1 DEF ValueInv, HandsInv, PointInv, EndInv
<1> QED
  BY <1>2, <1>3, <1>4 DEF ValueInv

LEMMA DecodeStep ==
  ASSUME IInv, ValueInv, json_decode
  PROVE ValueInv'
<1> USE DEF json_decode
<1>1. handles = {} /\ handles' = {}
  BY DEF IInv, RootsInv, vars
<1>2. ValueTypeOK'
  <2>1. <<>> \in Seq(Frame) /\ Null \in NodeOrNull /\ FALSE \in BOOLEAN /\ "value" \in Points
    BY DEF NodeOrNull, Points
  <2>2. phase' \in {"calls", "parse", "fail", "returned", "exit"}
    OBVIOUS
  <2> QED
    BY <2>1, <2>2, Zenon DEF ValueInv, ValueTypeOK, stringVars
<1>3. frames = <<>> /\ frames' = <<>>
  BY DEF ValueInv, EndInv
<1>4. HandsInv'
  BY <1>1, <1>3 DEF HandsInv, Rets, Held
<1>5. PointInv'
  BY <1>3 DEF PointInv, Idle, vars
<1>6. EndInv'
  BY DEF EndInv
<1>7. FreeStringInv'
  BY DEF ValueInv, FreeStringInv, stringVars, vars
<1>8. StringsOwned'
  BY <1>3, SameStrings DEF ValueInv, vars
<1> QED
  BY <1>2, <1>4, <1>5, <1>6, <1>7, <1>8 DEF ValueInv

\* Reading a space, or standing still.
LEMMA StillStep ==
  ASSUME ValueInv, UNCHANGED <<vars, phase, wanted, point, frames, value, ok, stringVars>>
  PROVE ValueInv'
<1>1. StringsOwned'
  BY SameStrings DEF ValueInv, vars
<1>2. ValueTypeOK' /\ FreeStringInv'
  BY DEF ValueInv, ValueTypeOK, FreeStringInv, stringVars, vars
<1>3. HandsInv'
  BY DEF ValueInv, HandsInv, Rets, Held, vars
<1>4. PointInv' /\ EndInv'
  BY DEF ValueInv, PointInv, EndInv, Idle, Inner, vars
<1> QED
  BY <1>1, <1>2, <1>3, <1>4 DEF ValueInv

LEMMA FailStep ==
  ASSUME ValueInv, phase = "parse", point # "append", Fail
  PROVE ValueInv'
<1> USE DEF Fail
<1>1. StringsOwned'
  BY SameStrings DEF ValueInv, vars
<1>2. ValueTypeOK' /\ FreeStringInv'
  BY DEF ValueInv, ValueTypeOK, FreeStringInv, stringVars, vars
<1>3. HandsInv'
  BY DEF ValueInv, HandsInv, Rets, Held, vars
<1>4. PointInv' /\ EndInv'
  BY DEF ValueInv, PointInv, EndInv
<1> QED
  BY <1>1, <1>2, <1>3, <1>4 DEF ValueInv

LEMMA OutOfMemoryStep ==
  ASSUME ValueInv, OutOfMemory
  PROVE ValueInv'
<1> USE DEF OutOfMemory
<1>1. StringsOwned'
  BY SameStrings DEF ValueInv, vars
<1>2. ValueTypeOK' /\ FreeStringInv'
  BY DEF ValueInv, ValueTypeOK, FreeStringInv, stringVars, vars
<1>3. HandsInv' /\ PointInv' /\ EndInv'
  BY DEF HandsInv, PointInv, EndInv
<1> QED
  BY <1>1, <1>2, <1>3 DEF ValueInv

\* A comma or a colon.
LEMMA MovesStep ==
  ASSUME ValueInv, phase = "parse",
         \/ point = "after" /\ Moves(IF Inner.kind = "array" THEN "value" ELSE "key")
         \/ point = "colon" /\ Moves("value")
  PROVE ValueInv'
<1> USE DEF Moves
<1>1. StringsOwned'
  BY SameStrings DEF ValueInv, vars
<1>2. ValueTypeOK' /\ FreeStringInv'
  BY DEF ValueInv, ValueTypeOK, FreeStringInv, stringVars, vars, Points
<1>3. HandsInv'
  BY DEF ValueInv, HandsInv, Rets, Held, vars
<1>4. frames # <<>>
  BY DEF ValueInv, PointInv
<1>5. Inner.kind \in Containers /\ Inner = frames[Len(frames)]
  BY <1>4, InnerType DEF ValueInv
<1>6. \A i \in DOMAIN frames : i = Len(frames) \/ i < Len(frames)
  BY FramesDomain DEF ValueInv
<1>7. PointInv'
  <2>1. Idle' /\ frames' # <<>> /\ point' \in {"value", "key"} /\ (point' = "key" => Inner'.kind = "object")
    BY <1>4, <1>5 DEF ValueInv, PointInv, Idle, vars, Inner, Containers
  <2>2. ASSUME wanted', NEW i \in DOMAIN frames'
        PROVE frames'[i].key # Null <=> /\ frames'[i].kind = "object"
                                        /\ i < Len(frames') \/ point' \in {"colon", "value", "append"}
    <3>1. frames[i].key # Null <=> /\ frames[i].kind = "object"
                                   /\ i < Len(frames) \/ point \in {"colon", "value", "append"}
      BY <2>2 DEF ValueInv, PointInv
    <3> QED
      BY <1>5, <1>6, <3>1
  <2> QED
    BY <2>1, <2>2 DEF PointInv
<1>8. EndInv'
  BY DEF ValueInv, EndInv
<1> QED
  BY <1>1, <1>2, <1>3, <1>7, <1>8 DEF ValueInv

LEMMA EndStep ==
  ASSUME ValueInv, phase = "parse", point = "end", parse_end("nul")
  PROVE ValueInv'
<1> USE DEF parse_end
<1>1. StringsOwned'
  BY SameStrings DEF ValueInv, vars
<1>2. ValueTypeOK' /\ FreeStringInv'
  BY DEF ValueInv, ValueTypeOK, FreeStringInv, stringVars, vars
<1>3. HandsInv' /\ PointInv'
  BY DEF HandsInv, PointInv
<1>4. frames = <<>> /\ Idle
  BY DEF ValueInv, PointInv
<1>5. ~wanted => handles = {}
  BY <1>4 DEF ValueInv, HandsInv, Rets, Held
<1>6. EndInv'
  BY <1>4, <1>5 DEF EndInv, Idle, vars
<1> QED
  BY <1>1, <1>2, <1>3, <1>6 DEF ValueInv

LEMMA ResumeStep ==
  ASSUME ValueInv, resume
  PROVE ValueInv'
<1> USE DEF resume
<1>1. frames = <<>> /\ frames' = <<>>
  BY DEF ValueInv, EndInv
<1>2. StringsOwned'
  BY <1>1, SameStrings DEF ValueInv, vars
<1>3. ValueTypeOK'
  <2>1. <<>> \in Seq(Frame) /\ Null \in NodeOrNull /\ FALSE \in BOOLEAN /\ "value" \in Points
    BY DEF NodeOrNull, Points
  <2>2. phase' \in {"calls", "parse", "fail", "returned", "exit"}
    OBVIOUS
  <2> QED
    BY <2>1, <2>2, Zenon DEF ValueInv, ValueTypeOK, stringVars
<1>4. FreeStringInv'
  BY DEF ValueInv, FreeStringInv, stringVars, vars
<1>5. HandsInv' /\ PointInv' /\ EndInv'
  BY DEF HandsInv, PointInv, EndInv
<1> QED
  BY <1>2, <1>3, <1>4, <1>5 DEF ValueInv

\* json_delete frees no container that is still being filled.
LEMMA DeletingStep ==
  ASSUME IInv, ValueInv, deleting
  PROVE ValueInv'
<1> USE NodesAssumption DEF deleting, parserVars
<1>0. UNCHANGED frames
  OBVIOUS
<1>1. StringsOwned' /\ strings' \in Int
  BY <1>0, DeleteOnOwned
<1>2. string_' \in [Nodes -> Keys \cup {Null}] /\ FreeStringInv'
  BY <1>0, DeleteOnOwned
<1>3. ValueTypeOK'
  BY <1>1, <1>2 DEF ValueInv, ValueTypeOK
<1>a. delete_child \/ delete_free
  BY <1>0, DeleteOnOwned
<1>4. handles' = handles
  BY <1>a DEF delete_child, delete_free
<1>5. \A n \in handles : tag'[n] = tag[n]
  <2>1. CASE delete_child
    BY <2>1 DEF delete_child
  <2>2. CASE delete_free
    <3>1. Len(stack) \in DOMAIN stack /\ Top.node \in Nodes
      BY <2>2, TopType DEF delete_free, IInv
    <3>2. Top.node \notin handles
      BY <3>1 DEF IInv, StackInv, Top
    <3> QED
      BY <2>2, <3>2 DEF delete_free, IInv, TypeOK
  <2> QED
    BY <1>a, <2>1, <2>2
<1>6. HandsInv'
  <2>1. \A i \in DOMAIN frames : wanted => frames[i].ret \in handles
    BY DEF ValueInv, HandsInv, Rets
  <2> QED
    BY <1>4, <1>5, <2>1 DEF ValueInv, HandsInv, Rets, Held
<1>7. PointInv' /\ EndInv'
  BY DEF ValueInv, PointInv, EndInv
<1> QED
  BY <1>1, <1>2, <1>3, <1>6, <1>7 DEF ValueInv

\* A root keeps its key when it is deleted: it has none.
LEMMA DeleteRoot ==
  ASSUME IInv, NEW n \in handles, json_delete(n)
  PROVE key' = key /\ handles' = handles \ {n} /\ tag' = tag /\ KeysFreed(n) = 0
<1>1. parent[n] = Null
  BY DEF IInv, RootsInv
<1> QED
  BY <1>1 DEF json_delete, unlink, links, KeysFreed

LEMMA DecodeFailedStep ==
  ASSUME IInv, ValueInv, decode_failed
  PROVE ValueInv'
<1> USE NodesAssumption
<1>1. /\ phase = "fail" /\ Idle /\ frames = <<>>
      /\ UNCHANGED <<wanted, text, point, frames, ok, string_>>
  BY DEF decode_failed
<1>2. handles = Held /\ ~ok /\ point # "append"
  <2>1. Rets = {}
    BY <1>1 DEF Rets
  <2>2. handles = Rets \cup Held
    BY <1>1 DEF ValueInv, HandsInv
  <2> QED
    BY <1>1, <2>1, <2>2 DEF ValueInv, EndInv
<1>3. CASE point = "end" /\ value # Null
  <2>1. /\ json_delete(value) /\ value' = Null /\ phase' = phase
        /\ strings' = strings - KeysFreed(value)
    BY <1>3 DEF decode_failed
  <2>2. value \in handles
    BY <1>2, <1>3 DEF Held
  <2>3. /\ key' = key /\ handles' = handles \ {value} /\ tag' = tag
        /\ strings' = strings
    BY <2>1, <2>2, DeleteRoot DEF ValueInv, ValueTypeOK
  <2>4. handles' = {}
    BY <1>2, <2>3 DEF Held
  <2>5. StringsOwned'
    BY <1>1, <2>3, SameStrings DEF ValueInv, stringVars
  <2>6. ValueTypeOK' /\ FreeStringInv'
    BY <1>1, <2>1, <2>3 DEF ValueInv, ValueTypeOK, FreeStringInv, stringVars, NodeOrNull
  <2>7. HandsInv'
    BY <1>1, <2>1, <2>4 DEF HandsInv, Rets, Held
  <2>8. PointInv' /\ EndInv'
    BY <1>1, <2>1 DEF ValueInv, PointInv, EndInv
  <2> QED
    BY <2>5, <2>6, <2>7, <2>8 DEF ValueInv
<1>4. CASE ~(point = "end" /\ value # Null)
  <2>1. phase' = "returned" /\ UNCHANGED <<vars, value, strings>>
    BY <1>4 DEF decode_failed
  <2>2. handles = {}
    BY <1>2, <1>4 DEF Held
  <2>3. StringsOwned'
    BY <1>1, <2>1, SameStrings DEF ValueInv, vars, stringVars
  <2>4. ValueTypeOK' /\ FreeStringInv'
    BY <1>1, <2>1 DEF ValueInv, ValueTypeOK, FreeStringInv, stringVars, vars
  <2>5. HandsInv' /\ PointInv'
    BY <2>1 DEF HandsInv, PointInv
  <2>6. EndInv'
    BY <1>1, <1>2, <2>1, <2>2 DEF EndInv, Idle, vars
  <2> QED
    BY <2>3, <2>4, <2>5, <2>6 DEF ValueInv
<1> QED
  BY <1>3, <1>4

\* The innermost call returns: its key no longer counts.
LEMMA PopWaiting ==
  ASSUME ValueTypeOK, frames # <<>>, frames' = Outer
  PROVE /\ WaitingKeys' = WaitingKeys \ {Len(frames)}
        /\ Len(frames) \in WaitingKeys <=> Inner.key # Null
<1>1. Len(frames) \in Nat /\ DOMAIN frames = 1..Len(frames) /\ Len(frames) \in DOMAIN frames
  BY FramesDomain, InnerType
<1>2. DOMAIN frames' = 1..(Len(frames) - 1) /\ \A i \in 1..(Len(frames) - 1) : frames'[i] = frames[i]
  BY OuterIs
<1>3. PICK l : l = Len(frames)
  OBVIOUS
<1>4. \A i : i \in 1..(l - 1) <=> i \in 1..l /\ i # l
  BY <1>1, <1>3
<1> QED
  BY <1>1, <1>2, <1>3, <1>4 DEF WaitingKeys, Inner

\* It gives up its container, and nothing else of what the calls have.
LEMMA PopRets ==
  ASSUME ValueInv, phase \in {"parse", "fail"}, frames # <<>>, frames' = Outer
  PROVE /\ Rets' = Rets \ {Inner.ret}
        /\ Inner.ret # Null <=> wanted
        /\ wanted => Inner.ret \in Rets
<1> USE NodesAssumption
<1>0. PICK l : l = Len(frames)
  OBVIOUS
<1>1. l \in Nat /\ DOMAIN frames = 1..l /\ l \in DOMAIN frames
      /\ Inner = frames[l]
  BY <1>0, FramesDomain, InnerType DEF ValueInv
<1>2. DOMAIN frames' = 1..(l - 1) /\ \A i \in 1..(l - 1) : frames'[i] = frames[i]
  BY <1>0, OuterIs DEF ValueInv
<1>3. (wanted <=> Inner.ret # Null) /\ (wanted => Inner.ret \in Rets)
  BY <1>1 DEF ValueInv, HandsInv, Rets
<1>4. \A i \in 1..(l - 1) : i \in DOMAIN frames /\ i # l
  BY <1>1
<1>5. \A i \in DOMAIN frames : i # l => i \in 1..(l - 1)
  BY <1>1
<1>6. ASSUME NEW x \in Rets'
      PROVE x \in Rets \ {Inner.ret}
  <2>1. PICK i \in 1..(l - 1) : x = frames[i].ret /\ x # Null
    BY <1>2, <1>6 DEF Rets
  <2>2. x \in Rets
    BY <1>4, <2>1 DEF Rets
  <2>3. wanted
    BY <1>4, <2>1 DEF ValueInv, HandsInv
  <2>4. x # Inner.ret
    BY <1>1, <1>4, <2>1, <2>3 DEF ValueInv, HandsInv
  <2> QED
    BY <2>2, <2>4
<1>7. ASSUME NEW x \in Rets \ {Inner.ret}
      PROVE x \in Rets'
  <2>1. PICK i \in DOMAIN frames : x = frames[i].ret /\ x # Null
    BY <1>7 DEF Rets
  <2>2. i \in 1..(l - 1)
    BY <1>1, <1>5, <1>7, <2>1
  <2> QED
    BY <1>2, <2>1, <2>2 DEF Rets
<1>8. Rets' = Rets \ {Inner.ret}
  BY <1>6, <1>7
<1> QED
  BY <1>3, <1>8

LEMMA FailureStep ==
  ASSUME IInv, ValueInv, failure
  PROVE ValueInv'
<1> USE NodesAssumption
<1>1. /\ phase = "fail" /\ Idle /\ frames # <<>> /\ frames' = Outer
      /\ UNCHANGED <<phase, wanted, text, point, value, ok, string_>>
      /\ strings' = strings - (IF Inner.key # Null THEN 1 ELSE 0) - KeysFreed(Inner.ret)
  BY DEF failure
<1>2. ValueTypeOK
  BY DEF ValueInv
<1>3. point # "append" /\ point # "end" /\ Held = {} /\ Held' = {}
  BY <1>1 DEF ValueInv, EndInv, Held
<1>4. /\ Rets' = Rets \ {Inner.ret}
      /\ Inner.ret # Null <=> wanted
      /\ wanted => Inner.ret \in Rets
  BY <1>1, PopRets
<1>5. handles = Rets
  BY <1>1, <1>3 DEF ValueInv, HandsInv
<1>6. /\ key' = key /\ handles' = handles \ {Inner.ret} /\ tag' = tag
      /\ KeysFreed(Inner.ret) = 0
  <2>1. CASE Inner.ret # Null
    BY <1>4, <1>5, <2>1, DeleteRoot DEF failure
  <2>2. CASE Inner.ret = Null
    <3>1. Null \notin handles
      BY <1>5 DEF Rets
    <3> QED
      BY <2>2, <3>1 DEF failure, vars, KeysFreed
  <2> QED
    BY <2>1, <2>2
<1>7. /\ WaitingKeys' = WaitingKeys \ {Len(frames)}
      /\ Len(frames) \in WaitingKeys <=> Inner.key # Null
  BY <1>1, <1>2, PopWaiting
<1>8. StringsOwned'
  <2>1. OwnedKeys' = OwnedKeys /\ OwnedStrings' = OwnedStrings
    BY <1>1, <1>6 DEF OwnedKeys, OwnedStrings
  <2>2. OwnedKeys \in SUBSET Nodes /\ OwnedStrings \in SUBSET Nodes
    BY DEF OwnedKeys, OwnedStrings
  <2>3. Cardinality(OwnedKeys) \in Nat /\ Cardinality(OwnedStrings) \in Nat
    BY <2>2, NodesCount
  <2>4. IsFiniteSet(WaitingKeys) /\ Cardinality(WaitingKeys) \in Nat
    BY <1>2, WaitingCount
  <2>5. Cardinality(WaitingKeys') = Cardinality(WaitingKeys) - (IF Inner.key # Null THEN 1 ELSE 0)
    <3>1. CASE Inner.key # Null
      BY <1>7, <2>4, <3>1, OneLess
    <3>2. CASE Inner.key = Null
      <4>1. WaitingKeys' = WaitingKeys
        BY <1>7, <3>2
      <4> QED
        BY <2>4, <3>2, <4>1
    <3> QED
      BY <3>1, <3>2
  <2>6. strings = Cardinality(OwnedKeys) + Cardinality(OwnedStrings) + Cardinality(WaitingKeys)
    BY StringsOwnedIs DEF ValueInv
  <2> QED
    BY <1>1, <1>6, <2>1, <2>3, <2>4, <2>5, <2>6, StringsOwnedAfter
<1>9. ValueTypeOK'
  <2>1. Outer \in Seq(Frame)
    BY <1>1, <1>2, OuterIs
  <2>2. strings' \in Int
    BY <1>1, <1>2, <1>6 DEF ValueTypeOK
  <2> QED
    BY <1>1, <1>2, <2>1, <2>2 DEF ValueTypeOK
<1>10. FreeStringInv'
  BY <1>1, <1>6 DEF ValueInv, FreeStringInv
<1>11. HandsInv'
  <2>1. handles' = Rets' \cup Held' /\ Rets' \cap Held' = {}
    BY <1>3, <1>4, <1>5, <1>6
  <2>2. \A i \in DOMAIN frames' : i \in DOMAIN frames /\ frames'[i] = frames[i]
    <3>1. \A i \in 1..(Len(frames) - 1) : i \in 1..Len(frames)
      BY <1>2, FramesDomain
    <3> QED
      BY <1>1, <1>2, <3>1, OuterIs, FramesDomain
  <2> QED
    BY <1>1, <1>6, <2>1, <2>2 DEF ValueInv, HandsInv
<1>12. PointInv' /\ EndInv'
  BY <1>1, <1>3 DEF ValueInv, PointInv, EndInv
<1> QED
  BY <1>8, <1>9, <1>10, <1>11, <1>12 DEF ValueInv

\* A closing bracket hands the container over to the call around it.
LEMMA CloseStep ==
  ASSUME ValueInv, phase = "parse", point \in {"first", "after"}, Close
  PROVE ValueInv'
<1> USE NodesAssumption
<1>1. /\ frames' = Outer /\ value' = Inner.ret
      /\ point' = IF Outer = <<>> THEN "end" ELSE "append"
      /\ UNCHANGED <<vars, phase, wanted, ok, stringVars>>
  BY DEF Close, Parsed
<1>2. ValueTypeOK /\ frames # <<>> /\ Idle
  BY DEF ValueInv, PointInv
<1>3. /\ Rets' = Rets \ {Inner.ret}
      /\ Inner.ret # Null <=> wanted
      /\ wanted => Inner.ret \in Rets
  BY <1>1, <1>2, PopRets
<1>4. handles = Rets /\ Held = {}
  BY DEF ValueInv, HandsInv, Held
<1>5. Held' = {Inner.ret} \ {Null}
  BY <1>1 DEF Held
<1>6. PICK l : l = Len(frames)
  OBVIOUS
<1>7. /\ l \in Nat /\ l \in DOMAIN frames /\ DOMAIN frames = 1..l /\ Inner = frames[l]
      /\ Inner.ret \in NodeOrNull
  BY <1>2, <1>6, FramesDomain, InnerType
<1>8. /\ DOMAIN frames' = 1..(l - 1) /\ Len(frames') = l - 1
      /\ \A i \in 1..(l - 1) : i \in DOMAIN frames /\ i < l /\ frames'[i] = frames[i]
      /\ frames' = <<>> <=> l = 1
      /\ frames' \in Seq(Frame)
  <2>1. \A i \in 1..(l - 1) : i \in 1..l /\ i < l
    BY <1>7
  <2> QED
    BY <1>1, <1>2, <1>6, <1>7, <2>1, OuterIs
<1>9. Inner.key = Null
  <2>1. wanted => (Inner.key # Null <=> FALSE)
    <3>1. ~(l < Len(frames))
      BY <1>6, <1>7
    <3> QED
      BY <1>7, <3>1 DEF ValueInv, PointInv
  <2>2. ~wanted => Inner.key = Null
    BY <1>7 DEF ValueInv, HandsInv
  <2> QED
    BY <2>1, <2>2
<1>10. StringsOwned'
  <2>1. WaitingKeys' = WaitingKeys
    BY <1>1, <1>2, <1>9, PopWaiting
  <2>2. OwnedKeys' = OwnedKeys /\ OwnedStrings' = OwnedStrings /\ strings' = strings
    BY <1>1 DEF OwnedKeys, OwnedStrings, vars, stringVars
  <2> QED
    BY <2>1, <2>2, StringsOwnedIs, StringsOwnedAfter DEF ValueInv
<1>11. ValueTypeOK'
  BY <1>1, <1>2, <1>7, <1>8 DEF ValueTypeOK, Points, stringVars
<1>12. FreeStringInv'
  BY <1>1 DEF ValueInv, FreeStringInv, vars, stringVars
<1>13. HandsInv'
  <2>1. handles' = Rets' \cup Held' /\ Rets' \cap Held' = {}
    <3>1. handles' = handles /\ Null \notin Rets
      BY <1>1 DEF vars, Rets
    <3> QED
      BY <1>3, <1>4, <1>5, <3>1
  <2>2. ~wanted' => value' = Null
    BY <1>1, <1>3
  <2> QED
    BY <1>1, <1>8, <2>1, <2>2 DEF ValueInv, HandsInv, vars
<1>14. PointInv'
  <2>1. Idle' /\ point' \in {"end", "append"} /\ (point' = "end" <=> frames' = <<>>)
    BY <1>1, <1>2 DEF Idle, vars
  <2>2. wanted' => value' # Null
    BY <1>1, <1>3
  <2>3. ASSUME wanted', NEW i \in DOMAIN frames'
        PROVE frames'[i].key # Null <=> /\ frames'[i].kind = "object"
                                        /\ i < Len(frames') \/ point' \in {"colon", "value", "append"}
    <3>1. wanted /\ i \in DOMAIN frames /\ i < Len(frames) /\ frames'[i] = frames[i]
      BY <1>1, <1>6, <1>8, <2>3
    <3>2. frames[i].key # Null <=> frames[i].kind = "object"
      BY <3>1 DEF ValueInv, PointInv
    <3>3. point' = "append"
      BY <1>8, <2>1, <2>3
    <3> QED
      BY <3>1, <3>2, <3>3
  <2> QED
    BY <1>1, <2>1, <2>2, <2>3 DEF PointInv
<1>15. EndInv'
  BY <1>1 DEF ValueInv, EndInv
<1> QED
  BY <1>10, <1>11, <1>12, <1>13, <1>14, <1>15 DEF ValueInv

\* A key waits in the call of parse_object that has read it.
LEMMA KeyStep ==
  ASSUME ValueInv, phase = "parse", AtKey, NEW c \in Keys, parse_key(c)
  PROVE ValueInv'
<1> USE NodesAssumption
<1>1. /\ frames' = IF wanted THEN [frames EXCEPT ![Len(frames)].key = c] ELSE frames
      /\ strings' = strings + (IF wanted THEN 1 ELSE 0)
      /\ point' = "colon"
      /\ UNCHANGED <<vars, phase, wanted, value, ok, string_>>
  BY DEF parse_key
<1>2. ValueTypeOK /\ frames # <<>> /\ Idle /\ point \in {"first", "key"}
  BY DEF ValueInv, PointInv, AtKey
<1>3. PICK l : l = Len(frames)
  OBVIOUS
<1>4. l \in Nat /\ l \in DOMAIN frames /\ DOMAIN frames = 1..l /\ Inner = frames[l]
  BY <1>2, <1>3, FramesDomain, InnerType
<1>5. frames[l].kind = "object" /\ frames[l].key = Null
  <2>1. Inner.kind = "object"
    BY <1>2, InnerType DEF ValueInv, PointInv, AtKey, Containers
  <2>2. wanted => (frames[l].key # Null <=> FALSE)
    <3>1. ~(l < Len(frames))
      BY <1>3, <1>4
    <3> QED
      BY <1>2, <1>4, <3>1 DEF ValueInv, PointInv
  <2>3. ~wanted => frames[l].key = Null
    BY <1>4 DEF ValueInv, HandsInv
  <2> QED
    BY <1>4, <2>1, <2>2, <2>3
<1>6. /\ frames' \in Seq(Frame) /\ Len(frames') = l /\ DOMAIN frames' = DOMAIN frames
      /\ \A i \in DOMAIN frames :
           /\ frames'[i].kind = frames[i].kind /\ frames'[i].ret = frames[i].ret
           /\ frames'[i].key = IF i = l /\ wanted THEN c ELSE frames[i].key
  <2>1. CASE wanted
    <3>1. frames' = [frames EXCEPT ![Len(frames)].key = c]
      BY <1>1, <2>1
    <3>2. c \in Keys \cup {Null}
      OBVIOUS
    <3> QED
      BY <1>2, <1>3, <2>1, <3>1, <3>2, SetKeyIs
  <2>2. CASE ~wanted
    BY <1>1, <1>2, <1>3, <2>2 DEF ValueTypeOK
  <2> QED
    BY <2>1, <2>2
<1>7. ValueTypeOK'
  <2>1. strings' \in Int
    BY <1>1, <1>2 DEF ValueTypeOK
  <2> QED
    BY <1>1, <1>2, <1>6, <2>1 DEF ValueTypeOK, Points
<1>8. Rets' = Rets /\ Held' = Held
  BY <1>1, <1>2, <1>6 DEF Rets, Held
<1>9. HandsInv'
  BY <1>1, <1>6, <1>8 DEF ValueInv, HandsInv, vars
<1>10. PointInv'
  <2>1. Idle' /\ frames' # <<>> /\ Inner'.kind = "object"
    <3>1. Inner' = frames'[l]
      BY <1>6 DEF Inner
    <3>2. frames' # <<>>
      BY <1>4, <1>6
    <3> QED
      BY <1>1, <1>2, <1>4, <1>5, <1>6, <3>1, <3>2 DEF Idle, vars
  <2>2. ASSUME wanted', NEW i \in DOMAIN frames'
        PROVE frames'[i].key # Null <=> /\ frames'[i].kind = "object"
                                        /\ i < Len(frames') \/ point' \in {"colon", "value", "append"}
    <3>1. wanted /\ i \in DOMAIN frames
      BY <1>1, <1>6, <2>2
    <3>2. CASE i = l
      BY <1>1, <1>5, <1>6, <3>1, <3>2
    <3>3. CASE i # l
      <4>1. i < Len(frames)
        BY <1>3, <1>4, <3>1, <3>3
      <4>2. frames[i].key # Null <=> frames[i].kind = "object"
        BY <3>1, <4>1 DEF ValueInv, PointInv
      <4> QED
        BY <1>1, <1>6, <3>1, <3>3, <4>2
    <3> QED
      BY <3>2, <3>3
  <2> QED
    BY <1>1, <2>1, <2>2 DEF PointInv
<1>11. EndInv' /\ FreeStringInv'
  BY <1>1 DEF ValueInv, EndInv, FreeStringInv, vars
<1>12. StringsOwned'
  <2>1. OwnedKeys' = OwnedKeys /\ OwnedStrings' = OwnedStrings
    BY <1>1 DEF OwnedKeys, OwnedStrings, vars
  <2>2. OwnedKeys \in SUBSET Nodes /\ OwnedStrings \in SUBSET Nodes
    BY DEF OwnedKeys, OwnedStrings
  <2>3. Cardinality(OwnedKeys) \in Nat /\ Cardinality(OwnedStrings) \in Nat
    BY <2>2, NodesCount
  <2>4. IsFiniteSet(WaitingKeys) /\ Cardinality(WaitingKeys) \in Nat
    BY <1>2, WaitingCount
  <2>5. Cardinality(WaitingKeys') = Cardinality(WaitingKeys) + (IF wanted THEN 1 ELSE 0)
    <3>1. CASE wanted
      <4>1. WaitingKeys' = WaitingKeys \cup {l} /\ l \notin WaitingKeys
        BY <1>4, <1>5, <1>6, <3>1 DEF WaitingKeys
      <4> QED
        BY <2>4, <3>1, <4>1, OneMore
    <3>2. CASE ~wanted
      <4>1. WaitingKeys' = WaitingKeys
        BY <1>1, <3>2 DEF WaitingKeys
      <4> QED
        BY <2>4, <3>2, <4>1
    <3> QED
      BY <3>1, <3>2
  <2>6. strings = Cardinality(OwnedKeys) + Cardinality(OwnedStrings) + Cardinality(WaitingKeys)
    BY StringsOwnedIs DEF ValueInv
  <2> QED
    BY <1>1, <2>1, <2>3, <2>4, <2>5, <2>6, StringsOwnedAfter
<1> QED
  BY <1>7, <1>9, <1>10, <1>11, <1>12 DEF ValueInv

\* The call that adds the value parsed last gives its key away with it.
LEMMA AppendParsedStep ==
  ASSUME IInv, ValueInv, append_parsed
  PROVE ValueInv'
<1> USE NodesAssumption
<1>1. /\ phase = "parse" /\ point = "append" /\ point' = "after"
      /\ UNCHANGED <<phase, wanted, text, value, ok, stringVars>>
  BY DEF append_parsed
<1>2. ValueTypeOK /\ frames # <<>> /\ Idle
  BY <1>1 DEF ValueInv, PointInv
<1>3. PICK l : l = Len(frames)
  OBVIOUS
<1>4. l \in Nat /\ l \in DOMAIN frames /\ DOMAIN frames = 1..l /\ Inner = frames[l]
      /\ Inner.key \in Keys \cup {Null}
  BY <1>2, <1>3, FramesDomain, InnerType
<1>5. /\ frames' \in Seq(Frame) /\ Len(frames') = l /\ DOMAIN frames' = DOMAIN frames
      /\ \A i \in DOMAIN frames :
           /\ frames'[i].kind = frames[i].kind /\ frames'[i].ret = frames[i].ret
           /\ frames'[i].key = IF i = l /\ wanted THEN Null ELSE frames[i].key
  <2>1. CASE wanted
    <3>1. frames' = [frames EXCEPT ![Len(frames)].key = Null]
      BY <2>1 DEF append_parsed
    <3>2. Null \in Keys \cup {Null}
      OBVIOUS
    <3> QED
      BY <1>2, <1>3, <2>1, <3>1, <3>2, SetKeyIs
  <2>2. CASE ~wanted
    BY <1>2, <1>3, <2>2 DEF append_parsed, ValueTypeOK
  <2> QED
    BY <2>1, <2>2
<1>6. tag' = tag /\ stack' = stack
  BY DEF append_parsed, vars
<1>7. Rets' = Rets /\ Held' = {}
  BY <1>1, <1>5 DEF Rets, Held
<1>8. handles' = handles \ Held
  <2>1. CASE wanted
    <3>1. Held = {value} /\ handles' = handles \ {value}
      BY <1>1, <2>1, ParsedInsertable DEF Held, append_parsed
    <3> QED
      BY <3>1
  <2>2. CASE ~wanted
    BY <1>1, <2>2 DEF append_parsed, vars, ValueInv, HandsInv, Held
  <2> QED
    BY <2>1, <2>2
<1>9. handles = Rets \cup Held /\ Rets \cap Held = {}
  BY <1>1 DEF ValueInv, HandsInv
<1>10. ValueTypeOK'
  BY <1>1, <1>2, <1>5 DEF ValueTypeOK, Points, stringVars
<1>11. HandsInv'
  <2>1. handles' = Rets' \cup Held' /\ Rets' \cap Held' = {}
    BY <1>7, <1>8, <1>9
  <2> QED
    BY <1>1, <1>5, <1>6, <2>1 DEF ValueInv, HandsInv
<1>12. PointInv'
  <2>1. Idle' /\ frames' # <<>>
    BY <1>2, <1>4, <1>5, <1>6 DEF Idle
  <2>2. ASSUME wanted', NEW i \in DOMAIN frames'
        PROVE frames'[i].key # Null <=> /\ frames'[i].kind = "object"
                                        /\ i < Len(frames') \/ point' \in {"colon", "value", "append"}
    <3>1. wanted /\ i \in DOMAIN frames
      BY <1>1, <1>5, <2>2
    <3>2. CASE i = l
      BY <1>1, <1>4, <1>5, <3>1, <3>2
    <3>3. CASE i # l
      <4>1. i < Len(frames) /\ i < Len(frames')
        BY <1>3, <1>4, <1>5, <3>1, <3>3
      <4>2. frames[i].key # Null <=> frames[i].kind = "object"
        BY <1>1, <3>1, <4>1 DEF ValueInv, PointInv
      <4> QED
        BY <1>5, <3>1, <3>3, <4>1, <4>2
    <3> QED
      BY <3>2, <3>3
  <2> QED
    BY <1>1, <2>1, <2>2 DEF PointInv
<1>13. EndInv' /\ FreeStringInv'
  BY <1>1, <1>6 DEF ValueInv, EndInv, FreeStringInv, stringVars
<1>14. StringsOwned'
  <2>1. OwnedStrings' = OwnedStrings /\ strings' = strings
    BY <1>1 DEF OwnedStrings, stringVars
  <2>2. OwnedKeys \in SUBSET Nodes /\ OwnedStrings \in SUBSET Nodes
    BY DEF OwnedKeys, OwnedStrings
  <2>3. IsFiniteSet(OwnedKeys) /\ Cardinality(OwnedKeys) \in Nat /\ Cardinality(OwnedStrings) \in Nat
    BY <2>2, NodesCount
  <2>4. IsFiniteSet(WaitingKeys) /\ Cardinality(WaitingKeys) \in Nat
    BY <1>2, WaitingCount
  <2>5. strings = Cardinality(OwnedKeys) + Cardinality(OwnedStrings) + Cardinality(WaitingKeys)
    BY StringsOwnedIs DEF ValueInv
  <2>6. CASE ~wanted \/ Inner.key = Null
    <3>1. OwnedKeys' = OwnedKeys
      <4>1. CASE ~wanted
        BY <4>1 DEF append_parsed, vars, OwnedKeys
      <4>2. CASE wanted
        <5>1. key[value] = Null /\ value \in Nodes
          BY <1>1, <4>2, ParsedInsertable
        <5>2. key' = [key EXCEPT ![value] = Null]
          BY <2>6, <4>2 DEF append_parsed
        <5> QED
          BY <5>1, <5>2 DEF OwnedKeys, IInv, TypeOK
      <4> QED
        BY <4>1, <4>2
    <3>2. WaitingKeys' = WaitingKeys
      BY <1>4, <1>5, <2>6 DEF WaitingKeys
    <3> QED
      BY <2>1, <2>5, <3>1, <3>2, StringsOwnedAfter
  <2>7. CASE wanted /\ Inner.key # Null
    <3>1. OwnedKeys' = OwnedKeys \cup {value} /\ value \notin OwnedKeys
      <4>1. key[value] = Null /\ value \in Nodes
        BY <1>1, <2>7, ParsedInsertable
      <4>2. PICK k : k = Inner.key
        OBVIOUS
      <4>3. key' = [key EXCEPT ![value] = k] /\ k # Null
        BY <2>7, <4>2 DEF append_parsed
      <4> QED
        BY <4>1, <4>3 DEF OwnedKeys, IInv, TypeOK
    <3>2. WaitingKeys' = WaitingKeys \ {l} /\ l \in WaitingKeys
      BY <1>4, <1>5, <2>7 DEF WaitingKeys
    <3>3. Cardinality(OwnedKeys') = Cardinality(OwnedKeys) + 1
      BY <2>3, <3>1, OneMore
    <3>4. Cardinality(WaitingKeys') = Cardinality(WaitingKeys) - 1
      BY <2>4, <3>2, OneLess
    <3> QED
      BY <2>1, <2>3, <2>4, <2>5, <3>3, <3>4, StringsOwnedAfter
  <2> QED
    BY <2>6, <2>7
<1> QED
  BY <1>10, <1>11, <1>12, <1>13, <1>14 DEF ValueInv

\* Before a value is read, nothing but the containers is in hand.
LEMMA AtValueFacts ==
  ASSUME ValueInv, phase = "parse", AtValue
  PROVE /\ ValueTypeOK /\ Idle /\ Held = {} /\ handles = Rets
        /\ frames # <<>> <=> Len(frames) # 0
        /\ Len(frames) \in Nat /\ DOMAIN frames = 1..Len(frames)
        /\ wanted => \A i \in DOMAIN frames : frames[i].key # Null <=> frames[i].kind = "object"
<1>1. ValueTypeOK /\ Idle /\ point \in {"value", "first"}
  BY DEF ValueInv, PointInv, AtValue
<1>2. Held = {} /\ handles = Rets
  BY <1>1 DEF Held, ValueInv, HandsInv
<1>3. Len(frames) \in Nat /\ DOMAIN frames = 1..Len(frames) /\ (frames # <<>> <=> Len(frames) # 0)
  BY <1>1, FramesDomain
<1>4. ASSUME wanted, NEW i \in DOMAIN frames
      PROVE frames[i].key # Null <=> frames[i].kind = "object"
  <2>1. frames[i].key # Null <=> /\ frames[i].kind = "object"
                                 /\ i < Len(frames) \/ point \in {"colon", "value", "append"}
    BY <1>4 DEF ValueInv, PointInv
  <2>2. CASE point = "value"
    BY <2>1, <2>2
  <2>3. CASE point = "first"
    <3>1. Inner.kind = "array"
      BY <2>3 DEF AtValue
    <3>2. i = Len(frames) \/ i < Len(frames)
      BY <1>3
    <3> QED
      BY <2>1, <3>1, <3>2 DEF Inner
  <2> QED
    BY <1>1, <2>2, <2>3
<1> QED
  BY <1>1, <1>2, <1>3, <1>4

\* A new node is none of those that are in hand.
LEMMA NewNodeEffect ==
  ASSUME IInv, ValueInv, phase = "parse", NEW t, NEW n, NewNode(t, n)
  PROVE /\ wanted <=> n # Null
        /\ n \in NodeOrNull
        /\ handles' = handles \cup ({n} \ {Null})
        /\ n \notin handles
        /\ stack' = stack /\ key' = key
        /\ \A m \in Nodes : tag'[m] = IF m = n THEN t ELSE tag[m]
        /\ wanted => string_[n] = Null
<1> USE NodesAssumption
<1>1. CASE wanted
  <2>1. n \in Nodes /\ mknode(n, t)
    BY <1>1 DEF NewNode
  <2>2. tag[n] = "free" /\ n \notin handles
    BY <2>1 DEF mknode, IInv, RootsInv, Live
  <2>3. string_[n] = Null
    BY <2>1, <2>2 DEF ValueInv, FreeStringInv
  <2> QED
    BY <1>1, <2>1, <2>2, <2>3 DEF mknode, links, IInv, TypeOK, NodeOrNull
<1>2. CASE ~wanted
  <2>1. n = Null /\ UNCHANGED vars
    BY <1>2 DEF NewNode
  <2>2. Null \notin handles
    BY DEF IInv, TypeOK
  <2> QED
    BY <1>2, <2>1, <2>2 DEF vars, NodeOrNull
<1> QED
  BY <1>1, <1>2

LEMMA ScalarStep ==
  ASSUME IInv, ValueInv, phase = "parse", AtValue, NEW c, parse_scalar(c)
  PROVE ValueInv'
<1> USE NodesAssumption
<1>1. CASE OutOfMemory
  BY <1>1, OutOfMemoryStep
<1>2. ASSUME NEW n \in NodeOrNull,
             NewNode("scalar", n), value' = n, Parsed(frames),
             IF wanted /\ c \in Keys
             THEN string_' = [string_ EXCEPT ![n] = c] /\ strings' = strings + 1
             ELSE UNCHANGED stringVars,
             UNCHANGED <<phase, wanted, frames, ok>>
      PROVE ValueInv'
  <2>1. /\ ValueTypeOK /\ Idle /\ Held = {} /\ handles = Rets
        /\ frames # <<>> <=> Len(frames) # 0
        /\ Len(frames) \in Nat /\ DOMAIN frames = 1..Len(frames)
        /\ wanted => \A i \in DOMAIN frames : frames[i].key # Null <=> frames[i].kind = "object"
    BY AtValueFacts
  <2>2. /\ wanted <=> n # Null
        /\ handles' = handles \cup ({n} \ {Null})
        /\ n \notin handles
        /\ stack' = stack /\ key' = key
        /\ \A m \in Nodes : tag'[m] = IF m = n THEN "scalar" ELSE tag[m]
        /\ wanted => string_[n] = Null
    BY <1>2, NewNodeEffect
  <2>3. point' = IF frames = <<>> THEN "end" ELSE "append"
    BY <1>2 DEF Parsed
  <2>4. Held' = {n} \ {Null} /\ Rets' = Rets
    BY <1>2, <2>3 DEF Held, Rets
  <2>5. string_' \in [Nodes -> Keys \cup {Null}] /\ strings' \in Int
        /\ \A m \in Nodes : string_'[m] = IF wanted /\ c \in Keys /\ m = n THEN c ELSE string_[m]
    <3>1. CASE wanted /\ c \in Keys
      <4>1. n \in Nodes
        BY <2>2, <3>1 DEF NodeOrNull
      <4> QED
        BY <1>2, <2>1, <3>1, <4>1 DEF ValueTypeOK
    <3>2. CASE ~(wanted /\ c \in Keys)
      BY <1>2, <2>1, <3>2 DEF ValueTypeOK, stringVars
    <3> QED
      BY <3>1, <3>2
  <2>6. ValueTypeOK'
    BY <1>2, <2>1, <2>3, <2>5 DEF ValueTypeOK, Points
  <2>7. HandsInv'
    <3>1. handles' = Rets' \cup Held' /\ Rets' \cap Held' = {}
      BY <2>1, <2>2, <2>4
    <3>2. \A i \in DOMAIN frames : wanted => tag'[frames[i].ret] = tag[frames[i].ret]
      <4>1. \A i \in DOMAIN frames : wanted => frames[i].ret \in handles
        BY <2>1 DEF ValueInv, HandsInv, Rets
      <4>2. handles \subseteq Nodes
        BY DEF IInv, TypeOK
      <4> QED
        BY <2>2, <4>1, <4>2
    <3>3. ~wanted => value' = Null
      BY <1>2, <2>2
    <3> QED
      BY <1>2, <3>1, <3>2, <3>3 DEF ValueInv, HandsInv
  <2>8. PointInv'
    BY <1>2, <2>1, <2>2, <2>3 DEF PointInv, Idle
  <2>9. EndInv'
    BY <1>2 DEF ValueInv, EndInv
  <2>10. FreeStringInv'
    BY <2>2, <2>5 DEF ValueInv, FreeStringInv
  <2>11. StringsOwned'
    <3>1. OwnedKeys' = OwnedKeys /\ WaitingKeys' = WaitingKeys
      BY <1>2, <2>2 DEF OwnedKeys, WaitingKeys
    <3>2. OwnedKeys \in SUBSET Nodes /\ OwnedStrings \in SUBSET Nodes
      BY DEF OwnedKeys, OwnedStrings
    <3>3. /\ Cardinality(OwnedKeys) \in Nat
          /\ IsFiniteSet(OwnedStrings) /\ Cardinality(OwnedStrings) \in Nat
      BY <3>2, NodesCount
    <3>4. Cardinality(WaitingKeys) \in Nat
      BY <2>1, WaitingCount
    <3>5. strings = Cardinality(OwnedKeys) + Cardinality(OwnedStrings) + Cardinality(WaitingKeys)
      BY StringsOwnedIs DEF ValueInv
    <3>6. CASE wanted /\ c \in Keys
      <4>1. n \in Nodes /\ c # Null
        BY <2>2, <3>6 DEF NodeOrNull
      <4>2. OwnedStrings' = OwnedStrings \cup {n} /\ n \notin OwnedStrings
        BY <2>2, <2>5, <3>6, <4>1 DEF OwnedStrings
      <4>3. Cardinality(OwnedStrings') = Cardinality(OwnedStrings) + 1
        BY <3>3, <4>2, OneMore
      <4>4. strings' = strings + 1
        BY <1>2, <3>6
      <4> QED
        BY <3>1, <3>3, <3>4, <3>5, <4>3, <4>4, StringsOwnedAfter
    <3>7. CASE ~(wanted /\ c \in Keys)
      <4>1. OwnedStrings' = OwnedStrings /\ strings' = strings
        BY <1>2, <3>7 DEF OwnedStrings, stringVars
      <4> QED
        BY <3>1, <3>5, <4>1, StringsOwnedAfter
    <3> QED
      BY <3>6, <3>7
  <2> QED
    BY <2>6, <2>7, <2>8, <2>9, <2>10, <2>11 DEF ValueInv
<1> QED
  BY <1>1, <1>2, Zenon DEF parse_scalar

LEMMA OpenStep ==
  ASSUME IInv, ValueInv, phase = "parse", AtValue, NEW c, parse_open(c)
  PROVE ValueInv'
<1> USE NodesAssumption
<1>1. CASE OutOfMemory
  BY <1>1, OutOfMemoryStep
<1>2. ASSUME NEW n \in NodeOrNull, NewNode(Kind(c), n),
             frames' = Append(frames, [kind |-> Kind(c), ret |-> n, key |-> Null]),
             point' = "first", UNCHANGED <<phase, wanted, value, ok, stringVars>>
      PROVE ValueInv'
  <2>1. /\ ValueTypeOK /\ Idle /\ Held = {} /\ handles = Rets
        /\ frames # <<>> <=> Len(frames) # 0
        /\ Len(frames) \in Nat /\ DOMAIN frames = 1..Len(frames)
        /\ wanted => \A i \in DOMAIN frames : frames[i].key # Null <=> frames[i].kind = "object"
    BY AtValueFacts
  <2>2. PICK t : t = Kind(c)
    OBVIOUS
  <2>3. t \in Containers
    BY <2>2 DEF Kind, Containers
  <2>4. /\ wanted <=> n # Null
        /\ handles' = handles \cup ({n} \ {Null})
        /\ n \notin handles
        /\ stack' = stack /\ key' = key
        /\ \A m \in Nodes : tag'[m] = IF m = n THEN t ELSE tag[m]
    BY <1>2, <2>2, NewNodeEffect
  <2>5. PICK l : l = Len(frames)
    OBVIOUS
  <2>6. PICK f : f = [kind |-> t, ret |-> n, key |-> Null]
    OBVIOUS
  <2>7. f \in Frame /\ f.kind = t /\ f.ret = n /\ f.key = Null
    BY <2>3, <2>6 DEF Frame
  <2>8. frames' = Append(frames, f)
    BY <1>2, <2>2, <2>6
  <2>9. /\ l \in Nat /\ DOMAIN frames = 1..l
        /\ frames' \in Seq(Frame) /\ Len(frames') = l + 1 /\ DOMAIN frames' = 1..(l + 1)
        /\ frames'[l + 1] = f /\ \A i \in 1..l : frames'[i] = frames[i]
    BY <2>1, <2>5, <2>7, <2>8, PushIs
  <2>10. l + 1 \in 1..(l + 1) /\ \A i : i \in 1..(l + 1) <=> i \in 1..l \/ i = l + 1
    BY <2>9
  <2>11. Rets' = Rets \cup ({n} \ {Null}) /\ Held' = {}
    <3>1. Held' = {}
      BY <1>2 DEF Held
    <3>2. \A x : x \in Rets' <=> x \in Rets \/ (x = n /\ x # Null)
      BY <2>7, <2>9, <2>10 DEF Rets
    <3> QED
      BY <3>1, <3>2
  <2>12. ValueTypeOK'
    BY <1>2, <2>1, <2>9 DEF ValueTypeOK, Points, stringVars
  <2>13. HandsInv'
    <3>1. handles' = Rets' \cup Held' /\ Rets' \cap Held' = {}
      BY <2>1, <2>4, <2>11
    <3>2. \A i \in 1..l : wanted => frames[i].ret \in handles
      BY <2>1, <2>9 DEF ValueInv, HandsInv, Rets
    <3>3. ASSUME NEW i \in DOMAIN frames'
          PROVE /\ wanted' <=> frames'[i].ret # Null
                /\ wanted' => tag'[frames'[i].ret] = frames'[i].kind
                /\ ~wanted' => frames'[i].key = Null
      <4>1. CASE i = l + 1
        BY <1>2, <2>4, <2>7, <2>9, <4>1 DEF NodeOrNull
      <4>2. CASE i \in 1..l
        <5>1. wanted => frames[i].ret \in Nodes /\ frames[i].ret # n
          BY <2>4, <3>2, <4>2 DEF IInv, TypeOK
        <5> QED
          BY <1>2, <2>4, <2>9, <4>2, <5>1 DEF ValueInv, HandsInv
      <4> QED
        BY <2>9, <2>10, <4>1, <4>2
    <3>4. ASSUME wanted', NEW i \in DOMAIN frames', NEW j \in DOMAIN frames',
                 frames'[i].ret = frames'[j].ret
          PROVE i = j
      <4>1. wanted
        BY <1>2, <3>4
      <4>2. \A x \in 1..l : frames'[x].ret = frames[x].ret /\ frames[x].ret # n
        BY <2>4, <2>9, <3>2, <4>1
      <4>3. \A x, y \in 1..l : frames[x].ret = frames[y].ret => x = y
        BY <2>9, <4>1 DEF ValueInv, HandsInv
      <4> QED
        BY <2>7, <2>9, <2>10, <3>4, <4>2, <4>3
    <3>5. ~wanted' => value' = Null
      BY <1>2 DEF ValueInv, HandsInv
    <3> QED
      BY <3>1, <3>3, <3>4, <3>5 DEF HandsInv
  <2>14. PointInv'
    <3>1. Idle' /\ frames' # <<>>
      BY <2>1, <2>4, <2>9 DEF Idle
    <3>2. ASSUME wanted', NEW i \in DOMAIN frames'
          PROVE frames'[i].key # Null <=> /\ frames'[i].kind = "object"
                                          /\ i < Len(frames') \/ point' \in {"colon", "value", "append"}
      <4>1. CASE i = l + 1
        BY <1>2, <2>7, <2>9, <4>1
      <4>2. CASE i \in 1..l
        <5>1. i < Len(frames') /\ frames'[i] = frames[i] /\ wanted
          BY <1>2, <2>9, <3>2, <4>2
        <5> QED
          BY <2>1, <2>9, <4>2, <5>1
      <4> QED
        BY <2>9, <2>10, <4>1, <4>2
    <3> QED
      BY <1>2, <3>1, <3>2 DEF PointInv
  <2>15. EndInv'
    BY <1>2 DEF ValueInv, EndInv
  <2>16. FreeStringInv'
    <3>1. t # "free" /\ string_' = string_
      BY <1>2, <2>3 DEF Containers, stringVars
    <3>2. \A m \in Nodes : tag'[m] = "free" => tag[m] = "free"
      BY <2>4, <3>1
    <3> QED
      BY <3>1, <3>2 DEF ValueInv, FreeStringInv
  <2>17. StringsOwned'
    <3>1. WaitingKeys' = WaitingKeys
      BY <2>7, <2>9, <2>10 DEF WaitingKeys
    <3>2. OwnedKeys' = OwnedKeys /\ OwnedStrings' = OwnedStrings /\ strings' = strings
      BY <1>2, <2>4 DEF OwnedKeys, OwnedStrings, stringVars
    <3> QED
      BY <3>1, <3>2, StringsOwnedIs, StringsOwnedAfter DEF ValueInv
  <2> QED
    BY <2>12, <2>13, <2>14, <2>15, <2>16, <2>17 DEF ValueInv
<1> QED
  BY <1>1, <1>2, Zenon DEF parse_open

(***************************************************************************)
(* The inductive invariant and the theorems.                               *)
(***************************************************************************)

LEMMA ValueInitInvariant == ValueInit => IInv /\ ValueInv
<1> SUFFICES ASSUME ValueInit
             PROVE IInv /\ ValueInv
  OBVIOUS
<1> USE NodesAssumption
<1>1. IInv
  BY InitInvariant DEF ValueInit
<1>2. ValueTypeOK
  <2>1. string_ \in [Nodes -> Keys \cup {Null}]
    BY DEF ValueInit
  <2>2. frames \in Seq(Frame)
    BY DEF ValueInit
  <2>3. wanted \in BOOLEAN /\ ok \in BOOLEAN
    BY Zenon DEF ValueInit
  <2>4. strings \in Int /\ value \in NodeOrNull /\ point \in Points
    BY DEF ValueInit, Points, NodeOrNull
  <2>5. phase \in {"calls", "parse", "fail", "returned", "exit"}
    BY DEF ValueInit
  <2> QED
    BY <2>1, <2>2, <2>3, <2>4, <2>5 DEF ValueTypeOK
<1>3. HandsInv /\ PointInv /\ EndInv
  BY DEF ValueInit, HandsInv, PointInv, EndInv
<1>4. FreeStringInv
  BY DEF ValueInit, FreeStringInv
<1>5. StringsOwned
  <2>1. OwnedKeys = {} /\ OwnedStrings = {} /\ WaitingKeys = {}
    BY DEF ValueInit, Init, OwnedKeys, OwnedStrings, WaitingKeys
  <2>2. Cardinality({}) = 0
    BY FS_EmptySet
  <2> QED
    BY <2>1, <2>2, StringsOwnedIs DEF ValueInit
<1> QED
  BY <1>1, <1>2, <1>3, <1>4, <1>5 DEF ValueInv

LEMMA ValueNextInvariant == IInv /\ ValueInv /\ [ValueNext]_valueVars => IInv' /\ ValueInv'
<1> SUFFICES ASSUME IInv, ValueInv, [ValueNext]_valueVars
             PROVE IInv' /\ ValueInv'
  OBVIOUS
<1>1. IInv'
  BY StepIsNext, NextInvariant
<1>2. CASE calls
  BY <1>1, <1>2, CallsStep
<1>3. CASE json_decode
  BY <1>1, <1>3, DecodeStep
<1>4. CASE skip_space \/ exited \/ UNCHANGED valueVars
  BY <1>1, <1>4, StillStep DEF skip_space, exited, valueVars, parserVars
<1>5. CASE parse
  <2>1. /\ phase = "parse" /\ point # "append"
        /\ \/ \E c : AtValue /\ (parse_scalar(c) \/ parse_open(c))
           \/ \E c \in Keys : AtKey /\ parse_key(c)
           \/ point \in {"first", "after"} /\ Close
           \/ point = "after" /\ Moves(IF Inner.kind = "array" THEN "value" ELSE "key")
           \/ point = "colon" /\ Moves("value")
           \/ point = "end" /\ parse_end("nul")
           \/ Fail
    BY <1>5, ParseCases
  <2> QED
    BY <1>1, <2>1, ScalarStep, OpenStep, KeyStep, CloseStep, MovesStep, EndStep, FailStep
<1>6. CASE append_parsed
  BY <1>1, <1>6, AppendParsedStep
<1>7. CASE failure
  BY <1>1, <1>7, FailureStep
<1>8. CASE deleting
  BY <1>1, <1>8, DeletingStep
<1>9. CASE decode_failed
  BY <1>1, <1>9, DecodeFailedStep
<1>10. CASE resume
  BY <1>1, <1>10, ResumeStep
<1> QED
  BY <1>2, <1>3, <1>4, <1>5, <1>6, <1>7, <1>8, <1>9, <1>10 DEF ValueNext

LEMMA ValueInvariant == ValueSpec => [](IInv /\ ValueInv)
<1>1. ValueInit => IInv /\ ValueInv
  BY ValueInitInvariant
<1>2. IInv /\ ValueInv /\ [ValueNext]_valueVars => IInv' /\ ValueInv'
  BY ValueNextInvariant
<1> QED
  BY <1>1, <1>2, PTL DEF ValueSpec

\* json_decode and json_validate touch the tree only as callers of the
\* interface may: each step of parse_value, parse_array, parse_object and of
\* their failure paths is one of the tree operations of JsonTree, called as
\* their assertions demand, or leaves the tree alone.  So append_member never
\* gets a value that has a parent, or the container it is itself, and
\* json_delete never gets what is part of another tree.
THEOREM ParserUsesInterface == ValueSpec => Spec
<1>1. ValueInit => Init
  BY DEF ValueInit
<1>2. IInv /\ ValueInv /\ [ValueNext]_valueVars => [Next]_vars
  BY StepIsNext
<1> QED
  BY <1>1, <1>2, ValueInvariant, PTL DEF ValueSpec, Spec

\* What json_check asserts of a tree holds while callers and the parser build
\* and delete trees: a half-parsed tree passes it as well.
THEOREM ParsedTreesCheck == ValueSpec => []TreeChecks
BY ParserUsesInterface, CheckNeverFails, PTL

\* Neither the parser nor a json_delete it runs on what it gives up follows a
\* pointer to freed memory.
THEOREM ParserNoUseAfterFree == ValueSpec => []NoDanglingPointer
BY ParserUsesInterface, NoUseAfterFree, PTL

\* Reading a text does to the lists of children what OrderedTree says: each
\* element and each member is added behind the ones read before it.
THEOREM ParserImplementsOrderedTree == ValueSpec => ImplementsOrderedTree
BY ParserUsesInterface, JsonImplementsOrderedTree, PTL

\* Every string the parser allocates has one owner at any time: parse_object
\* gives a key to append_member or frees it, and json_delete frees the keys and
\* the strings of the nodes it frees, each once.
THEOREM StringsHaveOneOwner == ValueSpec => []StringsOwned
BY ValueInvariant, PTL DEF ValueInv

LEMMA FailureFreesAllHolds == IInv /\ ValueInv => FailureFreesAll
<1> SUFFICES ASSUME IInv, ValueInv, phase = "returned", ~(ok /\ wanted)
             PROVE Live = {} /\ strings = 0
  BY DEF FailureFreesAll
<1> USE NodesAssumption
<1>1. Idle /\ handles = {} /\ frames = <<>>
  BY DEF ValueInv, EndInv
<1>2. Live = {}
  BY <1>1, NoLeakHolds DEF NoLeak
<1>3. \A n \in Nodes : tag[n] = "free"
  BY <1>2 DEF Live
<1>4. \A n \in Nodes : key[n] = Null
  BY <1>3 DEF IInv, Shape, FreeInv, RootInv
<1>5. \A n \in Nodes : string_[n] = Null
  BY <1>3 DEF ValueInv, FreeStringInv
<1>6. OwnedKeys = {} /\ OwnedStrings = {} /\ WaitingKeys = {}
  BY <1>1, <1>4, <1>5 DEF OwnedKeys, OwnedStrings, WaitingKeys
<1>7. Cardinality({}) = 0
  BY FS_EmptySet
<1>8. strings = 0
  BY <1>6, <1>7, StringsOwnedIs DEF ValueInv
<1> QED
  BY <1>2, <1>8

\* A call of json_decode that returns NULL, at whatever depth the text went
\* wrong, and every call of json_validate, leave no node and no string.
THEOREM FailureLeavesNothing == ValueSpec => []FailureFreesAll
BY ValueInvariant, FailureFreesAllHolds, PTL
=============================================================================
