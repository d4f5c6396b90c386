----------------------------- MODULE JsonValue -----------------------------
(***************************************************************************)
(* Values in util/json.c: json_decode and json_validate build a tree of    *)
(* JsonTree from a text, or only read it; json_encode and json_stringify   *)
(* write the text of a tree.                                               *)
(*                                                                         *)
(* A text is a sequence of tokens.  The literals and numbers are the token *)
(* "v"; a string literal is a member of Keys; "bad" is anything at which   *)
(* expect_literal, parse_string and parse_number give up; "nul" ends the   *)
(* text.  The parser reads each token once, and every point at which it    *)
(* reads one comes after a skip_space.  Its recursive calls are kept on a  *)
(* stack, one step per token and per tree operation.                       *)
(***************************************************************************)
EXTENDS JsonTree, SequencesExt

CONSTANT MaxText  \* bound: tokens in a text

ASSUME MaxTextAssumption == MaxText \in Nat

VARIABLES
  phase,    \* "calls", "parse", "fail", "returned" or "exit"
  wanted,   \* out # NULL: json_decode, not json_validate
  text,     \* what was read so far
  point,    \* where the innermost call is
  frames,   \* calls of parse_array and parse_object: kind, ret, key
  value,    \* the value parsed last: element, value or ret of the caller
  ok,       \* what the call returned
  string_,  \* the string of a JSON_STRING node
  strings   \* history: strings allocated and not freed

parserVars == <<phase, wanted, text, point, frames, value, ok>>
stringVars == <<string_, strings>>
valueVars == <<vars, parserVars, stringVars>>

Space == " "
Closer == [array |-> "]", object |-> "}"]
Kind(c) == IF c = "[" THEN "array" ELSE "object"
Tokens == {"[", "]", "{", "}", ",", ":", Space, "v", "bad", "nul"} \cup Keys
Points == {"value", "first", "append", "after", "key", "colon", "end"}

ValueInit ==
  /\ Init
  /\ phase = "calls"
  /\ wanted = FALSE
  /\ text = <<>>
  /\ point = "value"
  /\ frames = <<>>
  /\ value = Null
  /\ ok = FALSE
  /\ string_ = [n \in Nodes |-> Null]
  /\ strings = 0

(***************************************************************************)
(* The strings of the tree operations.                                     *)
(***************************************************************************)

\* json_mknull, json_mkbool, json_mknumber, json_mkarray, json_mkobject, and
\* the insertion of elements.
without_string ==
  /\ \/ \E n \in Nodes, t \in Tags : mknode(n, t)
     \/ \E p, c \in Nodes : json_append_element(p, c) \/ json_prepend_element(p, c)
  /\ UNCHANGED stringVars

\* mkstring(json_strdup(s))
json_mkstring(n, s) ==
  /\ mknode(n, "scalar")
  /\ string_' = [string_ EXCEPT ![n] = s]
  /\ strings' = strings + 1

\* json_strdup(key) in json_append_member and json_prepend_member.
copy_key ==
  /\ \E o, c \in Nodes, k \in Keys : json_append_member(o, k, c) \/ json_prepend_member(o, k, c)
  /\ strings' = strings + 1
  /\ UNCHANGED string_

\* Mutant: json_remove_from_parent clears the key and does not free it.
KeysFreed_none(n) == 0

\* free(node->key) in json_remove_from_parent, which json_delete calls first.
KeysFreed(n) == IF n # Null /\ parent[n] # Null /\ key[n] # Null THEN 1 ELSE 0

remove_or_delete ==
  \E n \in Nodes : /\ json_remove_from_parent(n) \/ json_delete(n)
                   /\ strings' = strings - KeysFreed(n)
                   /\ UNCHANGED string_

\* json_delete at work: json_delete(child), or free(node->string_) and free(node).
delete_on ==
  \/ /\ delete_child
     /\ strings' = strings - KeysFreed(Top.child)
     /\ UNCHANGED string_
  \/ /\ delete_free
     /\ strings' = strings - (IF string_[Top.node] # Null THEN 1 ELSE 0)
     /\ string_' = [string_ EXCEPT ![Top.node] = Null]

calls == /\ phase = "calls"
         /\ \/ without_string \/ copy_key \/ remove_or_delete \/ delete_on
            \/ \E n \in Nodes, s \in Keys : json_mkstring(n, s)
         /\ UNCHANGED parserVars

(***************************************************************************)
(* Reading.                                                                *)
(***************************************************************************)

\* Bound: a call begins when no tree exists.
json_decode ==
  /\ phase = "calls" /\ Idle /\ Live = {}
  /\ phase' = "parse"
  /\ wanted' \in BOOLEAN
  /\ text' = <<>>
  /\ point' = "value"
  /\ frames' = <<>>
  /\ value' = Null
  /\ ok' = FALSE
  /\ UNCHANGED <<vars, stringVars>>

\* The parser is at point p and finds c there.
Reads(p, c) ==
  /\ phase = "parse"
  /\ point = p
  /\ c # "nul" => Len(text) < MaxText
  /\ text' = Append(text, c)

skip_space ==
  /\ point # "append"
  /\ Reads(point, Space)
  /\ UNCHANGED <<vars, phase, wanted, point, frames, value, ok, stringVars>>

Inner == frames[Len(frames)]
Outer == SubSeq(frames, 1, Len(frames) - 1)

\* A value was parsed: its caller is json_decode, or adds it to its list.
Parsed(outer) == point' = IF outer = <<>> THEN "end" ELSE "append"

Fail ==
  /\ phase' = "fail"
  /\ UNCHANGED <<vars, wanted, point, frames, value, ok, stringVars>>

\* calloc finds no memory.
OutOfMemory ==
  /\ Live = Nodes
  /\ phase' = "exit"
  /\ UNCHANGED <<vars, wanted, point, frames, value, ok, stringVars>>

\* mknode for a value that is wanted; Null otherwise.
NewNode(t, n) == IF wanted THEN n \in Nodes /\ mknode(n, t) ELSE n = Null /\ UNCHANGED vars

\* parse_value at a literal, a number or a string.
parse_scalar(c) ==
  \/ \E n \in NodeOrNull :
       /\ NewNode("scalar", n)
       /\ value' = n
       /\ Parsed(frames)
       /\ IF wanted /\ c \in Keys
          THEN string_' = [string_ EXCEPT ![n] = c] /\ strings' = strings + 1
          ELSE UNCHANGED stringVars
       /\ UNCHANGED <<phase, wanted, frames, ok>>
  \/ wanted /\ OutOfMemory

\* parse_value at a bracket: parse_array or parse_object begins.
parse_open(c) ==
  \/ \E n \in NodeOrNull :
       /\ NewNode(Kind(c), n)
       /\ frames' = Append(frames, [kind |-> Kind(c), ret |-> n, key |-> Null])
       /\ point' = "first"
       /\ UNCHANGED <<phase, wanted, value, ok, stringVars>>
  \/ wanted /\ OutOfMemory

parse_value(c) ==
  CASE c \in {"v"} \cup Keys -> parse_scalar(c)
    [] c \in {"[", "{"} -> parse_open(c)
    [] OTHER -> Fail

\* parse_string for a key.
parse_key(c) ==
  IF c \in Keys
  THEN /\ frames' = IF wanted THEN [frames EXCEPT ![Len(frames)].key = c] ELSE frames
       /\ strings' = strings + (IF wanted THEN 1 ELSE 0)
       /\ point' = "colon"
       /\ UNCHANGED <<vars, phase, wanted, value, ok, string_>>
  ELSE Fail

\* success: the container is the value its caller gets.
Close ==
  /\ value' = Inner.ret
  /\ frames' = Outer
  /\ Parsed(Outer)
  /\ UNCHANGED <<vars, phase, wanted, ok, stringVars>>

\* The first token after an opening bracket.
parse_first(c) ==
  CASE c = Closer[Inner.kind] -> Close
    [] c # Closer[Inner.kind] /\ Inner.kind = "array" -> parse_value(c)
    [] OTHER -> parse_key(c)

\* Mutant: the value is added without its key.
append_parsed_keyless ==
  /\ phase = "parse" /\ point = "append"
  /\ point' = "after"
  /\ IF ~wanted THEN UNCHANGED <<vars, frames>>
     ELSE /\ append_node(Inner.ret, value)
          /\ handles' = handles \ {value}
          /\ UNCHANGED <<tag, key, stack, frames>>
  /\ UNCHANGED <<phase, wanted, text, value, ok, stringVars>>

\* json_append_element or append_member, which takes the key as it is.
append_parsed ==
  /\ phase = "parse" /\ point = "append"
  /\ point' = "after"
  /\ IF ~wanted THEN UNCHANGED <<vars, frames>>
     ELSE /\ append_node(Inner.ret, value)
          /\ key' = [key EXCEPT ![value] = Inner.key]
          /\ frames' = [frames EXCEPT ![Len(frames)].key = Null]
          /\ handles' = handles \ {value}
          /\ UNCHANGED <<tag, stack>>
  /\ UNCHANGED <<phase, wanted, text, value, ok, stringVars>>

\* Mutant: an array may end with a comma.
parse_after_comma(c) ==
  CASE c = Closer[Inner.kind] -> Close
    [] c = "," -> /\ point' = IF Inner.kind = "array" THEN "first" ELSE "key"
                  /\ UNCHANGED <<vars, phase, wanted, frames, value, ok, stringVars>>
    [] OTHER -> Fail

\* What follows an element or a member.
parse_after(c) ==
  CASE c = Closer[Inner.kind] -> Close
    [] c = "," -> /\ point' = IF Inner.kind = "array" THEN "value" ELSE "key"
                  /\ UNCHANGED <<vars, phase, wanted, frames, value, ok, stringVars>>
    [] OTHER -> Fail

parse_colon(c) ==
  IF c = ":" THEN /\ point' = "value"
                  /\ UNCHANGED <<vars, phase, wanted, frames, value, ok, stringVars>>
             ELSE Fail

\* if (*s != 0) in json_decode and json_validate.
parse_end(c) ==
  IF c = "nul" THEN /\ phase' = "returned"
                    /\ ok' = TRUE
                    /\ UNCHANGED <<vars, wanted, point, frames, value, stringVars>>
               ELSE Fail

parse == \E c \in Tokens \ {Space} :
           \/ Reads("value", c) /\ parse_value(c)
           \/ Reads("first", c) /\ parse_first(c)
           \/ Reads("key", c) /\ parse_key(c)
           \/ Reads("colon", c) /\ parse_colon(c)
           \/ Reads("after", c) /\ parse_after(c)
           \/ Reads("end", c) /\ parse_end(c)

(***************************************************************************)
(* Giving up: each call on the stack frees what it has and returns false.  *)
(***************************************************************************)

\* failure_free_key and failure: free(key), json_delete(ret).
failure ==
  /\ phase = "fail" /\ Idle /\ frames # <<>>
  /\ frames' = Outer
  /\ strings' = strings - (IF Inner.key # Null THEN 1 ELSE 0) - KeysFreed(Inner.ret)
  /\ IF Inner.ret # Null THEN json_delete(Inner.ret) ELSE UNCHANGED vars
  /\ UNCHANGED <<phase, wanted, text, point, value, ok, string_>>

\* json_delete at work on a tree that was given up.
deleting ==
  /\ phase = "fail"
  /\ delete_on
  /\ UNCHANGED parserVars

\* Mutant: json_decode returns without deleting the value before the garbage.
decode_failed_leak ==
  /\ phase = "fail" /\ Idle /\ frames = <<>>
  /\ phase' = "returned"
  /\ UNCHANGED <<vars, wanted, text, point, frames, value, ok, stringVars>>

\* json_decode returns NULL, after it has deleted a value that has something
\* after it.
decode_failed ==
  /\ phase = "fail" /\ Idle /\ frames = <<>>
  /\ IF point = "end" /\ value # Null
     THEN /\ json_delete(value)
          /\ strings' = strings - KeysFreed(value)
          /\ value' = Null
          /\ UNCHANGED phase
     ELSE /\ phase' = "returned"
          /\ UNCHANGED <<vars, value, strings>>
  /\ UNCHANGED <<wanted, text, point, frames, ok, string_>>

\* The caller goes on with what it was given.
resume ==
  /\ phase = "returned"
  /\ phase' = "calls"
  /\ wanted' = FALSE
  /\ text' = <<>>
  /\ point' = "value"
  /\ frames' = <<>>
  /\ value' = Null
  /\ ok' = FALSE
  /\ UNCHANGED <<vars, stringVars>>

exited == phase = "exit" /\ UNCHANGED valueVars

ValueNext == \/ calls \/ json_decode \/ skip_space \/ parse \/ append_parsed
             \/ failure \/ deleting \/ decode_failed \/ resume \/ exited

ValueSpec == ValueInit /\ [][ValueNext]_valueVars

(***************************************************************************)
(* Writing.                                                                *)
(***************************************************************************)
Repeat(n) == [i \in 1..n |-> Space]

\* Mutant: a comma after every element.
Comma_always(c) == <<",">>

\* if (element->next != NULL) sb_putc(out, ',')
Comma(c) == IF next[c] # Null THEN <<",">> ELSE <<>>

Name(c) == IF key[c] # Null THEN <<key[c], ":">> ELSE <<>>

Scalar(n) == <<IF string_[n] = Null THEN "v" ELSE string_[n]>>

Opener(n) == IF tag[n] = "array" THEN "[" ELSE "{"

\* emit_value, emit_array, emit_object.
emit_value(n) ==
  LET text_of[m \in Nodes] ==
        IF tag[m] = "scalar" THEN Scalar(m)
        ELSE <<Opener(m)>>
             \o FlattenSeq([i \in DOMAIN Kids(m) |->
                              Name(Kids(m)[i]) \o text_of[Kids(m)[i]] \o Comma(Kids(m)[i])])
             \o <<Closer[tag[m]]>>
  IN text_of[n]

\* The space of ": "
AfterName(c) == IF key[c] # Null THEN <<Space>> ELSE <<>>

\* emit_value_indented, emit_array_indented, emit_object_indented, with a
\* newline or one indentation written as Space.
emit_value_indented(n) ==
  LET text_of[m \in Nodes, level \in Nat] ==
        CASE tag[m] = "scalar" -> Scalar(m)
          [] tag[m] # "scalar" /\ head[m] = Null -> <<Opener(m), Closer[tag[m]]>>
          [] OTHER ->
               <<Opener(m), Space>>
               \o FlattenSeq([i \in DOMAIN Kids(m) |->
                                Repeat(level + 1) \o Name(Kids(m)[i])
                                \o AfterName(Kids(m)[i]) \o text_of[Kids(m)[i], level + 1]
                                \o Comma(Kids(m)[i]) \o <<Space>>])
               \o Repeat(level) \o <<Closer[tag[m]]>>
  IN text_of[n, 0]

(***************************************************************************)
(* The grammar, by the number of tokens: values, lists of elements, lists  *)
(* of members.                                                             *)
(***************************************************************************)
Around(open, S, close) == {<<open>> \o s \o <<close>> : s \in S}

Separated(S, T) == {s \o <<",">> \o t : s \in S, t \in T}

\* The texts of n tokens, from the sequence g of those with fewer.
TextsOf(g, n) ==
  LET at(k, sort) == IF k \in DOMAIN g THEN g[k][sort] ELSE {}
      inside(sort) == at(n - 2, sort) \cup (IF n = 2 THEN {<<>>} ELSE {})
      values == (IF n = 1 THEN {<<c>> : c \in {"v"} \cup Keys} ELSE {})
                \cup Around("[", inside("elements"), "]")
                \cup Around("{", inside("members"), "}")
      pairs(k) == {<<c, ":">> \o v : c \in Keys, v \in at(k - 2, "values")}
  IN [values |-> values,
      elements |-> values \cup UNION {Separated(at(k, "elements"), at(n - k - 1, "values")) :
                                        k \in DOMAIN g},
      members |-> pairs(n) \cup UNION {Separated(at(k, "members"), pairs(n - k - 1)) :
                                         k \in DOMAIN g}]

\* The values of up to Margin tokens more than a text may have, so that what
\* is read of a text can be compared with the values it begins.
Margin == 2

JsonTexts ==
  LET texts == FoldLeft(LAMBDA g, n : Append(g, TextsOf(g, n)), <<>>,
                        [n \in 1..(MaxText + Margin) |-> n])
  IN UNION {v.values : v \in ToSet(texts)}

(***************************************************************************)
(* Properties.                                                             *)
(***************************************************************************)
Stripped(t) == SelectSeq(t, LAMBDA c : c # Space)

\* json_decode and json_validate accept a text if and only if, its spaces left
\* out, the grammar has it; they give up only at a token with which no value
\* of the grammar goes on.
DecodeExact ==
  phase = "returned" =>
    (ok <=> \E j \in JsonTexts : IsPrefix(Stripped(text), Append(j, "nul")))

\* json_encode writes the text that json_decode made the tree of, without its
\* spaces: nothing is lost, doubled or moved on the way through the tree.
DecodeEncode ==
  (phase = "returned" /\ ok /\ wanted) =>
     Append(emit_value(value), "nul") = Stripped(text)

\* A call that fails, and json_validate in any case, leave no node and no
\* string behind.
FailureFreesAll ==
  (phase = "returned" /\ ~(ok /\ wanted)) => Live = {} /\ strings = 0

\* Strings that nodes point to.
Owned == Cardinality({n \in Nodes : key[n] # Null})
         + Cardinality({n \in Nodes : string_[n] # Null})

\* The strings allocated by json_strdup and parse_string and not yet freed are
\* at any time those that have an owner: a node, as its key or its value, or
\* the call of parse_object that is about to use it.  The copies of
\* json_mkstring, json_append_member and json_prepend_member and the frees of
\* json_remove_from_parent, json_delete and the failure paths balance, in any
\* order of calls: no string is forgotten, and none is freed twice.
StringsOwned ==
  strings = Owned + Cardinality({i \in DOMAIN frames : frames[i].key # Null})

\* Whatever calls made a tree, json_encode writes a text of the grammar, and
\* json_stringify the same text with spaces in it.
EncodeExact ==
  \A n \in Live :
    LET t == emit_value(n)
    IN /\ Len(t) <= MaxText + Margin => t \in JsonTexts
       /\ Stripped(emit_value_indented(n)) = t
=============================================================================
