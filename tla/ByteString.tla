----------------------------- MODULE ByteString -----------------------------
(***************************************************************************)
(* What the comments of util/sds.c promise of a string: it holds bytes,    *)
(* and each call has the effect described there on them, or none at all.   *)
(***************************************************************************)
EXTENDS Integers, Sequences, SequencesExt

VARIABLES str,  \* the bytes
          call  \* the call that was made last

\* A C string ends before its first NUL.
CString(t) == IF Contains(t, 0) THEN SubSeq(t, 1, SelectInSeq(t, LAMBDA c : c = 0) - 1)
                                ELSE t

Zeros(n) == [i \in 1..n |-> 0]

\* "the part of the string from left and from right composed just of contiguous
\* characters found in 'cset'" goes.
Trimmed(x, cset) ==
  LET kept == {i \in DOMAIN x : x[i] \notin cset}
  IN IF kept = {} THEN <<>> ELSE SubSeq(x, Min(kept), Max(kept))

\* "start and end can be negative, where -1 means the last character of the
\* string, -2 the penultimate character, and so forth."
Place(x, i) == IF i < 0 THEN Len(x) + i ELSE i

\* "The interval is inclusive": the characters of the string that are in it.
Ranged(x, start, end) ==
  SubSeq(x, Max({Place(x, start), 0}) + 1, Min({Place(x, end) + 1, Len(x)}))

Result(c, x) ==
  CASE c.op \in {"new", "copy"} -> c.t
    [] c.op = "cat" -> x \o c.t
    [] c.op = "grow" -> x \o Zeros(c.n - Len(x))
    [] c.op = "update" -> CString([x EXCEPT ![c.n] = 0])
    [] c.op = "cut" -> SubSeq(x, 1, Len(x) - c.n)
    [] c.op = "trim" -> Trimmed(x, c.t)
    [] c.op = "range" -> Ranged(x, c.n, c.m)
    [] c.op = "map" -> [i \in DOMAIN x |-> IF x[i] = c.n THEN c.m ELSE x[i]]
    [] c.op \in {"clear", "free"} -> <<>>
    [] c.op \in {"dup", "room", "shrink", "begun", "end", "failed"} -> x

Init == str = <<>>

Next == str' = Result(call', str)

Spec == Init /\ [][Next]_<<str, call>>
=============================================================================
