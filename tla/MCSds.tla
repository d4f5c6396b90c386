------------------------------- MODULE MCSds -------------------------------
(***************************************************************************)
(* Small instances of Sds and SdsText: narrow headers, two letters and the *)
(* NUL; short lines of letters and separators, and of the bytes that mean  *)
(* something to sdssplitargs; numbers of eight bits.  A caller either      *)
(* works on a string or on a line.                                         *)
(***************************************************************************)
EXTENDS Sds, SdsText

MCLimit == [type \in Types |-> <<2, 3, 5, 8, 64>>[type + 1]]

MCArgs == {<<>>, <<1>>, <<2, 1>>, <<1, 0, 2>>}

MCIndices == {-9, -2, -1, 0, 1, 9}

MCLetters == {0, 1, 2}

MCSplitLines == BoundedSeq({1, 2}, 7)

MCSeparators == {<<2>>, <<2, 2>>, <<2, 1>>}

\* space, vertical tab, both quotes, backslash, n, \x, 0a
Chunks == {<<32>>, <<11>>, <<34>>, <<39>>, <<92>>, <<110>>, <<92, 120>>, <<48, 97>>}

MCArgLines == {FlattenSeq(c) : c \in BoundedSeq(Chunks, 4)}

BothInit == Init /\ Idle

BothNext == \/ job = "idle" /\ Next /\ UNCHANGED textVars
            \/ call = Failed /\ ptr = "null" /\ TextNext /\ UNCHANGED vars

BothSpec == BothInit /\ [][BothNext]_<<vars, textVars>>
=============================================================================
