---------------------------- MODULE MCJsonString ----------------------------
(***************************************************************************)
(* Small sets of strings and texts for JsonString; and short texts that    *)
(* grow byte by byte, for the helpers of Utf8 and for those of JsonNumber, *)
(* which are compared with the pattern of numbers.                         *)
(***************************************************************************)
EXTENDS JsonString, JsonNumber, SequencesExt

CONSTANTS MaxChunks,  \* pieces in a text
          MaxNumber   \* bytes of a number

SequencesUpTo(S, n) == UNION {[1..k -> S] : k \in 0..n}

\* Control characters, a newline, quote, backslash, a letter, and bytes that
\* make characters of two, three and four bytes or parts of them.
StringBytes == {1, 10, 31, 34, 92, 97, 169, 195, 226, 240}

MCStrings == SequencesUpTo(StringBytes, 4)

\* Quote, backslash, \u with the digits of two surrogates, of a letter and of
\* NUL, the letter n, a two-byte character and parts of it, a control
\* character.
Chunks == {<<34>>, <<92>>, <<92, 117>>, <<68, 56, 51, 68>>, <<68, 69, 48, 48>>,
           <<48, 48, 52, 49>>, <<48, 48, 48, 48>>, <<110>>, <<195>>, <<169>>, <<31>>}

MCTexts == {<<34>> \o FlattenSeq(c) : c \in SequencesUpTo(Chunks, MaxChunks)}

\* Every control character.
ControlStrings == {<<c>> : c \in 1..31}

NoTexts == {}

\* On both sides of every limit that the validation compares a byte with.
LimitBytes == {1, 65, 127, 128, 143, 144, 159, 160, 191, 192, 193, 194, 223, 224, 225, 236,
               237, 238, 239, 240, 241, 243, 244, 245, 255}

\* Sign, digits, point, exponent.
NumberBytes == {43, 45, 46, 48, 49, 57, 101}

GrowInit ==
  /\ phase \in {"bytes", "number"}
  /\ input = <<>>
  /\ first = TRUE /\ s = 1 /\ out = <<>> /\ alloc = SbInit /\ decoded = <<>>

Grow ==
  /\ \/ phase = "bytes" /\ Len(input) < 4 /\ \E b \in LimitBytes : input' = Append(input, b)
     \/ /\ phase = "number" /\ Len(input) < MaxNumber
        /\ \E b \in NumberBytes : input' = Append(input, b)
  /\ UNCHANGED <<phase, first, s, out, alloc, decoded>>

TextSpec == (Init \/ GrowInit) /\ [][Next \/ Grow]_vars

\* "This function takes the strict approach": number_is_valid, on which the
\* encoder relies, accepts exactly the numbers of the pattern, and what
\* parse_number takes from the beginning of a text is the longest of them.
NumberExact ==
  phase = "number" => ExactNumber(input)
=============================================================================
