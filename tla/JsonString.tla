----------------------------- MODULE JsonString -----------------------------
(***************************************************************************)
(* String literals in util/json.c: emit_string and parse_string with their *)
(* string buffers, one iteration of each loop a step.  The build is the    *)
(* default one (Release), in which assert does nothing.                    *)
(*                                                                         *)
(* A behaviour either decodes a text, or encodes a string (a mount point,  *)
(* say); what was decoded is encoded again, and what was encoded decoded.  *)
(***************************************************************************)
EXTENDS Utf8

CONSTANTS Strings,  \* strings to encode
          Texts     \* texts to decode, from their quote on

\* Both are bytes without a NUL.
ASSUME StringAssumption ==
  /\ Strings \subseteq Seq(1..255)
  /\ Texts \subseteq Seq(1..255) \ {<<>>}

VARIABLES
  phase,   \* "parse" or "emit", "done", or "failed": parse_string gave up
  first,   \* the text or string at hand is the one the behaviour began with
  input,   \* what is read
  s,       \* place of the next byte of it
  out,     \* the contents of the string buffer
  alloc,   \* its capacity, end - start
  decoded  \* history: the string that was encoded last

vars == <<phase, first, input, s, out, alloc, decoded>>

Quote == 34
Backslash == 92

(***************************************************************************)
(* String buffers.                                                         *)
(***************************************************************************)
SbInit == 16

Doublings == {2, 4, 8, 16, 32, 64, 128, 256}

\* sb_need and sb_grow: doubled until need more bytes fit.
sb_need(length, capacity, need) ==
  IF capacity - length >= need THEN capacity
  ELSE capacity * (CHOOSE m \in Doublings :
                     /\ capacity * m >= length + need
                     /\ \A j \in Doublings : j < m => capacity * j < length + need)

(***************************************************************************)
(* Escapes.                                                                *)
(***************************************************************************)

\* The letters of the short escapes, and the bytes they stand for.
ShortEscapes == {<<34, 34>>, <<92, 92>>, <<98, 8>>, <<102, 12>>, <<110, 10>>,
                 <<114, 13>>, <<116, 9>>}

\* Byte c as emit_string writes it, if it has a short escape.
Escaped(c) == {e[1] : e \in {f \in ShortEscapes : f[2] = c}}

\* The bytes parse_string makes of a letter after a backslash.
Unescaped(c) == {e[2] : e \in {f \in ShortEscapes \cup {<<47, 47>>} : f[1] = c}}

HexDigit(n) == IF n < 10 THEN 48 + n ELSE 55 + n

write_hex16(v) == <<HexDigit(v \div 4096), HexDigit((v \div 256) % 16),
                    HexDigit((v \div 16) % 16), HexDigit(v % 16)>>

HexValue(c) == CASE c \in 48..57 -> c - 48
                 [] c \in 65..70 -> c - 55
                 [] c \in 97..102 -> c - 87
                 [] OTHER -> -1

\* The value of four hex digits at place i, -1 if one of them is none.
parse_hex16(b, i) ==
  LET v(k) == HexValue(ByteAt(b, i + k))
  IN IF \E k \in 0..3 : v(k) = -1 THEN -1
     ELSE v(0) * 4096 + v(1) * 256 + v(2) * 16 + v(3)

(***************************************************************************)
(* emit_string.                                                            *)
(***************************************************************************)

\* The replacement character, for a byte that begins no valid character.
Replacement == <<239, 191, 189>>

\* Mutant: the backslash is written as it is.
emit_char_backslash(b, i) ==
  LET c == ByteAt(b, i)
      len == utf8_validate_cz(b, i)
  IN CASE Escaped(c) # {} /\ c # Backslash ->
              [bytes |-> <<Backslash, CHOOSE e \in Escaped(c) : TRUE>>, len |-> 1]
       [] (Escaped(c) = {} \/ c = Backslash) /\ len = 0 -> [bytes |-> Replacement, len |-> 1]
       [] Escaped(c) = {} /\ len # 0 /\ c < 31 ->
              [bytes |-> <<Backslash, 117>> \o write_hex16(utf8_read_char(b, i)), len |-> 1]
       [] OTHER -> [bytes |-> SubSeq(b, i, i + len - 1), len |-> len]

\* What the loop writes for the character at place i, and its length.
\* escape_unicode is false: only control characters are written as \u.
emit_char(b, i) ==
  LET c == ByteAt(b, i)
      len == utf8_validate_cz(b, i)
  IN CASE Escaped(c) # {} -> [bytes |-> <<Backslash, CHOOSE e \in Escaped(c) : TRUE>>,
                              len |-> 1]
       [] Escaped(c) = {} /\ len = 0 -> [bytes |-> Replacement, len |-> 1]
       [] Escaped(c) = {} /\ len # 0 /\ c < 31 ->
              [bytes |-> <<Backslash, 117>> \o write_hex16(utf8_read_char(b, i)), len |-> 1]
       [] OTHER -> [bytes |-> SubSeq(b, i, i + len - 1), len |-> len]

\* Mutant: the room is made once and for all.
emit_string_once ==
  /\ phase = "emit"
  /\ s <= Len(input)
  /\ LET e == emit_char(input, s)
     IN /\ out' = out \o e.bytes
        /\ s' = s + e.len
        /\ UNCHANGED alloc
  /\ UNCHANGED <<phase, first, input, decoded>>

\* One iteration, with its sb_need(out, 14).
emit_string ==
  /\ phase = "emit"
  /\ s <= Len(input)
  /\ LET e == emit_char(input, s)
     IN /\ out' = out \o e.bytes
        /\ s' = s + e.len
        /\ alloc' = sb_need(Len(out'), alloc, 14)
  /\ UNCHANGED <<phase, first, input, decoded>>

\* The NUL: the closing quote and sb_finish.  The text, if it is the first
\* one, is then decoded, and parse_string begins after its quote.
emit_end ==
  /\ phase = "emit"
  /\ s > Len(input)
  /\ decoded' = input
  /\ input' = Append(out, Quote)
  /\ phase' = "parse"
  /\ first' = FALSE
  /\ s' = 2
  /\ out' = <<>>
  /\ alloc' = SbInit

(***************************************************************************)
(* parse_string.                                                           *)
(***************************************************************************)
Failure == [bytes |-> <<>>, next |-> 0]

\* Mutant: half of a surrogate pair is taken for a character.
parse_unicode_half(b, i) ==
  LET uc == parse_hex16(b, i)
  IN IF uc \in {-1, 0} THEN Failure
     ELSE [bytes |-> utf8_write_char(uc), next |-> i + 4]

\* The digits at place i after \u, with the second half of a pair.
parse_unicode(b, i) ==
  LET uc == parse_hex16(b, i)
      lc == parse_hex16(b, i + 6)
      paired == ByteAt(b, i + 4) = Backslash /\ ByteAt(b, i + 5) = 117 /\ lc # -1
  IN CASE uc \in {-1, 0} -> Failure
       [] Surrogate(uc) ->
            IF paired /\ from_surrogate_pair(uc, lc) # -1
            THEN [bytes |-> utf8_write_char(from_surrogate_pair(uc, lc)), next |-> i + 10]
            ELSE Failure
       [] OTHER -> [bytes |-> utf8_write_char(uc), next |-> i + 4]

\* The character at place i, and the place after it.
parse_char(b, i) ==
  LET c == ByteAt(b, i)
      d == ByteAt(b, i + 1)
      len == utf8_validate_cz(b, i)
  IN CASE c = Backslash /\ d = 117 -> parse_unicode(b, i + 2)
       [] c = Backslash /\ d # 117 ->
            IF Unescaped(d) = {} THEN Failure
            ELSE [bytes |-> <<CHOOSE u \in Unescaped(d) : TRUE>>, next |-> i + 2]
       [] c # Backslash /\ (c <= 31 \/ len = 0) -> Failure
       [] OTHER -> [bytes |-> SubSeq(b, i, i + len - 1), next |-> i + len]

\* One iteration, with its sb_need(&sb, 4).
parse_string ==
  /\ phase = "parse"
  /\ ByteAt(input, s) # Quote
  /\ LET p == parse_char(input, s)
     IN \/ /\ p # Failure
           /\ out' = out \o p.bytes
           /\ s' = p.next
           /\ alloc' = sb_need(Len(out'), alloc, 4)
           /\ UNCHANGED phase
        \/ /\ p = Failure
           /\ phase' = "failed"
           /\ UNCHANGED <<out, s, alloc>>
  /\ UNCHANGED <<first, input, decoded>>

\* The closing quote.  A string decoded first is then encoded: emit_string
\* makes room for 14 bytes and writes the opening quote.
parse_end ==
  /\ phase = "parse"
  /\ ByteAt(input, s) = Quote
  /\ \/ /\ first
        /\ phase' = "emit"
        /\ input' = out
        /\ s' = 1
        /\ out' = <<Quote>>
        /\ alloc' = SbInit
     \/ /\ ~first
        /\ phase' = "done"
        /\ UNCHANGED <<input, s, out, alloc>>
  /\ UNCHANGED <<first, decoded>>

Init ==
  /\ \/ phase = "emit" /\ input \in Strings /\ s = 1 /\ out = <<Quote>>
     \/ phase = "parse" /\ input \in Texts /\ s = 2 /\ out = <<>>
  /\ first = TRUE
  /\ alloc = SbInit
  /\ decoded = <<>>

Next == emit_string \/ emit_end \/ parse_string \/ parse_end

Spec == Init /\ [][Next]_vars

(***************************************************************************)
(* Properties.                                                             *)
(***************************************************************************)

\* Both loops have made room for the bytes of the iteration to come and for
\* the closing quote, where one byte more is for the NUL of sb_finish; and
\* parse_string stops at the NUL of any text, unfinished escapes and clipped
\* characters included.
InBounds ==
  /\ Len(out) <= alloc
  /\ phase = "emit" =>
       Len(out) + (IF s <= Len(input) THEN Len(emit_char(input, s).bytes) ELSE 1) <= alloc
  /\ phase = "parse" =>
       /\ s <= Len(input) + 1
       /\ Len(out) + Len(parse_char(input, s).bytes) <= alloc

\* What parse_string accepts is UTF-8 and has no NUL in it.
DecodedIsUtf8 ==
  (phase = "parse" \/ phase = "done") =>
    utf8_validate(out) /\ \A i \in DOMAIN out : out[i] # 0

\* What emit_string writes is read back, as the string it was made of if that
\* was UTF-8: only a string with U+001F in it is refused.
RoundTrip ==
  /\ (phase = "failed" /\ ~first) => \E i \in DOMAIN decoded : decoded[i] = 31
  /\ (phase = "done" /\ utf8_validate(decoded)) => out = decoded

\* utf8_validate_cz, wherever a loop has come to, accepts exactly the encodings
\* of the code points up to U+10FFFF that are no surrogates, in their shortest
\* form, and returns their length; a clipped character is refused.
ValidatesExactly ==
  s \in DOMAIN input =>
    LET len == utf8_validate_cz(input, s)
    IN \A n \in 1..4 : len = n <=> Encoded(input, s, n)

\* utf8_read_char recovers the code point, and utf8_write_char writes the
\* bytes it was read from; beyond U+FFFF it survives its way through a
\* surrogate pair.
ReadWriteInverse ==
  s \in DOMAIN input => \A n \in 1..4 : Encoded(input, s, n) =>
    LET u == Bits(input, s, n)
    IN /\ utf8_read_char(input, s) = u
       /\ utf8_write_char(u) = SubSeq(input, s, s + n - 1)
       /\ n = 4 => LET pair == to_surrogate_pair(u)
                   IN from_surrogate_pair(pair[1], pair[2]) = u

\* "Control characters are not allowed in string literals." (json.c, in
\* parse_string): none is in a text that emit_string wrote.
NoControlCharacter ==
  (phase = "parse" /\ ~first) => \A i \in DOMAIN input : input[i] > 31
=============================================================================
