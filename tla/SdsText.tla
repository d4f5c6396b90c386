------------------------------ MODULE SdsText ------------------------------
(***************************************************************************)
(* util/sds.c: the functions that take a line apart and write its parts    *)
(* again, and those that write numbers, one iteration of their loops a     *)
(* step, with what they allocate.  A caller splits a line at a separator   *)
(* with sdssplitlen; or splits it into arguments with sdssplitargs, writes *)
(* those with sdscatrepr, frees them, and splits what was written; or      *)
(* writes a number.                                                        *)
(*                                                                         *)
(* Strings are sequences of bytes; the first place is 1, and the place     *)
(* after the last has the NUL.                                             *)
(***************************************************************************)
EXTENDS Integers, Sequences, SequencesExt

CONSTANTS SplitLines,  \* lines to split at a separator
          Separators,
          ArgLines,    \* lines to split into arguments
          LLONG_MAX,
          SDS_LLSTR_SIZE

LLONG_MIN == -LLONG_MAX - 1

ULLONG_MAX == 2 * LLONG_MAX + 1

Pow10[k \in 0..SDS_LLSTR_SIZE] == IF k = 0 THEN 1 ELSE 10 * Pow10[k - 1]

\* Lines are bytes, those of sdssplitargs without a NUL; "if (seplen < 1 || len
\* < 0) return NULL" of sdssplitlen; numbers of any width in two's complement;
\* and SDS_LLSTR_SIZE, which is 21 for 64 bits, counts a sign, the digits and
\* the NUL.
ASSUME TextAssumption ==
  /\ SplitLines \subseteq Seq(0..255)
  /\ Separators \subseteq Seq(0..255) \ {<<>>}
  /\ ArgLines \subseteq Seq(1..255)
  /\ LLONG_MAX \in Nat
  /\ SDS_LLSTR_SIZE \in Nat /\ SDS_LLSTR_SIZE > 2
  /\ -LLONG_MIN < Pow10[SDS_LLSTR_SIZE - 2]
  /\ ULLONG_MAX < Pow10[SDS_LLSTR_SIZE - 1]

VARIABLES
  job,      \* "idle", "split", "args", "tokens", "null", "digits", "sign",
            \* "reverse", "number" or "crashed": a null pointer was used, or
            \* stored as an argument
  line,
  sep,      \* the separator, <<>> in sdssplitargs
  p,        \* the place that is looked at, or the last to be swapped
  start,    \* where the token of sdssplitlen begins, or the first to be swapped
  quote,    \* of sdssplitargs: "none" between arguments, "plain", "double", "single"
  current,  \* the argument that is being read, or the buffer of sdsll2str
  value, v, \* the number to write, and what is left of it
  tokens,   \* what was found so far
  slots,    \* the size of the array of sdssplitlen
  given,    \* history: what was written, <<>> the first time
  blocks    \* history: blocks allocated and not freed

numVars == <<value, v>>
textVars == <<job, line, sep, p, start, quote, current, numVars, tokens, slots, given, blocks>>

At(k) == IF k <= Len(line) THEN line[k] ELSE 0

isspace(c) == c \in {9, 10, 11, 12, 13, 32}

isprint(c) == c \in 32..126

(***************************************************************************)
(* sdscatrepr.                                                             *)
(***************************************************************************)

\* The letters of the short escapes, and the bytes they stand for.
ReprEscapes == {<<110, 10>>, <<114, 13>>, <<116, 9>>, <<97, 7>>, <<98, 8>>}

HexDigits == <<48, 49, 50, 51, 52, 53, 54, 55, 56, 57, 97, 98, 99, 100, 101, 102>>

\* Mutant: a quote is written as it is.
repr_char_quote(c) ==
  CASE c = 92 -> <<92, c>>
    [] \E e \in ReprEscapes : e[2] = c -> <<92, (CHOOSE e \in ReprEscapes : e[2] = c)[1]>>
    [] c # 92 /\ isprint(c) -> <<c>>
    [] OTHER -> <<92, 120, HexDigits[c \div 16 + 1], HexDigits[(c % 16) + 1]>>

repr_char(c) ==
  CASE c \in {92, 34} -> <<92, c>>
    [] \E e \in ReprEscapes : e[2] = c -> <<92, (CHOOSE e \in ReprEscapes : e[2] = c)[1]>>
    [] c \notin {92, 34} /\ isprint(c) -> <<c>>
    [] OTHER -> <<92, 120, HexDigits[c \div 16 + 1], HexDigits[(c % 16) + 1]>>

sdscatrepr(b) == <<34>> \o FlattenSeq([k \in DOMAIN b |-> repr_char(b[k])]) \o <<34>>

(***************************************************************************)
(* sdssplitlen.                                                            *)
(***************************************************************************)
Idle ==
  /\ job = "idle"
  /\ line = <<>> /\ sep = <<>>
  /\ p = 1 /\ start = 1
  /\ quote = "none" /\ current = <<>>
  /\ value = 0 /\ v = 0
  /\ tokens = <<>> /\ slots = 0 /\ given = <<>> /\ blocks = 0

\* The array of five, or NULL; a line without a byte has no tokens.
sdssplitlen ==
  /\ job = "idle"
  /\ line' \in SplitLines /\ sep' \in Separators
  /\ \/ /\ slots' = 5 /\ blocks' = 1
        /\ job' = IF line' = <<>> THEN "tokens" ELSE "split"
     \/ job' = "null" /\ UNCHANGED <<slots, blocks>>
  /\ UNCHANGED <<numVars, p, start, quote, current, tokens, given>>

\* sdsfree of each token, s_free(tokens)
cleanup ==
  /\ job' = "null"
  /\ tokens' = <<>>
  /\ blocks' = blocks - Len(tokens) - 1
  /\ UNCHANGED <<numVars, line, sep, p, start, quote, current, slots, given>>

Matches == SubSeq(line, p, p + Len(sep) - 1) = sep

Searching == job = "split" /\ p + Len(sep) - 1 <= Len(line)

\* Mutant: the array grows when it is full.
Grown_late == IF slots < Len(tokens) THEN slots * 2 ELSE slots

\* "make sure there is room for the next element and the final one"
Grown == IF slots < Len(tokens) + 2 THEN slots * 2 ELSE slots

split_next ==
  /\ Searching
  /\ slots' = Grown
  /\ IF Matches
     THEN /\ tokens' = Append(tokens, SubSeq(line, start, p - 1))
          /\ blocks' = blocks + 1
          /\ start' = p + Len(sep)
          /\ p' = p + Len(sep)
     ELSE p' = p + 1 /\ UNCHANGED <<tokens, blocks, start>>
  /\ UNCHANGED <<numVars, job, line, sep, quote, current, given>>

\* Mutant: the last token is not taken.
split_last_missing ==
  /\ job = "split" /\ ~Searching
  /\ job' = "tokens"
  /\ UNCHANGED <<numVars, line, sep, p, start, quote, current, tokens, slots, given, blocks>>

split_last ==
  /\ job = "split" /\ ~Searching
  /\ tokens' = Append(tokens, SubSeq(line, start, Len(line)))
  /\ blocks' = blocks + 1
  /\ job' = "tokens"
  /\ UNCHANGED <<numVars, line, sep, p, start, quote, current, slots, given>>

\* s_realloc or sdsnewlen finds no memory.
split_fail == /\ job = "split"
              /\ Searching => Matches \/ Grown # slots
              /\ cleanup

(***************************************************************************)
(* sdssplitargs.                                                           *)
(***************************************************************************)
sdssplitargs ==
  /\ job = "idle"
  /\ line' \in ArgLines
  /\ job' = "args"
  /\ UNCHANGED <<numVars, sep, p, start, quote, current, tokens, slots, given, blocks>>

\* "skip blanks", then an argument or the end of the line.
arg_blank ==
  /\ job = "args" /\ quote = "none" /\ isspace(At(p))
  /\ p' = p + 1
  /\ UNCHANGED <<numVars, job, line, sep, start, quote, current, tokens, slots, given, blocks>>

arg_begin ==
  /\ job = "args" /\ quote = "none" /\ At(p) # 0 /\ ~isspace(At(p))
  /\ quote' = "plain"
  /\ current' = <<>>
  /\ blocks' = blocks + 1
  /\ UNCHANGED <<numVars, job, line, sep, p, start, tokens, slots, given>>

\* "Even on empty input string return something not NULL."
arg_return ==
  /\ job = "args" /\ quote = "none" /\ At(p) = 0
  /\ job' = "tokens"
  /\ blocks' = IF tokens = <<>> THEN blocks + 1 ELSE blocks
  /\ UNCHANGED <<numVars, line, sep, p, start, quote, current, tokens, slots, given>>

HexValueOf(c) == CASE c \in 48..57 -> c - 48
                   [] c \in 97..102 -> c - 87
                   [] c \in 65..70 -> c - 55
                   [] OTHER -> -1

HexAt(k) == /\ At(k) = 92 /\ At(k + 1) = 120
            /\ HexValueOf(At(k + 2)) >= 0 /\ HexValueOf(At(k + 3)) >= 0

EscapedByte(c) == IF \E e \in ReprEscapes : e[1] = c
                  THEN (CHOOSE e \in ReprEscapes : e[1] = c)[2] ELSE c

\* What the iteration does at place p: go on with the bytes it found at
\* another place, end the argument, or give up.
Go(bytes, next, q) == [kind |-> "go", bytes |-> bytes, next |-> next, quote |-> q]
Done(next) == [kind |-> "done", bytes |-> <<>>, next |-> next, quote |-> "none"]
Err == [kind |-> "err", bytes |-> <<>>, next |-> p, quote |-> "none"]

\* "closing quote must be followed by a space or nothing at all."
Closing == IF At(p + 1) # 0 /\ ~isspace(At(p + 1)) THEN Err ELSE Done(p + 1)

in_double ==
  LET c == At(p)
      d == At(p + 1)
  IN CASE HexAt(p) -> Go(<<HexValueOf(At(p + 2)) * 16 + HexValueOf(At(p + 3))>>, p + 4, quote)
       [] ~HexAt(p) /\ c = 92 /\ d # 0 -> Go(<<EscapedByte(d)>>, p + 2, quote)
       [] c = 34 -> Closing
       [] c = 0 -> Err
       [] OTHER -> Go(<<c>>, p + 1, quote)

in_single ==
  LET c == At(p)
      d == At(p + 1)
  IN CASE c = 92 /\ d = 39 -> Go(<<39>>, p + 2, quote)
       [] c = 39 -> Closing
       [] c = 0 -> Err
       [] OTHER -> Go(<<c>>, p + 1, quote)

\* if (*p) p++
in_plain ==
  LET c == At(p)
  IN CASE c \in {32, 10, 13, 9} -> Done(p + 1)
       [] c = 0 -> Done(p)
       [] c = 34 -> Go(<<>>, p + 1, "double")
       [] c = 39 -> Go(<<>>, p + 1, "single")
       [] OTHER -> Go(<<c>>, p + 1, quote)

Iteration == CASE quote = "double" -> in_double
               [] quote = "single" -> in_single
               [] OTHER -> in_plain

arg_char ==
  /\ job = "args" /\ quote # "none"
  /\ Iteration.kind = "go"
  /\ current' = current \o Iteration.bytes
  /\ p' = Iteration.next
  /\ quote' = Iteration.quote
  /\ UNCHANGED <<numVars, job, line, sep, start, tokens, slots, given, blocks>>

\* "add the token to the vector", which s_realloc makes the first time.
arg_done ==
  /\ job = "args" /\ quote # "none"
  /\ Iteration.kind = "done"
  /\ tokens' = Append(tokens, current)
  /\ blocks' = IF tokens = <<>> THEN blocks + 1 ELSE blocks
  /\ current' = <<>>
  /\ p' = Iteration.next
  /\ quote' = "none"
  /\ UNCHANGED <<numVars, job, line, sep, start, slots, given>>

\* err: the arguments, the vector if there is one, and current are freed.
arg_err ==
  /\ job = "args" /\ quote # "none"
  /\ Iteration.kind = "err"
  /\ job' = "null"
  /\ tokens' = <<>> /\ current' = <<>> /\ quote' = "none"
  /\ blocks' = blocks - Len(tokens) - (IF tokens = <<>> THEN 0 ELSE 1) - 1
  /\ UNCHANGED <<numVars, line, sep, p, start, slots, given>>

\* A caller has arguments to write.
ToWrite == job = "tokens" /\ sep = <<>> /\ given = <<>> /\ tokens # <<>>

\* The results of sdsempty, sdscatlen and s_realloc are not looked at.
arg_oom ==
  /\ \/ job = "args" /\ IF quote = "none" THEN At(p) # 0 /\ ~isspace(At(p))
                         ELSE Iteration.kind = "done" \/ Iteration.bytes # <<>>
     \/ ToWrite
  /\ job' = "crashed"
  /\ UNCHANGED <<numVars, line, sep, p, start, quote, current, tokens, slots, given, blocks>>

\* The s_malloc for an empty line.
arg_null ==
  /\ job = "args" /\ quote = "none" /\ At(p) = 0 /\ tokens = <<>>
  /\ job' = "null"
  /\ UNCHANGED <<numVars, line, sep, p, start, quote, current, tokens, slots, given, blocks>>

\* The caller writes the arguments, frees them with sdsfreesplitres, and
\* splits what it wrote.
write_again ==
  /\ ToWrite
  /\ line' = FlattenSeq([k \in DOMAIN tokens |-> sdscatrepr(tokens[k]) \o <<32>>])
  /\ given' = tokens
  /\ tokens' = <<>>
  /\ blocks' = blocks - Len(tokens) - 1
  /\ job' = "args"
  /\ p' = 1
  /\ UNCHANGED <<numVars, sep, start, quote, current, slots>>

(***************************************************************************)
(* sdsll2str and sdsull2str.                                               *)
(***************************************************************************)

\* -value of a long long.  That of the least one is not a long long, and the
\* C standard leaves it undefined; what a build makes of it is the negation
\* of two's complement, which gives the least one again.
Negated(n) == IF n = LLONG_MIN THEN LLONG_MIN ELSE -n

\* Mutant: v is a long long.
Unsigned_missing(n) == n

\* The conversion of a long long to the unsigned long long v.
Unsigned(n) == n % (ULLONG_MAX + 1)

\* v = (value < 0) ? -value : value
sdsll2str ==
  /\ job = "idle"
  /\ value' \in LLONG_MIN..LLONG_MAX
  /\ v' = Unsigned(IF value' < 0 THEN Negated(value') ELSE value')
  /\ job' = "digits"
  /\ UNCHANGED <<line, sep, p, start, quote, current, tokens, slots, given, blocks>>

\* The same without a sign.
sdsull2str ==
  /\ job = "idle"
  /\ value' \in 0..ULLONG_MAX
  /\ v' = value'
  /\ job' = "digits"
  /\ UNCHANGED <<line, sep, p, start, quote, current, tokens, slots, given, blocks>>

digit ==
  /\ job = "digits"
  /\ current' = Append(current, 48 + (v % 10))
  /\ v' = v \div 10
  /\ job' = IF v' = 0 THEN "sign" ELSE "digits"
  /\ UNCHANGED <<line, sep, p, start, quote, value, tokens, slots, given, blocks>>

\* The sign, the NUL, and p back on the last byte.
sign ==
  /\ job = "sign"
  /\ current' = IF value < 0 THEN Append(current, 45) ELSE current
  /\ p' = Len(current')
  /\ job' = "reverse"
  /\ UNCHANGED <<line, sep, start, quote, numVars, tokens, slots, given, blocks>>

reverse ==
  /\ job = "reverse"
  /\ IF start < p
     THEN /\ current' = [current EXCEPT ![start] = current[p], ![p] = current[start]]
          /\ start' = start + 1
          /\ p' = p - 1
          /\ UNCHANGED job
     ELSE job' = "number" /\ UNCHANGED <<current, start, p>>
  /\ UNCHANGED <<line, sep, quote, numVars, tokens, slots, given, blocks>>

TextNext == \/ sdssplitlen \/ split_next \/ split_last \/ split_fail
            \/ sdssplitargs \/ arg_blank \/ arg_begin \/ arg_return \/ arg_char
            \/ arg_done \/ arg_err \/ arg_oom \/ arg_null \/ write_again
            \/ sdsll2str \/ sdsull2str \/ digit \/ sign \/ reverse

TextSpec == Idle /\ [][TextNext]_textVars

(***************************************************************************)
(* Properties.                                                             *)
(***************************************************************************)

\* sdsjoinsds(argv, argc, sep)
sdsjoinsds(argv, separator) ==
  FlattenSeq([k \in DOMAIN argv |-> IF k < Len(argv) THEN argv[k] \o separator ELSE argv[k]])

\* sdssplitlen finds every separator: sdsjoinsds puts the line together again,
\* and no token has a separator in it.
SplitJoin ==
  (job = "tokens" /\ sep # <<>> /\ line # <<>>) =>
    /\ sdsjoinsds(tokens, sep) = line
    /\ \A k \in DOMAIN tokens : \A j \in 1..(Len(tokens[k]) - Len(sep) + 1) :
         SubSeq(tokens[k], j, j + Len(sep) - 1) # sep

\* "sdscatrepr() is able to convert back a string into a quoted string in the
\* same format sdssplitargs() is able to parse": what was written of any
\* arguments is read as those arguments.
ArgsRoundTrip ==
  given # <<>> => /\ job # "null"
                  /\ job = "tokens" => tokens = given

\* Neither loop looks beyond the NUL of its line or stores beyond its array,
\* and what is allocated is the tokens, their array and the argument being
\* read: nothing, when NULL is returned.
SplitSafe ==
  /\ job \in {"split", "args", "tokens"} => p <= Len(line) + 1
  /\ job = "split" => Len(tokens) <= slots
  /\ (job = "tokens" /\ sep # <<>>) => Len(tokens) <= slots
  /\ job = "null" => blocks = 0
  /\ job = "tokens" => blocks = Len(tokens) + 1

\* The number that decimal digits stand for.
ValueOf(digits) ==
  LET val[k \in 0..Len(digits)] ==
        IF k = 0 THEN 0 ELSE 10 * val[k - 1] + (digits[k] - 48)
  IN val[Len(digits)]

\* digits is what n is in decimal, without zeros in front.
IsDecimal(digits, n) ==
  /\ digits # <<>>
  /\ \A k \in DOMAIN digits : digits[k] \in 48..57
  /\ digits[1] = 48 => Len(digits) = 1
  /\ ValueOf(digits) = n

\* Every number is written in decimal, and its text and the NUL fit the buffer
\* of SDS_LLSTR_SIZE bytes: zero, the largest unsigned one, and the least one,
\* whose negation overflows and comes right in the conversion only.
NumberText ==
  /\ job \in {"digits", "sign", "reverse", "number"} => Len(current) < SDS_LLSTR_SIZE
  /\ job = "number" =>
       IF value < 0 THEN current[1] = 45 /\ IsDecimal(Tail(current), -value)
       ELSE IsDecimal(current, value)
=============================================================================
