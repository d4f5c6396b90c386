----------------------------- MODULE JsonNumber -----------------------------
(***************************************************************************)
(* Number literals in util/json.c, as operators on sequences of bytes.     *)
(***************************************************************************)
EXTENDS Utf8

MinusSign == 45
PlusSign == 43
DecimalPoint == 46
ZeroDigit == 48

is_digit(c) == c \in 48..57

\* The place after the digits that begin at place i, 0 if there are none.
Digits(b, i) ==
  IF ~is_digit(ByteAt(b, i)) THEN 0
  ELSE CHOOSE k \in (i + 1)..(Len(b) + 1) :
         ~is_digit(ByteAt(b, k)) /\ \A j \in i..(k - 1) : is_digit(ByteAt(b, j))

\* Mutant: no digit need follow the point.
parse_number_point(b, i) ==
  LET a == IF ByteAt(b, i) = MinusSign THEN i + 1 ELSE i
      int == IF ByteAt(b, a) = ZeroDigit THEN a + 1 ELSE Digits(b, a)
      frac == IF int # 0 /\ ByteAt(b, int) = DecimalPoint
              THEN IF Digits(b, int + 1) = 0 THEN int + 1 ELSE Digits(b, int + 1) ELSE int
      sign == IF frac # 0 /\ ByteAt(b, frac + 1) \in {PlusSign, MinusSign} THEN frac + 2 ELSE frac + 1
  IN IF frac # 0 /\ ByteAt(b, frac) \in {69, 101} THEN Digits(b, sign) ELSE frac

\* The place after the number that begins at place i, 0 if there is none: the
\* sign, the digits or a zero alone, the fraction and the exponent.
parse_number(b, i) ==
  LET a == IF ByteAt(b, i) = MinusSign THEN i + 1 ELSE i
      int == IF ByteAt(b, a) = ZeroDigit THEN a + 1 ELSE Digits(b, a)
      frac == IF int # 0 /\ ByteAt(b, int) = DecimalPoint THEN Digits(b, int + 1) ELSE int
      sign == IF frac # 0 /\ ByteAt(b, frac + 1) \in {PlusSign, MinusSign} THEN frac + 2 ELSE frac + 1
  IN IF frac # 0 /\ ByteAt(b, frac) \in {69, 101} THEN Digits(b, sign) ELSE frac

number_is_valid(b) == parse_number(b, 1) = Len(b) + 1

\* emit_number with what sprintf made of the number: infinities and what is
\* not a number become null.
emit_number(b) == IF number_is_valid(b) THEN b ELSE <<110, 117, 108, 108>>

(***************************************************************************)
(* The pattern of numbers.                                                 *)
(***************************************************************************)
\* The pattern in the comment of parse_number, as a choice of where its parts
\* end: an optional sign, 0 or digits that begin with another, an optional
\* fraction and an optional exponent.
AllDigits(b) == b # <<>> /\ \A m \in DOMAIN b : b[m] \in 48..57

IsInt(b) == AllDigits(b) /\ (b[1] = 48 => Len(b) = 1)
IsFraction(b) == b # <<>> => b[1] = 46 /\ AllDigits(Tail(b))
IsExponent(b) ==
  b # <<>> => /\ b[1] \in {69, 101}
              /\ \/ AllDigits(Tail(b))
                 \/ Len(b) > 1 /\ b[2] \in {43, 45} /\ AllDigits(Tail(Tail(b)))

IsNumber(b) ==
  \E i \in 0..1, j, k \in 1..Len(b) :
    /\ j <= k /\ i < j
    /\ i = 1 => b[1] = 45
    /\ IsInt(SubSeq(b, i + 1, j))
    /\ IsFraction(SubSeq(b, j + 1, k))
    /\ IsExponent(SubSeq(b, k + 1, Len(b)))

ExactNumber(b) ==
  LET next == parse_number(b, 1)
  IN /\ number_is_valid(b) <=> IsNumber(b)
     /\ next # 0 => /\ IsNumber(SubSeq(b, 1, next - 1))
                    /\ \A n \in next..Len(b) : ~IsNumber(SubSeq(b, 1, n))
=============================================================================
