-------------------------------- MODULE Sds --------------------------------
(***************************************************************************)
(* util/sds.c: one string in the hands of a caller, its header and the     *)
(* block it is allocated in.  Places in the block are counted as in the    *)
(* code, from the byte the pointer points to.  The widths of the header    *)
(* fields are parameters.                                                  *)
(*                                                                         *)
(* Any allocation may fail; the caller then still has the string.  Bytes   *)
(* after the NUL are never read, and are forgotten after each call.        *)
(***************************************************************************)
EXTENDS Integers, Sequences

CONSTANTS
  Limit,             \* by header type, the first length its fields cannot hold
  SDS_MAX_PREALLOC,
  StaticBuf,         \* sizeof(staticbuf) in sdscatvprintf
  Args,              \* strings that callers pass
  Indices,           \* indices that callers pass
  Letters,           \* bytes that callers map
  MaxLen             \* bound: the length of the string

SDS_TYPE_5 == 0
SDS_TYPE_8 == 1
SDS_TYPE_64 == 4
Types == 0..4

Byte == 0..255

\* A byte never written, or forgotten.
Junk == -1

ASSUME LimitAssumption ==
  /\ Limit \in [Types -> Nat \ {0}]
  /\ Limit[SDS_TYPE_5] <= Limit[SDS_TYPE_8]

ASSUME PreallocAssumption == SDS_MAX_PREALLOC \in Nat /\ StaticBuf \in Nat \ {0, 1}

ASSUME ArgsAssumption == Args \subseteq Seq(Byte) /\ Indices \subseteq Int
                         /\ Letters \subseteq Byte

\* The widest header is that of size_t, which the program never exceeds.
ASSUME SizeAssumption == MaxLen \in Nat /\ MaxLen + 1 + SDS_MAX_PREALLOC < Limit[SDS_TYPE_64]

VARIABLES
  ptr,   \* "null", "live", in a call "printf" or "catfmt", or "crashed": a null
         \* pointer was used
  s,     \* header, block size and bytes of the string
  fmt,   \* what the call still has to append
  i,     \* its buflen or its i
  call   \* history: the call that was made last

vars == <<ptr, s, fmt, i, call>>

NoString == [type |-> SDS_TYPE_8, len |-> 0, alloc |-> 0, block |-> 0, buf |-> <<>>]

(***************************************************************************)
(* Header fields.                                                          *)
(***************************************************************************)
sdsReqType(n) == CASE n < Limit[0] -> 0
                   [] n >= Limit[0] /\ n < Limit[1] -> 1
                   [] n >= Limit[0] /\ n >= Limit[1] /\ n < Limit[2] -> 2
                   [] n >= Limit[0] /\ n >= Limit[1] /\ n >= Limit[2] /\ n < Limit[3] -> 3
                   [] OTHER -> 4

sdslen(x) == x.len

sdsavail(x) == IF x.type = SDS_TYPE_5 THEN 0 ELSE x.alloc - x.len

sdsalloc(x) == IF x.type = SDS_TYPE_5 THEN x.len ELSE x.alloc

sdssetlen(x, n) == [x EXCEPT !.len = n % Limit[x.type]]

sdsinclen(x, n) == sdssetlen(x, x.len + n)

\* "Nothing to do, this type has no total allocation info."
sdssetalloc(x, n) == IF x.type = SDS_TYPE_5 THEN x
                     ELSE [x EXCEPT !.alloc = n % Limit[x.type]]

(***************************************************************************)
(* Blocks.                                                                 *)
(***************************************************************************)

\* memcpy(s + at, t, Len(t)), past the end of the block if it comes to that.
Put(x, at, t) ==
  [x EXCEPT !.buf = [k \in DOMAIN x.buf \cup at..(at + Len(t) - 1) |->
                       IF k \in at..(at + Len(t) - 1) THEN t[k - at + 1] ELSE x.buf[k]]]

\* s[at] = '\0'
PutNul(x, at) == Put(x, at, <<0>>)

\* A block of n bytes with header type: realloc, or malloc, memcpy and free.
Moved(x, type, n) ==
  [type |-> type, len |-> x.len % Limit[type], alloc |-> 0, block |-> n,
   buf |-> [k \in 0..(n - 1) |-> IF k <= x.len THEN x.buf[k] ELSE Junk]]

\* Nothing is known of the bytes after the NUL.
Forget(x) == [x EXCEPT !.buf = [k \in DOMAIN x.buf |-> IF k <= x.len THEN x.buf[k] ELSE Junk]]

Content(x) == [k \in 1..x.len |-> x.buf[k - 1]]

Smallest(S) == CHOOSE k \in S : \A j \in S : k <= j

\* strlen
CLength(x) == Smallest({k \in DOMAIN x.buf : x.buf[k] = 0})

(***************************************************************************)
(* The functions, as far as they succeed.                                  *)
(***************************************************************************)

\* A string of the bytes t.
sdsnewlen(t) ==
  LET n == Len(t)
      type == IF n = 0 THEN SDS_TYPE_8 ELSE sdsReqType(n)
  IN [type |-> type, len |-> n % Limit[type],
      alloc |-> IF type = SDS_TYPE_5 THEN 0 ELSE n % Limit[type],
      block |-> n + 1,
      buf |-> [k \in 0..n |-> IF k = n THEN 0 ELSE t[k + 1]]]

\* Mutant: the header type is that of the length, not of the room.
sdsMakeRoomFor_type(x, addlen) ==
  LET wanted == x.len + addlen
      newlen == IF wanted < SDS_MAX_PREALLOC THEN wanted * 2 ELSE wanted + SDS_MAX_PREALLOC
      type == IF sdsReqType(wanted) = SDS_TYPE_5 THEN SDS_TYPE_8 ELSE sdsReqType(wanted)
  IN IF sdsavail(x) >= addlen THEN x
     ELSE sdssetalloc(Moved(x, type, newlen + 1), newlen)

sdsMakeRoomFor(x, addlen) ==
  LET wanted == x.len + addlen
      newlen == IF wanted < SDS_MAX_PREALLOC THEN wanted * 2 ELSE wanted + SDS_MAX_PREALLOC
      type == IF sdsReqType(newlen) = SDS_TYPE_5 THEN SDS_TYPE_8 ELSE sdsReqType(newlen)
  IN IF sdsavail(x) >= addlen THEN x
     ELSE sdssetalloc(Moved(x, type, newlen + 1), newlen)

sdsRemoveFreeSpace(x) ==
  sdssetalloc(Moved(x, sdsReqType(x.len), x.len + 1), x.len)

sdscatlen(x, t) ==
  LET y == Put(sdsMakeRoomFor(x, Len(t)), x.len, t)
  IN PutNul(sdssetlen(y, x.len + Len(t)), x.len + Len(t))

\* Mutant: the room that is missing is counted from the end of the block.
sdscpylen_room(x, t) ==
  LET y == IF sdsalloc(x) < Len(t) THEN sdsMakeRoomFor(x, Len(t) - sdsalloc(x)) ELSE x
  IN sdssetlen(PutNul(Put(y, 0, t), Len(t)), Len(t))

sdscpylen(x, t) ==
  LET y == IF sdsalloc(x) < Len(t) THEN sdsMakeRoomFor(x, Len(t) - x.len) ELSE x
  IN sdssetlen(PutNul(Put(y, 0, t), Len(t)), Len(t))

sdsgrowzero(x, n) ==
  IF n <= x.len THEN x
  ELSE sdssetlen(Put(sdsMakeRoomFor(x, n - x.len), x.len, [k \in 1..(n - x.len + 1) |-> 0]), n)

sdsupdatelen(x) == sdssetlen(x, CLength(x))

sdsclear(x) == PutNul(sdssetlen(x, 0), 0)

sdsIncrLen(x, incr) == PutNul(sdsinclen(x, incr), x.len + incr)

\* memmove(s, s + start, n); s[n] = '\0'; sdssetlen(s, n)
Keep(x, start, n) ==
  sdssetlen(PutNul(Put(x, 0, [k \in 1..n |-> x.buf[start + k - 1]]), n), n)

\* sp goes to the first byte that stays, ep back to the last; strchr finds the
\* NUL in any cset.
sdstrim(x, cset) ==
  LET goes(k) == x.buf[k] \in cset \cup {0}
      sp == Smallest({k \in 0..x.len : k < x.len => ~goes(k)})
      back == Smallest({k \in 0..(x.len - 1 - sp) : k < x.len - 1 - sp => ~goes(x.len - 1 - k)})
  IN IF sp = x.len THEN Keep(x, sp, 0) ELSE Keep(x, sp, x.len - sp - back)

\* Mutant: the end is taken to be exclusive.
sdsrange_exclusive(x, start, end) ==
  LET place(n) == IF n >= 0 THEN n ELSE IF x.len + n < 0 THEN 0 ELSE x.len + n
      from == place(start)
      to == place(end)
  IN CASE x.len = 0 -> x
       [] x.len # 0 /\ (from > to \/ from >= x.len) -> Keep(x, 0, 0)
       [] OTHER -> Keep(x, from, (IF to >= x.len THEN x.len - 1 ELSE to) - from)

sdsrange(x, start, end) ==
  LET place(n) == IF n >= 0 THEN n ELSE IF x.len + n < 0 THEN 0 ELSE x.len + n
      from == place(start)
      to == place(end)
  IN CASE x.len = 0 -> x
       [] x.len # 0 /\ (from > to \/ from >= x.len) -> Keep(x, 0, 0)
       [] OTHER -> Keep(x, from, (IF to >= x.len THEN x.len - 1 ELSE to) - from + 1)

\* Each byte that is from becomes to; tolower and toupper do it with letters.
sdsmapchars(x, from, to) ==
  [x EXCEPT !.buf = [k \in DOMAIN x.buf |-> IF k < x.len /\ x.buf[k] = from THEN to
                                            ELSE x.buf[k]]]

(***************************************************************************)
(* Calls.                                                                  *)
(***************************************************************************)
Fits(n) == n <= MaxLen

Failed == [op |-> "failed"]
Begun == [op |-> "begun"]

\* The call c returns x, or fails if it allocates.
Returns(c, x, allocates) ==
  /\ ptr = "live"
  /\ \/ s' = Forget(x) /\ call' = c
     \/ allocates /\ call' = Failed /\ UNCHANGED s
  /\ UNCHANGED <<ptr, fmt, i>>

\* sdsnewlen, sdsnew, sdsempty, sdsfromlonglong.
new == \E t \in Args :
  /\ ptr = "null" /\ Fits(Len(t))
  /\ \/ s' = sdsnewlen(t) /\ ptr' = "live" /\ call' = [op |-> "new", t |-> t]
     \/ call' = Failed /\ UNCHANGED <<s, ptr>>
  /\ UNCHANGED <<fmt, i>>

\* sdsnewlen(NULL, n): the block is cleared before it is known to exist.
new_zero == \E n \in 0..MaxLen :
  /\ ptr = "null"
  /\ LET t == [k \in 1..n |-> 0]
     IN \/ s' = sdsnewlen(t) /\ ptr' = "live" /\ call' = [op |-> "new", t |-> t]
        \/ ptr' = "crashed" /\ call' = Failed /\ UNCHANGED s
  /\ UNCHANGED <<fmt, i>>

\* The caller goes on with the copy and frees the original.
dup == Returns([op |-> "dup"], sdsnewlen(Content(s)), TRUE)

sdsfree ==
  /\ ptr = "live"
  /\ ptr' = "null"
  /\ s' = NoString
  /\ call' = [op |-> "free"]
  /\ UNCHANGED <<fmt, i>>

\* sdscatlen, sdscatsds.
cat == \E t \in Args :
  /\ Fits(s.len + Len(t))
  /\ Returns([op |-> "cat", t |-> t], sdscatlen(s, t), sdsavail(s) < Len(t))

copy == \E t \in Args :
  /\ Fits(Len(t))
  /\ Returns([op |-> "copy", t |-> t], sdscpylen(s, t), sdsalloc(s) < Len(t))

growzero == \E n \in 0..MaxLen :
  Returns([op |-> "grow", n |-> n], sdsgrowzero(s, n), sdsavail(s) < n - s.len)

makeroom == \E n \in 0..MaxLen :
  /\ Fits(s.len + n)
  /\ Returns([op |-> "room", n |-> n], sdsMakeRoomFor(s, n), sdsavail(s) < n)

removefree == Returns([op |-> "shrink"], sdsRemoveFreeSpace(s), TRUE)

\* The caller writes t into the free space and announces it ...
incrlen == \E t \in Args :
  /\ Len(t) \in 1..sdsavail(s) /\ Fits(s.len + Len(t))
  /\ Returns([op |-> "cat", t |-> t], sdsIncrLen(Put(s, s.len, t), Len(t)), FALSE)

\* ... or cuts n bytes off.
decrlen == \E n \in 1..s.len :
  Returns([op |-> "cut", n |-> n], sdsIncrLen(s, -n), FALSE)

\* s[n - 1] = '\0'; sdsupdatelen(s)
updatelen == \E n \in 1..s.len :
  Returns([op |-> "update", n |-> n], sdsupdatelen(PutNul(s, n - 1)), FALSE)

clear == Returns([op |-> "clear"], sdsclear(s), FALSE)

\* cset is a C string: strchr looks no further than its NUL.
trim == \E t \in Args :
  /\ \A k \in DOMAIN t : t[k] # 0
  /\ LET cset == {t[k] : k \in DOMAIN t}
     IN Returns([op |-> "trim", t |-> cset], sdstrim(s, cset), FALSE)

range == \E n, m \in Indices :
  Returns([op |-> "range", n |-> n, m |-> m], sdsrange(s, n, m), FALSE)

mapchars == \E n, m \in Letters :
  Returns([op |-> "map", n |-> n, m |-> m], sdsmapchars(s, n, m), FALSE)

(***************************************************************************)
(* sdscatvprintf prints the text into a buffer of i bytes that is doubled  *)
(* until the last place but one stays NUL.  For a long format the first    *)
(* buffer is an allocated one.                                             *)
(***************************************************************************)
catvprintf == \E t \in Args :
  /\ ptr = "live"
  /\ \A k \in DOMAIN t : t[k] # 0
  /\ Fits(s.len + Len(t))
  /\ \/ /\ ptr' = "printf" /\ call' = Begun
        /\ fmt' = <<t>>
        /\ i' \in {StaticBuf, StaticBuf * 2}
     \/ call' = Failed /\ UNCHANGED <<ptr, fmt, i>>
  /\ UNCHANGED s

\* vsnprintf(buf, n, ...) of the text t.
vsnprintf(t, n) == SubSeq(t, 1, IF Len(t) < n THEN Len(t) ELSE n - 1)

\* if (buf[buflen - 2] != '\0')
printf_retry ==
  /\ ptr = "printf"
  /\ Len(vsnprintf(fmt[1], i)) > i - 2
  /\ \/ i' = i * 2 /\ UNCHANGED <<ptr, fmt, call>>
     \/ ptr' = "live" /\ fmt' = <<>> /\ i' = 0 /\ call' = Failed
  /\ UNCHANGED s

\* t = sdscat(s, buf)
printf_cat ==
  /\ ptr = "printf"
  /\ LET t == vsnprintf(fmt[1], i)
     IN /\ Len(t) <= i - 2
        /\ \/ s' = Forget(sdscatlen(s, t)) /\ call' = [op |-> "cat", t |-> fmt[1]]
           \/ sdsavail(s) < Len(t) /\ call' = Failed /\ UNCHANGED s
  /\ ptr' = "live"
  /\ fmt' = <<>>
  /\ i' = 0

(***************************************************************************)
(* sdscatfmt: a piece is one byte of the format, or what a directive       *)
(* stands for.  The NUL comes at the end.                                  *)
(***************************************************************************)
catfmt == \E t, u \in Args :
  /\ ptr = "live"
  /\ Fits(s.len + Len(t) + Len(u))
  /\ ptr' = "catfmt"
  /\ fmt' = <<t, u>>
  /\ i' = s.len
  /\ call' = Begun
  /\ UNCHANGED s

\* "Make sure there is always space for at least 1 char", then for n.
catfmt_room(x, n) ==
  LET y == IF sdsavail(x) = 0 THEN sdsMakeRoomFor(x, 1) ELSE x
  IN IF sdsavail(y) < n THEN sdsMakeRoomFor(y, n) ELSE y

\* A null pointer that sdsMakeRoomFor returns is used.
catfmt_piece ==
  /\ ptr = "catfmt" /\ fmt # <<>>
  /\ LET t == Head(fmt)
     IN \/ /\ s' = sdsinclen(Put(catfmt_room(s, Len(t)), i, t), Len(t))
           /\ i' = i + Len(t)
           /\ fmt' = Tail(fmt)
           /\ call' = [op |-> "cat", t |-> t]
           /\ UNCHANGED ptr
        \/ /\ sdsavail(s) = 0 \/ sdsavail(s) < Len(t)
           /\ ptr' = "crashed"
           /\ call' = Failed
           /\ UNCHANGED <<s, fmt, i>>

\* s[i] = '\0'
catfmt_end ==
  /\ ptr = "catfmt" /\ fmt = <<>>
  /\ s' = Forget(PutNul(s, i))
  /\ ptr' = "live"
  /\ i' = 0
  /\ call' = [op |-> "end"]
  /\ UNCHANGED fmt

Init ==
  /\ ptr = "null"
  /\ s = NoString
  /\ fmt = <<>>
  /\ i = 0
  /\ call = Failed

Next == \/ new \/ new_zero \/ dup \/ sdsfree \/ cat \/ copy \/ growzero \/ makeroom
        \/ removefree \/ incrlen \/ decrlen \/ updatelen \/ clear \/ trim \/ range
        \/ mapchars \/ catvprintf \/ printf_retry \/ printf_cat
        \/ catfmt \/ catfmt_piece \/ catfmt_end

Spec == Init /\ [][Next]_vars

(***************************************************************************)
(* Properties.                                                             *)
(***************************************************************************)

Present == {"live", "printf", "catfmt"}

\* The header describes the block: its fields hold what was assigned to them,
\* the length is within the allocation, and the allocation with its NUL is the
\* block, or a part of it where the header cannot tell.
HeaderSound ==
  ptr \in Present =>
    /\ s.len <= sdsalloc(s)
    /\ sdsalloc(s) < Limit[s.type]
    /\ IF s.type = SDS_TYPE_5 THEN s.len + 1 <= s.block ELSE s.alloc + 1 = s.block

\* "all the sds strings are" null-terminated, "always"; no call writes outside
\* of the block; and after sdsMakeRoomFor(s, n) the caller "can overwrite up to
\* addlen bytes after the end of the string, plus one more byte for nul term".
InBlock ==
  ptr \in Present =>
    /\ DOMAIN s.buf = 0..(s.block - 1)
    /\ ptr # "catfmt" => s.buf[s.len] = 0
    /\ call.op = "room" => s.len + call.n + 1 <= s.block

Bytes == INSTANCE ByteString WITH str <- Content(s)

\* sdstrim removes NUL bytes from the ends too, which are not "found in 'cset'".
TrimsNul ==
  /\ call'.op = "trim" /\ 0 \notin call'.t
  /\ \E k \in DOMAIN Content(s) : Content(s)[k] = 0
  /\ Content(s)' = Bytes!Trimmed(Content(s), call'.t \cup {0})

\* sdsrange takes an end before the first character for the first, and leaves
\* that one where the interval has none.
KeepsFirst ==
  /\ call'.op = "range" /\ Len(Content(s)) + call'.m < 0
  /\ Content(s)' = Bytes!Ranged(Content(s), call'.n, 0)

\* Every call does to the bytes of the string what the comments say, or one of
\* the two things in which the code is known to differ.
ImplementsByteString ==
  Bytes!Init /\ [][Bytes!Next \/ TrimsNul \/ KeepsFirst]_<<Content(s), call>>
=============================================================================
