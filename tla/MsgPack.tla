------------------------------- MODULE MsgPack -------------------------------
(***************************************************************************)
(* common/lserial.c: what cmsgpack.pack and cmsgpack.unpack compute.       *)
(*                                                                         *)
(* A byte string is a sequence of pairs: <<"byte", d>> is a byte of a      *)
(* payload, any other pair a first byte by its name in the format ("cc" is *)
(* 0xcc) with the number it holds, if it is one that holds a number.  The  *)
(* bytes of a number have the base Base, so that small numbers reach all   *)
(* the widths.  A Lua value is a record: its type t, and what it holds.    *)
(* A table is the sequence of its entries in the order lua_next has them.  *)
(* The recursion of the code is that of functions: over the level of       *)
(* nesting where it encodes, over the offset in the input where it decodes.*)
(***************************************************************************)
EXTENDS Integers, Sequences, FiniteSets, SequencesExt

CONSTANTS
  Base,       \* values of a byte, 256 in the code
  FixPos,     \* greatest number in one byte, 127 in the code
  FixNeg,     \* minus the least number in one byte, 32 in the code
  FixRaw,     \* lengths below it are in the first byte of a string, 32
  FixLen,     \* greatest length in the first byte of a table, 15
  MaxNesting, \* LUACMSGPACK_MAX_NESTING
  Values      \* Lua values, and whatever is in the tables among them

ASSUME MsgPackAssumption ==
  /\ Base \in Nat /\ Base > 1 /\ MaxNesting \in Nat
  /\ FixPos \in 0 .. Base - 1 /\ FixNeg \in 0 .. Base \div 2
  /\ FixRaw \in 0 .. Base /\ FixLen \in 0 .. Base * Base - 1

\* The numbers of w bytes are those below Pow(w).
Pow(w) ==
  LET square == Base * Base IN
  CASE w = 1 -> Base
    [] w = 2 -> square
    [] w = 4 -> square * square
    [] w = 8 -> (square * square) * (square * square)

Nil == [t |-> "nil"]
Bool(b) == [t |-> "boolean", b |-> b]
Number(n) == [t |-> "integer", n |-> n] \* a number that is an int64
Float(w) == [t |-> "float", w |-> w]    \* any other, 4 or 8 bytes wide
Str(s) == [t |-> "string", s |-> s]
Function == [t |-> "function"]
Table(kv) == [t |-> "table", kv |-> kv]

\* What a script can pass.  The keys of a table differ; of tables, functions and
\* floats the model does not tell which one it is.
IsLuaValue(v) ==
  \/ v \in {Nil, Function, Bool(TRUE), Bool(FALSE), Float(4), Float(8)}
  \/ v \in [t: {"integer"}, n: -(Pow(8) \div 2) .. Pow(8) \div 2 - 1]
  \/ v \in [t: {"string"}, s: Seq({"byte"} \X (0 .. Base - 1))] /\ Len(v.s) < Pow(4)
  \/ /\ v \in [t: {"table"}, kv: Seq((Values \ {Nil}) \X (Values \ {Nil}))] /\ Len(v.kv) < Pow(4)
     /\ \A i, j \in DOMAIN v.kv :
          i # j /\ v.kv[i][1].t \in {"integer", "string", "boolean"} => v.kv[i][1] # v.kv[j][1]

ASSUME ValuesAssumption == Nil \in Values /\ \A v \in Values : IsLuaValue(v)

-----------------------------------------------------------------------------
(* mp_buf: len bytes used, free bytes the code counts on, cap allocated.   *)

NewBuf == [len |-> 0, free |-> 0, cap |-> 0]

\* Mutant: all that was allocated counts as free, what is used of it too.
BufAppendTwice(buf, n) ==
  LET newlen == buf.len + n
      b == IF buf.free < n THEN [buf EXCEPT !.cap = 2 * newlen, !.free = 2 * newlen] ELSE buf
  IN  [b EXCEPT !.len = @ + n, !.free = @ - n]

\* mp_buf_append.
BufAppend(buf, n) ==
  LET newlen == buf.len + n
      b == IF buf.free < n THEN [buf EXCEPT !.cap = 2 * newlen, !.free = newlen] ELSE buf
  IN  [b EXCEPT !.len = @ + n, !.free = @ - n]

\* The reuse of the buffer in mp_pack.
BufReuse(buf) == [buf EXCEPT !.free = @ + buf.len, !.len = 0]

-----------------------------------------------------------------------------
(* Encoding: the pieces passed to mp_buf_append, in order.                 *)

\* Kinds of first bytes, and how many bytes of a number are behind them.
Width(k) ==
  CASE k \in {"cc", "d0", "d9"}                   -> 1
    [] k \in {"cd", "d1", "da", "dc", "de"}       -> 2
    [] k \in {"ce", "d2", "db", "dd", "df", "ca"} -> 4
    [] k \in {"cf", "d3", "cb"}                   -> 8
    [] OTHER                                      -> 0

Kinds == {"fix+", "fix-", "raw", "array", "map", "c0", "c2", "c3", "ca", "cb", "cc", "cd", "ce",
          "cf", "d0", "d1", "d2", "d3", "d9", "da", "db", "dc", "dd", "de", "df"}

Byte(n) == <<"byte", n % Base>>
Bytes2(n) == <<Byte(n \div Base), Byte(n)>>
Bytes4(n) == Bytes2(n \div Pow(2)) \o Bytes2(n)

\* The lowest w bytes of n, highest first.
Bytes(n, w) ==
  CASE w = 1 -> <<Byte(n)>>
    [] w = 2 -> Bytes2(n)
    [] w = 4 -> Bytes4(n)
    [] w = 8 -> Bytes4(n \div Pow(4)) \o Bytes4(n)

\* A first byte, and the number in it or behind it.
Coded(k, n) == IF Width(k) = 0 THEN <<<<k, n>>>> ELSE <<<<k, 0>>>> \o Bytes(n, Width(k))

\* mp_encode_bytes.
EncodeBytes(s) ==
  LET len == Len(s)
      kind == CASE len < FixRaw -> "raw"
                [] len \in FixRaw .. Base - 1 -> "d9"
                [] len \in Base .. Pow(2) - 1 -> "da"
                [] OTHER -> "db"
  IN  <<Coded(kind, len), s>>

\* The first form whose range has the number.
IntKind(n) ==
  CASE n \in 0 .. FixPos                -> "fix+"
    [] n \in FixPos + 1 .. Base - 1     -> "cc"
    [] n \in Base .. Pow(2) - 1         -> "cd"
    [] n \in Pow(2) .. Pow(4) - 1       -> "ce"
    [] n >= Pow(4)                      -> "cf"
    [] n \in -FixNeg .. -1              -> "fix-"
    [] n \in -(Base \div 2) .. -FixNeg - 1              -> "d0"
    [] n \in -(Pow(2) \div 2) .. -(Base \div 2) - 1     -> "d1"
    [] n \in -(Pow(4) \div 2) .. -(Pow(2) \div 2) - 1   -> "d2"
    [] OTHER                            -> "d3"

\* mp_encode_int; a small negative number is its byte.
EncodeInt(n) == Coded(IntKind(n), IF n \in -FixNeg .. -1 THEN n % Base ELSE n)

\* mp_encode_array and mp_encode_map.
EncodeLen(fix, w2, w4, n) ==
  Coded(IF n <= FixLen THEN fix ELSE IF n <= Pow(2) - 1 THEN w2 ELSE w4, n)

EncodeArray(n) == EncodeLen("array", "dc", "dd", n)
EncodeMap(n) == EncodeLen("map", "de", "df", n)

\* Mutant: it is enough that the number of the entries is one of the keys.
TableIsAnArrayMax(kv) ==
  /\ \A x \in DOMAIN kv : kv[x][1].t = "integer"
  /\ kv # <<>> => \E x \in DOMAIN kv : kv[x][1].n = Len(kv)

\* table_is_an_array: positive integers for keys, and the greatest is their number.
TableIsAnArray(kv) ==
  /\ \A x \in DOMAIN kv : kv[x][1].t = "integer" /\ kv[x][1].n > 0
  /\ kv # <<>> => \E x \in DOMAIN kv : kv[x][1].n = Len(kv)
  /\ \A x \in DOMAIN kv : kv[x][1].n <= Len(kv)

\* lua_gettable.
Entry(kv, j) ==
  IF \E x \in DOMAIN kv : kv[x][1] = Number(j)
  THEN kv[CHOOSE x \in DOMAIN kv : kv[x][1] = Number(j)][2] ELSE Nil

\* mp_encode_lua_type, and mp_encode_lua_table_as_array and _as_map; inner has the
\* pieces of the values one level deeper.  Tables too deep are sent as nil.
EncodeType(v, level, inner) ==
  CASE v.t = "string"  -> EncodeBytes(v.s)
    [] v.t = "boolean" -> <<Coded(IF v.b THEN "c3" ELSE "c2", 0)>>
    [] v.t = "integer" -> <<EncodeInt(v.n)>>
    [] v.t = "float"   -> <<Coded(IF v.w = 4 THEN "ca" ELSE "cb", 0)>>
    [] v.t = "table" /\ level < MaxNesting ->
         IF TableIsAnArray(v.kv)
         THEN <<EncodeArray(Len(v.kv))>> \o
              FlattenSeq([j \in DOMAIN v.kv |-> inner[Entry(v.kv, j)]])
         ELSE <<EncodeMap(Len(v.kv))>> \o
              FlattenSeq([j \in DOMAIN v.kv |-> inner[v.kv[j][1]] \o inner[v.kv[j][2]]])
    [] OTHER -> <<Coded("c0", 0)>>

Encoding[level \in 0 .. MaxNesting] == [v \in Values |-> EncodeType(v, level, Encoding[level + 1])]

Encode(v, level) == Encoding[level][v]

\* mp_pack.
Pack(args) == FlattenSeq([i \in DOMAIN args |-> FlattenSeq(Encode(args[i], 0))])

\* What mp_pack does to the buffer: it appends a length, or reuses the buffer.
Reuse == -1

Writes(args) ==
  FlattenSeq([i \in DOMAIN args |->
    LET pieces == Encode(args[i], 0) IN [j \in DOMAIN pieces |-> Len(pieces[j])] \o <<Reuse>>])

\* A write: the buffer behind it, and all the buffers there were.
Written(before, n) ==
  LET buf == IF n = Reuse THEN BufReuse(before.buf) ELSE BufAppend(before.buf, n)
  IN  [buf |-> buf, seen |-> before.seen \cup {buf}]

\* The buffer as it is first, and after each of the writes.
Buffers(writes) ==
  LET run[n \in 0 .. Len(writes)] ==
        IF n = 0 THEN [buf |-> NewBuf, seen |-> {NewBuf}] ELSE Written(run[n - 1], writes[n])
  IN  run[Len(writes)].seen

-----------------------------------------------------------------------------
(* Decoding: from an offset in a byte string to a value and an offset.     *)

Got(v, o) == [v |-> v, o |-> o, err |-> "none"]

Fails(why) == [v |-> Nil, o |-> 0, err |-> why]

\* mp_cur_need.
Needs(s, o, n) == Len(s) - o < n

\* What is read behind the end would be anything.
At(s, k) == IF k \in DOMAIN s THEN s[k] ELSE <<"byte", 0>>

Number2(s, k) == At(s, k)[2] * Base + At(s, k + 1)[2]
Number4(s, k) == Number2(s, k) * Pow(2) + Number2(s, k + 2)

\* The w bytes from the k-th on as a number, highest first.
NumberAt(s, k, w) ==
  CASE w = 1 -> At(s, k)[2]
    [] w = 2 -> Number2(s, k)
    [] w = 4 -> Number4(s, k)
    [] w = 8 -> Number4(s, k) * Pow(4) + Number4(s, k + 4)

Signed(n, w) == IF n < Pow(w) \div 2 THEN n ELSE n - Pow(w)

\* lua_settable: no entry for a nil value.
Present(entries) == SelectSeq(entries, LAMBDA e : e[2] # Nil)

\* The cases of mp_decode_to_lua_type: what is behind a first byte k and its number n,
\* from o on.  What the loops that read the entries of tables return for each offset
\* is in loop.
DecodeCase(s, k, n, o, loop) ==
  LET array == loop[o]["array"][n]
      hash == loop[o]["hash"][n]
  IN  CASE k \in {"fix+", "cc", "cd", "ce", "cf"} -> Got(Number(n), o)
        [] k = "fix-" -> Got(Number(Signed(n, 1)), o)
        [] k \in {"d0", "d1", "d2", "d3"} -> Got(Number(Signed(n, Width(k))), o)
        [] k = "c0" -> Got(Nil, o)
        [] k \in {"c2", "c3"} -> Got(Bool(k = "c3"), o)
        [] k \in {"ca", "cb"} -> Got(Float(Width(k)), o)
        [] k \in {"raw", "d9", "da", "db"} ->
             IF Needs(s, o, n) THEN Fails("missing bytes") ELSE Got(Str(SubSeq(s, o + 1, o + n)), o + n)
        [] k \in {"array", "dc", "dd"} ->
             IF array.err # "none" THEN array
             ELSE Got(Table(Present([j \in 1 .. n |-> <<Number(j), array.v[j]>>])), array.o)
        [] k \in {"map", "de", "df"} ->
             IF hash.err # "none" THEN hash ELSE Got(Table(Present(hash.v)), hash.o)

\* Mutant: after the first byte the number is read without a look at what is left.
DecodeTypeUnchecked(s, o, loop) ==
  LET k == At(s, o + 1)[1]
      w == Width(k)
      n == IF w = 0 THEN At(s, o + 1)[2] ELSE NumberAt(s, o + 2, w)
  IN  IF Needs(s, o, 1) THEN Fails("missing bytes")
      ELSE IF k \notin Kinds THEN Fails("bad format")
      ELSE DecodeCase(s, k, n, o + 1 + w, loop)

\* mp_decode_to_lua_type.
DecodeType(s, o, loop) ==
  LET k == At(s, o + 1)[1]
      w == Width(k)
      n == IF w = 0 THEN At(s, o + 1)[2] ELSE NumberAt(s, o + 2, w)
  IN  IF Needs(s, o, 1) THEN Fails("missing bytes")
      ELSE IF k \notin Kinds THEN Fails("bad format")
      ELSE IF Needs(s, o, 1 + w) THEN Fails("missing bytes")
      ELSE DecodeCase(s, k, n, o + 1 + w, loop)

\* There is no entry for the key nil.
PairOf(key, val) ==
  IF key.err # "none" THEN key
  ELSE IF val.err # "none" THEN val
  ELSE IF key.v = Nil THEN Fails("index is nil")
  ELSE Got(<<key.v, val.v>>, val.o)

\* A key and its value.
DecodePair(s, o, loop) ==
  LET key == DecodeType(s, o, loop) IN PairOf(key, DecodeType(s, key.o, loop))

\* The first entry and those that were read behind it.
Prepend(x, rest) ==
  IF x.err # "none" THEN x
  ELSE IF rest.err # "none" THEN rest
  ELSE Got(<<x.v>> \o rest.v, rest.o)

\* The loops of mp_decode_to_lua_array, mp_decode_to_lua_hash and mp_unpack_full at
\* offset o, with len turns to go.
Turn(s, o, kind, len, loop) ==
  LET x == IF kind = "hash" THEN DecodePair(s, o, loop) ELSE DecodeType(s, o, loop)
  IN  IF len = 0 \/ (kind = "stream" /\ o >= Len(s)) THEN Got(<<>>, o)
      ELSE Prepend(x, loop[x.o][kind][len - 1])

Loops(s) ==
  LET loop[o \in Nat] ==
        [kind \in {"array", "hash", "stream"} |-> [len \in Nat |-> Turn(s, o, kind, len, loop)]]
  IN  loop

\* Mutant: an offset that counts from 1, as positions in Lua do.
NextOffsetLua(s, o) == IF o = Len(s) THEN -1 ELSE o + 1

\* The offset to go on from, -1 at the end of the input.
NextOffset(s, o) == IF o = Len(s) THEN -1 ELSE o

\* The values, or the error of luaL_error.
Returned(s, r) ==
  IF r.err # "none" THEN [vals |-> <<>>, err |-> r.err, next |-> -1]
  ELSE [vals |-> r.v, err |-> "none", next |-> NextOffset(s, r.o)]

\* Limit 0 with offset 0 stands for no limit.
UnpackFull(s, limit, offset) ==
  LET turns == IF limit = 0 /\ offset = 0 THEN Len(s) ELSE limit
  IN  IF offset > Len(s) THEN [vals |-> <<>>, err |-> "offset", next |-> -1]
      ELSE Returned(s, Loops(s)[offset]["stream"][turns])

Unpack(s) == UnpackFull(s, 0, 0)
UnpackOne(s, offset) == UnpackFull(s, 1, offset)
UnpackLimit(s, limit, offset) == UnpackFull(s, limit, offset)

-----------------------------------------------------------------------------
(* What packing and unpacking keeps of a value, without bytes.             *)

\* The keys are 1, 2, ... up to their number.
IsList(kv) == {kv[j][1] : j \in DOMAIN kv} = {Number(j) : j \in DOMAIN kv}

KeepType(v, level, inner) ==
  IF v.t = "function" \/ (v.t = "table" /\ level = MaxNesting) THEN Nil
  ELSE IF v.t # "table" THEN v
  ELSE Table(Present([j \in DOMAIN v.kv |->
         IF IsList(v.kv) THEN <<Number(j), inner[Entry(v.kv, j)]>>
         ELSE <<inner[v.kv[j][1]], inner[v.kv[j][2]]>>]))

Keeping[level \in 0 .. MaxNesting] == [v \in Values |-> KeepType(v, level, Keeping[level + 1])]

Kept(v, level) == Keeping[level][v]

KeptArgs(args) == [i \in DOMAIN args |-> Kept(args[i], 0)]

\* Whether a key in a value is lost, which the receiver has no table for.
LoseType(v, level, inner) ==
  /\ v.t = "table" /\ level < MaxNesting
  /\ \E j \in DOMAIN v.kv :
       \/ Kept(v.kv[j][1], level + 1) = Nil
       \/ \E i \in 1 .. 2 : inner[v.kv[j][i]]

Losing[level \in 0 .. MaxNesting] == [v \in Values |-> LoseType(v, level, Losing[level + 1])]

LosesKey(v, level) == Losing[level][v]
==============================================================================
