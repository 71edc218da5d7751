------------------------------ MODULE WebCodec ------------------------------
(***************************************************************************)
(* How the web client writes and reads the data of a frame: the fields of  *)
(* a table, the properties of a message, and the split of a body into      *)
(* frames.  A buffer is a sequence of cells; a number, a string, a length  *)
(* or a type letter takes one cell whatever its width, so that the lengths *)
(* the code adds up decide where the reader goes on.  Numbers keep a width *)
(* of their own, IntBits, that of the 32 bits of a long int.               *)
(***************************************************************************)
EXTENDS Integers, Sequences, SequencesExt

CONSTANTS
  IntBits,    \* the width of a field of type 'I'
  FloatBits,  \* the significant bits of a field of type 'f'
  Numbers,    \* the integers tried
  Fractions,  \* the other numbers tried, each by its significant bits
  FrameMax,   \* what the client takes for the largest frame, 4096 in the code
  Overhead    \* of a frame: 7 bytes before and one after the payload

ASSUME WebCodecAssumption ==
  /\ IntBits \in Nat \ {0} /\ Numbers \subseteq Int
  /\ FloatBits \in Nat \ {0} /\ Fractions \subseteq Nat \ {0}
  /\ Overhead \in Nat \ {0} /\ FrameMax \in Nat /\ FrameMax > Overhead

-----------------------------------------------------------------------------
(* Fields: [t |-> type, v |-> value]; a table is a sequence of <<key, field>>. *)

Signed(n) ==
  LET m == n % 2^IntBits IN IF m >= 2^(IntBits - 1) THEN m - 2^IntBits ELSE m

\* What a float keeps of the significant bits of a number: the nearest, and the even
\* one of two
Float(n) ==
  LET top  == CHOOSE k \in 0..n : 2^k <= n /\ n < 2^(k + 1)
      unit == 2^(top + 1 - FloatBits)
      up   == \/ 2 * (n % unit) > unit
              \/ 2 * (n % unit) = unit /\ (n \div unit) % 2 = 1
  IN IF top < FloatBits THEN n ELSE (n \div unit + IF up THEN 1 ELSE 0) * unit

\* What setField refuses, by throwing or by losing count of its position: null
\* goes to the branch of objects, an array's elements are written without their
\* offset, and a byte array's length is read from a property that is not there.
RECURSIVE Accepted(_)
Accepted(f) ==
  CASE f.t \in {"null", "undefined", "bytes"} -> FALSE
    [] f.t = "array" -> f.v = << >>
    [] f.t = "table" -> \A i \in DOMAIN f.v : Accepted(f.v[i][2])
    [] OTHER -> TRUE

\* The letters of setField.  The tests that should choose 'l' for large integers and
\* 'd' for other large numbers compare a boolean and are always true.
RECURSIVE SetField(_), SetTable(_), FaultyCountsEntries(_)
SetField(f) ==
  CASE f.t = "string"  -> <<"S", f.v>>
    [] f.t = "boolean" -> <<"t", IF f.v THEN 1 ELSE 0>>
    [] f.t = "bigint"  -> <<"l", f.v>>
    [] f.t = "number"  -> <<"I", Signed(f.v)>>
    [] f.t = "fraction" -> <<"f", Float(f.v)>>
    [] f.t = "date"    -> <<"T", f.v \div 1000>>
    [] f.t = "array"   -> <<"A", 0>>
    [] f.t = "table"   -> <<"F">> \o SetTable(f.v)

Entries(table, Set(_)) ==
  FoldLeft(LAMBDA acc, e : acc \o <<e[1]>> \o Set(e[2]), << >>, table)

FaultyCountsEntries(table) ==
  <<Len(table)>> \o Entries(table, SetField)

SetTable(table) ==
  LET cells == Entries(table, SetField) IN <<Len(cells)>> \o cells

Field(t, v) == [t |-> t, v |-> v]

\* getField reads what the broker writes, more types than setField writes.  Each
\* returns the field and the number of cells read.
RECURSIVE GetField(_, _), GetTable(_, _), GetEntries(_, _, _)
GetField(b, i) ==
  CASE b[i] = "t" -> <<Field("boolean", b[i + 1] = 1), 2>>
    [] b[i] \in {"b", "B", "s", "u", "I", "i", "l"} -> <<Field("number", b[i + 1]), 2>>
    [] b[i] \in {"f", "d"} -> <<Field("fraction", b[i + 1]), 2>>
    [] b[i] = "S" -> <<Field("string", b[i + 1]), 2>>
    [] b[i] = "T" -> <<Field("date", b[i + 1] * 1000), 2>>
    [] b[i] = "V" -> <<Field("null", 0), 1>>
    [] b[i] = "A" -> <<Field("array", << >>), 2>>
    [] b[i] = "F" -> LET t == GetTable(b, i + 1) IN <<Field("table", t[1]), 1 + t[2]>>

GetEntries(b, i, end) ==
  IF i >= end THEN << >>
  ELSE LET f == GetField(b, i + 1)
       IN  <<<<b[i], f[1]>>>> \o GetEntries(b, i + 1 + f[2], end)

GetTable(b, i) == <<GetEntries(b, i + 1, i + 1 + b[i]), 1 + b[i]>>

\* What the reader is meant to see: a date to the second, a bigint as a number.
RECURSIVE Seen(_)
Seen(f) ==
  CASE f.t = "date" -> Field("date", (f.v \div 1000) * 1000)
    [] f.t = "bigint" -> Field("number", f.v)
    [] f.t = "table" -> Field("table", [i \in DOMAIN f.v |-> <<f.v[i][1], Seen(f.v[i][2])>>])
    [] OTHER -> f

\* What the letters of setField have room for.
RECURSIVE Fits(_)
Fits(f) ==
  /\ f.t = "number" => f.v \in -(2^(IntBits - 1))..(2^(IntBits - 1) - 1)
  /\ f.t = "fraction" => Float(f.v) = f.v
  /\ f.t = "table" => \A i \in DOMAIN f.v : Fits(f.v[i][2])

Leaves ==
  [t : {"number", "bigint"}, v : Numbers] \union [t : {"boolean"}, v : BOOLEAN]
    \union [t : {"date"}, v : {999, 1000, 2500}] \union [t : {"fraction"}, v : Fractions]
    \union {Field("string", "x"), Field("null", 0), Field("bytes", << >>),
            Field("array", << >>), Field("array", <<Field("boolean", TRUE)>>)}

Tables(F) == {<< >>} \union {<<<<"k", f>>>> : f \in F}
               \union {<<<<"k", f>>, <<"l", g>>>> : f \in F, g \in F}

Nested == Leaves \union {Field("table", t) : t \in Tables(Leaves)}

\* Whatever the table the client accepts, the reader ends where the writer did, so
\* that what follows is read from the right place; and the table is read back as it
\* was given.  The exceptions are integers beyond the width of 'I', which wrap, and
\* other numbers with more digits than 'f' has (0.1 among them), which are rounded.
TablesSurvive ==
  \A t \in {<< >>} \union {<<<<"k", f>>, <<"l", Field("boolean", TRUE)>>>> : f \in Nested} :
    LET f == Field("table", t)
        b == SetTable(t) \o <<"rest">>
    IN  Accepted(f) =>
          /\ Fits(f) => GetTable(b, 1)[1] = Seen(f).v
          /\ b[1 + GetTable(b, 1)[2]] = "rest"

-----------------------------------------------------------------------------
(* Message properties *)

\* The flag bits from the highest on, in the order setProperties writes the values.
Written ==
  <<"contentType", "contentEncoding", "headers", "deliveryMode", "priority",
    "correlationId", "replyTo", "expiration", "messageId", "timestamp", "type",
    "userId", "appId">>

FaultyReadsTypeFirst ==
  <<"contentType", "contentEncoding", "headers", "deliveryMode", "priority",
    "correlationId", "replyTo", "expiration", "messageId", "type", "timestamp",
    "userId", "appId">>

\* The order in which getProperties tests the flags and reads the values.
Read ==
  <<"contentType", "contentEncoding", "headers", "deliveryMode", "priority",
    "correlationId", "replyTo", "expiration", "messageId", "timestamp", "type",
    "userId", "appId">>

\* A property that is not set, empty or zero is not sent.
SetProperties(props) ==
  LET given == {i \in DOMAIN Written : props[Written[i]] # 0}
  IN  <<given>> \o FoldLeft(LAMBDA acc, i : IF i \in given
                                            THEN Append(acc, props[Written[i]]) ELSE acc,
                            << >>, [i \in DOMAIN Written |-> i])

\* The reader gives the value at its position to the next name whose flag is set.
GetProperties(b) ==
  LET given == b[1]
      Place(i) == 1 + Len(SelectSeq([j \in 1..i |-> j], LAMBDA j : j \in given))
  IN  [name \in {Read[i] : i \in DOMAIN Read} |->
         LET i == CHOOSE x \in DOMAIN Read : Read[x] = name
         IN  IF i \in given THEN b[Place(i)] ELSE 0]

\* Every combination of up to three properties is read back under its own names.
PropertiesSurvive ==
  \A a, b, c \in 1..Len(Written) :
    LET props == [name \in {Written[i] : i \in DOMAIN Written} |->
                    IF name \in {Written[a], Written[b], Written[c]}
                    THEN IF name = Written[a] THEN 1 ELSE IF name = Written[b] THEN 2 ELSE 3
                    ELSE 0]
    IN  GetProperties(SetProperties(props)) = props

-----------------------------------------------------------------------------
(* Bodies *)

FaultyForgetsHead(size, pos, head) ==
  IF size - pos < FrameMax - Overhead THEN size - pos ELSE FrameMax - Overhead

\* How much of the body goes into the frame that starts head bytes into a message.
FrameSize(size, pos, head) ==
  LET room == FrameMax - Overhead - head
  IN  IF size - pos < room THEN size - pos ELSE room

\* The WebSocket messages of a publish: the bytes before the body frame, and the
\* <<position, size>> of the part of the body in it.  The method and the header,
\* head bytes long, share the first message with the first part if there is room.
RECURSIVE Parts(_, _, _)
Parts(size, pos, head) ==
  IF pos >= size THEN << >>
  ELSE LET n == FrameSize(size, pos, head)
       IN  <<[head |-> head, pos |-> pos, size |-> n]>> \o Parts(size, pos + n, 0)

PublishMessages(size, head) ==
  IF size = 0 THEN <<[head |-> head, pos |-> 0, size |-> 0]>>
  ELSE IF head >= FrameMax - Overhead
       THEN <<[head |-> head, pos |-> 0, size |-> 0]>> \o Parts(size, 0, 0)
       ELSE Parts(size, 0, head)

\* The bytes sent: the positions are counted from the start of the buffer, so these are
\* those of the body only when the body starts there.
BytesSent(messages) ==
  FoldLeft(LAMBDA acc, m : acc \o [i \in 1..m.size |-> m.pos + i], << >>, messages)

\* Every body arrives whole, in order, whatever is left of the first message after the
\* method and the header, in frames that are neither empty nor larger than agreed.
BodiesArrive ==
  \A size \in 0..(3 * FrameMax), head \in 1..FrameMax :
    LET ms == PublishMessages(size, head) IN
    /\ BytesSent(ms) = [i \in 1..size |-> i]
    /\ \A i \in DOMAIN ms :
         /\ ms[i].size > 0 => ms[i].head + ms[i].size + Overhead <= FrameMax
         /\ i > 1 => ms[i].size > 0 /\ ms[i].head = 0

=============================================================================
