-------------------------------- MODULE Resp --------------------------------
(***************************************************************************)
(* The protocol values are written and read in (src/resp.rs), over bytes.  *)
(* Reading gives a value and how far it reaches, or says that the input    *)
(* holds only "part" of one, or that it is "wrong".                        *)
(***************************************************************************)
EXTENDS Decimal

MAX_DEPTH == 8
MAX_BULK_LENGTH == 2^29

CRLF == <<13, 10>>
Dollar == 36
Asterisk == 42
Colon == 58

SimpleString(text) == [kind |-> "simple", text |-> text]

Error(text) == [kind |-> "error", text |-> text]

Integer(number) == [kind |-> "integer", number |-> number]

Null == [kind |-> "null"]

NullArray == [kind |-> "null array"]

BulkString(bytes) == [kind |-> "bulk", bytes |-> bytes]

Array(values) == [kind |-> "array", values |-> values]

File(bytes) == [kind |-> "file", bytes |-> bytes]

\* Values one after another, for an answer that is more than one.
Sequence(values) == [kind |-> "sequence", values |-> values]

RECURSIVE Encode(_)
Encode(value) ==
    LET all(values) == FlattenSeq([i \in DOMAIN values |-> Encode(values[i])])
    IN  CASE value.kind = "simple" -> <<Plus>> \o value.text \o CRLF
          [] value.kind = "error" -> <<Minus>> \o value.text \o CRLF
          [] value.kind = "integer" -> <<Colon>> \o Spelled(value.number) \o CRLF
          [] value.kind = "null" -> <<Dollar>> \o Spelled(-1) \o CRLF
          [] value.kind = "null array" -> <<Asterisk>> \o Spelled(-1) \o CRLF
          [] value.kind = "bulk" ->
               <<Dollar>> \o Digits(Len(value.bytes)) \o CRLF \o value.bytes \o CRLF
          [] value.kind = "array" ->
               <<Asterisk>> \o Digits(Len(value.values)) \o CRLF \o all(value.values)
          [] value.kind = "file" ->
               <<Dollar>> \o Digits(Len(value.bytes)) \o CRLF \o value.bytes
          [] value.kind = "sequence" -> all(value.values)

-----------------------------------------------------------------------------
(* Reading.  A position counts the bytes before it.                        *)

Part == [is |-> "part"]

Wrong == [is |-> "wrong"]

Found(value, pos) == [is |-> "value", value |-> value, pos |-> pos]

From(input, pos) == SubSeq(input, pos + 1, Len(input))

\* How many bytes there are before the next CRLF, or -1 where there is none.
BeforeCRLF(input) ==
    LET ends == {i \in 1..(Len(input) - 1) : SubSeq(input, i, i + 1) = CRLF}
    IN  IF ends = {} THEN -1 ELSE (CHOOSE i \in ends : \A j \in ends : i <= j) - 1

\* Mutant: a bulk string is taken to be there when its own bytes are.
ParseBulkUnended(input, payload, pos) ==
    LET len == NumberIn(payload)
    IN  IF ~IsNumber(payload) \/ len > MAX_BULK_LENGTH THEN Wrong
        ELSE IF Len(input) - pos < len THEN Part
        ELSE Found(BulkString(SubSeq(input, pos + 1, pos + len)), pos + len + 2)

\* It is whole when the CRLF after its bytes has arrived; which two bytes those
\* are is not looked at.
ParseBulk(input, payload, pos) ==
    LET len == NumberIn(payload)
    IN  IF ~IsNumber(payload) \/ len > MAX_BULK_LENGTH THEN Wrong
        ELSE IF Len(input) - pos < len + 2 THEN Part
        ELSE Found(BulkString(SubSeq(input, pos + 1, pos + len)), pos + len + 2)

RECURSIVE ParseValue(_, _, _)
RECURSIVE ParseItems(_, _, _, _, _)

\* So many values more, for the array they are in.
ParseItems(input, pos, more, depth, values) ==
    IF more = 0 THEN Found(Array(values), pos)
    ELSE LET next == ParseValue(input, pos, depth)
         IN  IF next.is # "value" THEN next
             ELSE ParseItems(input, next.pos, more - 1, depth, Append(values, next.value))

ParseValue(input, pos, depth) ==
    LET end     == BeforeCRLF(From(input, pos))
        after   == pos + end + 2
        payload == SubSeq(input, pos + 2, pos + end)
        kind    == input[pos + 1]
    IN  CASE end = -1 -> Part
          [] end = 0 -> Wrong
          [] end > 0 /\ kind = Plus -> Found(SimpleString(payload), after)
          [] end > 0 /\ kind = Minus -> Found(Error(payload), after)
          [] end > 0 /\ kind = Colon ->
               IF IsSigned(payload) THEN Found(Integer(SignedIn(payload)), after) ELSE Wrong
          [] end > 0 /\ kind = Dollar -> ParseBulk(input, payload, after)
          [] end > 0 /\ kind = Asterisk ->
               IF depth >= MAX_DEPTH \/ ~IsNumber(payload) THEN Wrong
               ELSE ParseItems(input, after, NumberIn(payload), depth + 1, << >>)
          [] OTHER -> Wrong

Parse(input) == ParseValue(input, 0, 0)
=============================================================================
