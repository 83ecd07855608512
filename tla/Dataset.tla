------------------------------ MODULE Dataset -------------------------------
(***************************************************************************)
(* Reading the file a dataset is kept in between runs (src/rdb.rs).  A     *)
(* server that wrote one is modelled from what the reader expects of it;   *)
(* the reader is the code's, over bytes.  A field read is a record: its    *)
(* value and where reading goes on, or a refusal.                          *)
(***************************************************************************)
EXTENDS Decimal

CONSTANTS
    KeysStored,      \* strings as keys: [is |-> bytes, as |-> a way to store them]
    ValuesStored,    \* strings as values, likewise
    Deadlines,       \* when keys expire, in milliseconds
    Now,             \* when the file is loaded
    MaxSections,     \* bound: the sections of a file
    Begun,           \* what a string being squeezed begins with: [plain, packed]
    Literals,        \* runs of bytes a squeezed string keeps as they are
    Repeats,         \* [length, distance] of what it repeats
    MaxInstructions  \* bound: the instructions of a squeezed string

VARIABLES
    file,      \* the bytes written so far
    status,    \* how far the writer is
    sections,  \* how many sections it has written
    database,  \* the database it is writing
    due,       \* when the key about to be written expires: << >> for never
    saved,     \* history: what a server holding this dataset has at Now
    plain,     \* a string being squeezed
    packed     \* what it is squeezed into so far

vars == <<file, status, sections, database, due, saved, plain, packed>>

STRING_KEY == 0
AUXILIARY == 250
RESIZE == 251
EXPIRES_AT_MILLISECONDS == 252
EXPIRES_AT_SECONDS == 253
DATABASE == 254
END == 255
MAGIC == <<82, 69, 68, 73, 83>>
HEADER == 9

\* Bound: no length or time in the model reaches this; numbers stop here.
Huge == 2^22

-----------------------------------------------------------------------------
(* The reader.                                                             *)

Refused == [ok |-> FALSE]

Read(is, at) == [ok |-> TRUE, is |-> is, at |-> at]

\* What follows the `?` after a read.
Then(read, Step(_)) == IF read.ok THEN Step(read) ELSE Refused

Take(f, at, length) ==
    IF at + length <= Len(f) THEN Read(SubSeq(f, at + 1, at + length), at + length)
    ELSE Refused

BigEndian(bytes) ==
    FoldLeft(LAMBDA n, b : IF n >= Huge THEN Huge ELSE 256 * n + b, 0, bytes)

LittleEndian(bytes) == BigEndian(Reverse(bytes))

\* Two's complement, of as many bytes as there are.
Signed(bytes) ==
    IF Last(bytes) < 128 THEN LittleEndian(bytes)
    ELSE -1 - LittleEndian([i \in DOMAIN bytes |-> 255 - bytes[i]])

\* A length, or the way that a string is packed.
Length(f, at) ==
    Then(Take(f, at, 1), LAMBDA lead :
        LET first  == lead.is[1]
            of(read, n) == [packed |-> FALSE, n |-> n] @@ read
        IN  CASE first < 64 -> of(lead, first)
              [] first \in 64..127 ->
                   Then(Take(f, lead.at, 1), LAMBDA low : of(low, 256 * (first - 64) + low.is[1]))
              [] first = 128 -> Then(Take(f, lead.at, 4), LAMBDA field : of(field, BigEndian(field.is)))
              [] first = 129 -> Then(Take(f, lead.at, 8), LAMBDA field : of(field, BigEndian(field.is)))
              [] first \in 130..191 -> Refused
              [] OTHER -> [packed |-> TRUE, n |-> first - 192] @@ lead)

Count(f, at) ==
    Then(Length(f, at), LAMBDA length : IF length.packed THEN Refused
                                        ELSE Read(length.n, length.at))

\* Bytes that are already written are written again, one at a time, so that a
\* repeat may reach into what it is itself writing.
RECURSIVE Repeat(_, _, _)
Repeat(out, from, length) ==
    IF length = 0 THEN out ELSE Repeat(Append(out, out[from]), from + 1, length - 1)

\* unsqueeze, from an instruction on: bytes as they are, or a repeat.
RECURSIVE Unsqueeze(_, _, _, _)
Unsqueeze(squeezed, at, out, unpacked) ==
    IF at = Len(squeezed)
    THEN IF Len(out) = unpacked THEN Read(out, at) ELSE Refused
    ELSE LET control == squeezed[at + 1]
             spills  == control \div 32 = 7
             low     == IF spills THEN at + 3 ELSE at + 2
         IN  IF control < 32
             THEN Then(Take(squeezed, at + 1, control + 1), LAMBDA run :
                      Unsqueeze(squeezed, run.at, out \o run.is, unpacked))
             ELSE IF low > Len(squeezed) THEN Refused
             ELSE LET length   == control \div 32 + (IF spills THEN squeezed[at + 2] ELSE 0)
                      distance == 256 * (control % 32) + squeezed[low]
                  IN  IF Len(out) < distance + 1 THEN Refused
                      ELSE Unsqueeze(squeezed, low,
                                     Repeat(out, Len(out) - distance, length + 2), unpacked)

Squeezed(f, at) ==
    Then(Count(f, at), LAMBDA stored :
        Then(Count(f, stored.at), LAMBDA unpacked :
            Then(Take(f, unpacked.at, stored.is), LAMBDA taken :
                Then(Unsqueeze(taken.is, 0, << >>, unpacked.is), LAMBDA out :
                    Read(out.is, taken.at)))))

String(f, at) ==
    LET number(from, width) ==
            Then(Take(f, from, width), LAMBDA field : Read(Spelled(Signed(field.is)), field.at))
    IN  Then(Length(f, at), LAMBDA length :
            CASE ~length.packed -> Take(f, length.at, length.n)
              [] length.packed /\ length.n \in 0..2 -> number(length.at, 2^length.n)
              [] length.packed /\ length.n = 3 -> Squeezed(f, length.at)
              [] OTHER -> Refused)

\* Two fields, one after the other.
Both(Field(_, _), f, at) ==
    Then(Field(f, at), LAMBDA one :
        Then(Field(f, one.at), LAMBDA two : Read(<<one.is, two.is>>, two.at)))

\* Mutant: the time stays set aside.
TakenByNone(expires_at) == expires_at

\* What is left of the time set aside once a key has taken it.
Taken(expires_at) == << >>

\* Reader::dataset, from a section on: only database 0 is taken on, and the
\* time set aside for the next key is used up by it.
RECURSIVE Sections(_, _, _, _, _)
Sections(f, at, db, expires_at, records) ==
    Then(Take(f, at, 1), LAMBDA lead :
        CASE lead.is[1] = END -> Read(records, lead.at)
          [] lead.is[1] = AUXILIARY ->
               Then(Both(String, f, lead.at), LAMBDA fact :
                   Sections(f, fact.at, db, expires_at, records))
          [] lead.is[1] = DATABASE ->
               Then(Count(f, lead.at), LAMBDA count :
                   Sections(f, count.at, count.is, expires_at, records))
          [] lead.is[1] = RESIZE ->
               Then(Both(Count, f, lead.at), LAMBDA counts :
                   Sections(f, counts.at, db, expires_at, records))
          [] lead.is[1] = EXPIRES_AT_SECONDS ->
               Then(Take(f, lead.at, 4), LAMBDA field :
                   Sections(f, field.at, db, <<1000 * LittleEndian(field.is)>>, records))
          [] lead.is[1] = EXPIRES_AT_MILLISECONDS ->
               Then(Take(f, lead.at, 8), LAMBDA field :
                   Sections(f, field.at, db, <<LittleEndian(field.is)>>, records))
          [] lead.is[1] = STRING_KEY ->
               Then(Both(String, f, lead.at), LAMBDA pair :
                   LET record == [key |-> pair.is[1], value |-> pair.is[2],
                                  expires_at |-> expires_at]
                   IN  Sections(f, pair.at, db, Taken(expires_at),
                                IF db = 0 THEN Append(records, record) ELSE records))
          [] OTHER -> Refused)

\* Mutant: a file that cannot be read through gives what was read of it: nothing.
ReadDatasetOrNone(f) ==
    LET read == Then(Take(f, 0, HEADER), LAMBDA header :
                    Sections(f, header.at, 0, << >>, << >>))
    IN  IF read.ok THEN read ELSE Read(<< >>, 0)

ReadDataset(f) ==
    Then(Take(f, 0, HEADER), LAMBDA header :
        IF IsPrefix(MAGIC, header.is) THEN Sections(f, header.at, 0, << >>, << >>)
        ELSE Refused)

\* load: a key whose time has passed is left out, the others are set with the
\* time they have left.
Load(records) ==
    FoldLeft(LAMBDA store, record :
                 CASE record.expires_at = << >> ->
                        (record.key :> [value |-> record.value, left |-> << >>]) @@ store
                   [] record.expires_at # << >> /\ record.expires_at[1] < Now -> store
                   [] OTHER -> (record.key :> [value |-> record.value,
                                               left |-> <<record.expires_at[1] - Now>>]) @@ store,
             << >>, records)

-----------------------------------------------------------------------------
(* A server that saves its dataset: external, as the format has it.        *)

Init ==
    /\ file = MAGIC \o <<48, 48, 49, 49>>
    /\ status \in {"writing", "squeezing"}
    /\ sections = 0 /\ database = 0 /\ due = << >> /\ saved = << >>
    /\ \E begun \in Begun : plain = begun.plain /\ packed = begun.packed
    /\ status = "writing" => plain = << >>

Write(bytes) ==
    /\ status = "writing"
    /\ file' = file \o bytes
    /\ UNCHANGED <<plain, packed>>

\* Bound: so many facts, sizes, deadlines and keys, though a deadline is always
\* followed by its key.
Counted ==
    /\ sections < MaxSections \/ due # << >>
    /\ sections' = sections + 1

\* The facts come first.
WriteFact(name, fact) ==
    /\ Len(file) = HEADER /\ Counted
    /\ Write(<<AUXILIARY>> \o name.as \o fact.as)
    /\ UNCHANGED <<status, database, due, saved>>

WriteDatabase(n) ==
    /\ due = << >> /\ n > database
    /\ Write(<<DATABASE, n>>)
    /\ database' = n
    /\ UNCHANGED <<status, sections, due, saved>>

WriteSize(keys, expiring) ==
    /\ due = << >> /\ saved = << >> /\ Counted
    /\ Write(<<RESIZE, keys, expiring>>)
    /\ UNCHANGED <<status, database, due, saved>>

FourBytes(n) == <<n % 256, (n \div 256) % 256, n \div 65536, 0>>

WriteDeadline(deadline) ==
    /\ due = << >> /\ Counted
    /\ \/ Write(<<EXPIRES_AT_MILLISECONDS>> \o FourBytes(deadline) \o <<0, 0, 0, 0>>)
       \/ /\ deadline % 1000 = 0
          /\ Write(<<EXPIRES_AT_SECONDS>> \o FourBytes(deadline \div 1000))
    /\ due' = <<deadline>>
    /\ UNCHANGED <<status, database, saved>>

\* What a server has of a key with this deadline by the time it loads it.
Kept(key, value, deadline) ==
    IF deadline # << >> /\ deadline[1] < Now THEN << >>
    ELSE key :> [value |-> value,
                 left |-> IF deadline = << >> THEN << >> ELSE <<deadline[1] - Now>>]

WriteKey(key, value) ==
    /\ key.is \notin DOMAIN saved /\ Counted
    /\ Write(<<STRING_KEY>> \o key.as \o value.as)
    /\ saved' = IF database = 0 THEN Kept(key.is, value.is, due) @@ saved ELSE saved
    /\ due' = << >>
    /\ UNCHANGED <<status, database>>

\* A key of a kind this server cannot read: here a list.
WriteForeign(key) ==
    /\ Counted
    /\ Write(<<1>> \o key.as \o <<1>> \o key.as)
    /\ status' = "foreign" /\ due' = << >>
    /\ UNCHANGED <<database, saved>>

Checksum == <<9, 8, 7, 6, 5, 4, 3, 2>>

WriteEnd ==
    /\ status \in {"writing", "foreign"} /\ due = << >>
    /\ file' = file \o <<END>> \o Checksum
    /\ status' = IF status = "writing" THEN "saved" ELSE "saved foreign"
    /\ UNCHANGED <<sections, database, due, saved, plain, packed>>

-----------------------------------------------------------------------------
(* Squeezing a string with LZF: external, as the format has it.            *)

Squeeze ==
    /\ status = "squeezing" /\ sections < MaxInstructions
    /\ sections' = sections + 1
    /\ UNCHANGED <<file, status, database, due, saved>>

KeepLiteral(bytes) ==
    /\ Squeeze
    /\ plain' = plain \o bytes
    /\ packed' = packed \o <<Len(bytes) - 1>> \o bytes

\* `length` bytes again, from `distance` back: a stretch shorter than what is
\* wanted of it goes round and round.
RepeatBack(length, distance) ==
    /\ Squeeze
    /\ distance <= Len(plain)
    /\ plain' = plain \o [i \in 1..length |-> plain[Len(plain) - distance + 1 + ((i - 1) % distance)]]
    /\ LET high == (distance - 1) \div 256
           low  == (distance - 1) % 256
       IN  packed' = packed \o (IF length - 2 < 7 THEN <<32 * (length - 2) + high, low>>
                                ELSE <<224 + high, length - 9, low>>)

LengthBytes(n) == IF n < 64 THEN <<n>> ELSE <<64 + n \div 256, n % 256>>

SaveSqueezed(key) ==
    /\ status = "squeezing" /\ plain # << >>
    /\ file' = file \o <<STRING_KEY>> \o key.as \o <<195>> \o LengthBytes(Len(packed))
                    \o LengthBytes(Len(plain)) \o packed \o <<END>> \o Checksum
    /\ saved' = Kept(key.is, plain, << >>)
    /\ status' = "saved"
    /\ UNCHANGED <<sections, database, due, plain, packed>>

\* The file has been read: nothing more happens to it.
Loaded ==
    /\ status \in {"saved", "saved foreign"}
    /\ UNCHANGED vars

Next ==
    \/ \E name \in KeysStored, fact \in ValuesStored : WriteFact(name, fact)
    \/ WriteDatabase(1)
    \/ WriteSize(2, 1)
    \/ \E deadline \in Deadlines : WriteDeadline(deadline)
    \/ \E key \in KeysStored, value \in ValuesStored : WriteKey(key, value)
    \/ \E key \in KeysStored : WriteForeign(key) \/ SaveSqueezed(key)
    \/ WriteEnd
    \/ \E bytes \in Literals : KeepLiteral(bytes)
    \/ \E repeat \in Repeats : RepeatBack(repeat[1], repeat[2])
    \/ Loaded

Spec == Init /\ [][Next]_vars

-----------------------------------------------------------------------------
(* Properties.                                                             *)

\* The type invariant of the file, the writer and the string being squeezed.
TypeOK ==
    /\ {file, plain, packed} \subseteq Seq(0..255)
    /\ status \in {"writing", "squeezing", "foreign", "saved", "saved foreign"}
    /\ sections \in Nat /\ database \in Nat
    /\ due \in {<< >>} \cup {<<d>> : d \in Deadlines}
    /\ \A k \in DOMAIN saved : saved[k].value \in Seq(0..255)

\* What rdb.rs loads is the first database as it was saved: every key of it
\* still to be held, with its own value and the time it has left, whatever the
\* ways its strings and deadlines are stored in and whatever lies around it.  A
\* deadline counts for the one key it stands before.  A file that stops anywhere
\* before the END it was written with, or that holds a key of a kind the server
\* cannot read, is refused as a whole: it is never taken for a smaller dataset.
LoadsAllOrNothing ==
    /\ status = "saved" =>
           /\ LET read == ReadDataset(file) IN read.ok /\ Load(read.is) = saved
           /\ \A n \in 0..(Len(file) - Len(Checksum) - 1) : ~ReadDataset(SubSeq(file, 1, n)).ok
    /\ status = "saved foreign" => ~ReadDataset(file).ok
=============================================================================
