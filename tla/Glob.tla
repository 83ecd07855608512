-------------------------------- MODULE Glob --------------------------------
(***************************************************************************)
(* The patterns KEYS picks keys out by (src/glob.rs).  A pattern is        *)
(* written piece by piece, read by Pattern::parse, and tried against a key *)
(* by Pattern::matches, one turn of its loop to a step.  Bytes are         *)
(* numbers.                                                                *)
(***************************************************************************)
EXTENDS Integers, SequencesExt

CONSTANTS
    Pieces,     \* what a pattern may be written from, each with what it stands for
    Endings,    \* what it may end in: an opening never closed, a lone backslash
    Keys,       \* the keys it is tried against
    MaxPieces,  \* bound: the most pieces to a pattern
    AnyRun      \* what a `*` stands for; other pieces stand for a set of bytes

VARIABLES
    written,       \* the pattern's bytes
    means,         \* what its pieces stand for, in order
    items,         \* what Pattern::parse has made of it
    key,           \* the key it is tried against
    item, byte,    \* how far into the pattern and into the key the match is
    run,           \* the last run met and how much of the key it has, if any
    verdict, turns

vars == <<written, means, items, key, item, byte, run, verdict, turns>>

NoRun == << >>

Star == 42
Dash == 45
Question == 63
Open == 91
Backslash == 92
Close == 93
Caret == 94

-----------------------------------------------------------------------------
(* Reading a pattern.  Positions count from 1.                             *)

Anything == [stands |-> "run"]

One == [stands |-> "one"]

Byte(b) == [stands |-> "byte", is |-> b]

OneOf(ranges, negated) == [stands |-> "one of", ranges |-> ranges, negated |-> negated]

Is(pattern, at, b) == at <= Len(pattern) /\ pattern[at] = b

\* Mutant: a range keeps its ends in the order they were written in.
BetweenAsWritten(first, last) == first..last

\* A range of bytes, whichever end of it was written first.
Between(first, last) == IF first <= last THEN first..last ELSE last..first

\* What a `[` opened, up to its `]` or the end of the pattern, and where
\* reading goes on.
RECURSIVE Set(_, _, _, _)
Set(pattern, at, ranges, negated) ==
    IF at > Len(pattern) THEN [item |-> OneOf(ranges, negated), at |-> at]
    ELSE IF pattern[at] = Close THEN [item |-> OneOf(ranges, negated), at |-> at + 1]
    ELSE LET escaped == pattern[at] = Backslash /\ at < Len(pattern)
             first   == IF escaped THEN pattern[at + 1] ELSE pattern[at]
             after   == IF escaped THEN at + 2 ELSE at + 1
             dashed  == /\ Is(pattern, after, Dash)
                        /\ after < Len(pattern) /\ ~Is(pattern, after + 1, Close)
             last    == IF dashed THEN pattern[after + 1] ELSE first
         IN  Set(pattern, IF dashed THEN after + 2 ELSE after,
                 ranges \cup {Between(first, last)}, negated)

\* Pattern::parse, from a position on, with the items made so far.
RECURSIVE Parse(_, _, _)
Parse(pattern, at, made) ==
    IF at > Len(pattern) THEN made
    ELSE CASE pattern[at] = Star ->
                Parse(pattern, at + 1,
                      IF made # << >> /\ Last(made) = Anything THEN made
                      ELSE Append(made, Anything))
           [] pattern[at] = Question -> Parse(pattern, at + 1, Append(made, One))
           [] pattern[at] = Open ->
                LET negated == Is(pattern, at + 1, Caret)
                    set     == Set(pattern, IF negated THEN at + 2 ELSE at + 1, {}, negated)
                IN  Parse(pattern, set.at, Append(made, set.item))
           [] pattern[at] = Backslash /\ at < Len(pattern) ->
                Parse(pattern, at + 2, Append(made, Byte(pattern[at + 1])))
           [] OTHER -> Parse(pattern, at + 1, Append(made, Byte(pattern[at])))

\* Whether a byte is one an item stands for.
Stands(step, b) ==
    CASE step.stands \in {"run", "one"} -> TRUE
      [] step.stands = "byte" -> b = step.is
      [] step.stands = "one of" -> (b \in UNION step.ranges) # step.negated

-----------------------------------------------------------------------------
(* A client writes a pattern; the server reads it and tries it on a key.   *)

Init ==
    /\ written = << >> /\ means = << >> /\ items = << >> /\ key = << >>
    /\ item = 1 /\ byte = 1 /\ run = NoRun /\ verdict = "unread" /\ turns = 0

Write(piece) ==
    /\ verdict = "unread" /\ Len(means) < MaxPieces
    /\ written' = written \o piece.written
    /\ means' = Append(means, piece.means)
    /\ verdict' = IF piece \in Endings THEN "ended" ELSE "unread"
    /\ UNCHANGED <<items, key, item, byte, run, turns>>

Read(k) ==
    /\ verdict \in {"unread", "ended"}
    /\ items' = Parse(written, 1, << >>)
    /\ key' = k
    /\ verdict' = "open"
    /\ UNCHANGED <<written, means, item, byte, run, turns>>

\* KEYS tries the pattern, read once, on one key after another.
TryNext(k) ==
    /\ verdict \in {"yes", "no"}
    /\ key' = k /\ item' = 1 /\ byte' = 1 /\ run' = NoRun /\ turns' = 0
    /\ verdict' = "open"
    /\ UNCHANGED <<written, means, items>>

MeetsRun == item <= Len(items) /\ items[item] = Anything

Fits == item <= Len(items) /\ ~MeetsRun /\ Stands(items[item], key[byte])

\* Mutant: a run that was too short is tried again as it was.
FallBackInPlace ==
    /\ item' = run[1] + 1 /\ byte' = run[2]
    /\ UNCHANGED <<run, verdict>>

\* The last run met takes one byte more, and the match goes on from there.
FallBack ==
    /\ item' = run[1] + 1 /\ byte' = run[2] + 1
    /\ run' = <<run[1], run[2] + 1>>
    /\ UNCHANGED verdict

\* A turn of the loop of Pattern::matches, or what follows it when the key is
\* spent: nothing but a run can stand for nothing.
Turn ==
    /\ verdict = "open"
    /\ turns' = turns + 1
    /\ CASE byte > Len(key) ->
              /\ verdict' = IF \A i \in item..Len(items) : items[i] = Anything
                            THEN "yes" ELSE "no"
              /\ UNCHANGED <<item, byte, run>>
         [] byte <= Len(key) /\ MeetsRun ->
              /\ run' = <<item, byte>> /\ item' = item + 1
              /\ UNCHANGED <<byte, verdict>>
         [] byte <= Len(key) /\ Fits ->
              /\ item' = item + 1 /\ byte' = byte + 1
              /\ UNCHANGED <<run, verdict>>
         [] byte <= Len(key) /\ ~MeetsRun /\ ~Fits /\ run # NoRun -> FallBack
         [] OTHER -> verdict' = "no" /\ UNCHANGED <<item, byte, run>>
    /\ UNCHANGED <<written, means, items, key>>

Next ==
    \/ \E piece \in Pieces \cup Endings : Write(piece)
    \/ \E k \in Keys : Read(k) \/ TryNext(k)
    \/ Turn

Spec == Init /\ [][Next]_vars

-----------------------------------------------------------------------------
(* Properties.                                                             *)

\* The type invariant of a pattern, a key and the match between them.
TypeOK ==
    /\ written \in Seq(0..255) /\ key \in Seq(0..255)
    /\ Len(means) <= MaxPieces
    /\ item \in 1..(Len(items) + 1) /\ byte \in 1..(Len(key) + 1)
    /\ run = NoRun \/ run \in (1..Len(items)) \X (1..(Len(key) + 1))
    /\ verdict \in {"unread", "ended", "open", "yes", "no"}
    /\ turns \in Nat

\* The keys a pattern asks for, told from what its pieces stand for: some way
\* of sharing the key out among them.
RECURSIVE Accepts(_, _)
Accepts(pieces, k) ==
    IF pieces = << >> THEN k = << >>
    ELSE IF Head(pieces) = AnyRun
    THEN \E n \in 0..Len(k) : Accepts(Tail(pieces), SubSeq(k, n + 1, Len(k)))
    ELSE k # << >> /\ Head(k) \in Head(pieces) /\ Accepts(Tail(pieces), Tail(k))

\* Pattern::matches answers yes for exactly the keys the pattern was written to
\* ask for, though it falls back only on the last run it met, and however the
\* pattern was spelt: escapes, ranges either way round, runs in a row, openings
\* never closed.  It answers within a turn per item and byte of the key.
MatchIsExact ==
    /\ verdict = "yes" => Accepts(means, key)
    /\ verdict = "no" => ~Accepts(means, key)
    /\ turns <= (Len(items) + 1) * (Len(key) + 1)
=============================================================================
