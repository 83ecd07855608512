-------------------------------- MODULE Geo ---------------------------------
(***************************************************************************)
(* How src/commands/geo.rs makes one score out of a place's two numbers    *)
(* and finds the place again.  A coordinate is counted in quarters of the  *)
(* width of a square, from the low end of its range; the arithmetic that   *)
(* takes it there from degrees is taken to be exact.  A word of 64 bits is *)
(* the set of the positions of its ones.                                   *)
(***************************************************************************)
EXTENDS Integers, Sequences, Functions

CONSTANT BITS  \* the grid is 2^BITS squares wide, and as many high

Squares == 2^BITS

\* The high end of a range, which LONGITUDES and LATITUDES both include.
Edge == 4 * Squares

Bits(n) == {p \in 0..30 : (n \div 2^p) % 2 = 1}

Number(word) == SumFunction([p \in word |-> 2^p])

Left(word, shift) == {p + shift : p \in word} \cap 0..63

Right(word, shift) == {p - shift : p \in word} \cap 0..63

\* The masks: each keeps every other run of so many bits, the lowest one included.
Keep == [run \in {1, 2, 4, 8, 16, 32} |-> {p \in 0..63 : (p \div run) % 2 = 0}]

\* By 16 places, then 8, 4, 2 and 1.
Spread(value) ==
    LET word[i \in 0..5] ==
            IF i = 0 THEN Bits(value)
            ELSE LET before == word[i - 1]
                     shift  == 2^(5 - i)
                 IN  (before \cup Left(before, shift)) \cap Keep[shift]
    IN  word[5]

\* And the other way.
Gather(woven) ==
    LET word[i \in 0..5] ==
            IF i = 0 THEN woven \cap Keep[1]
            ELSE LET before == word[i - 1]
                     shift  == 2^(i - 1)
                 IN  (before \cup Right(before, shift)) \cap Keep[2 * shift]
    IN  Number(word[5])

SquaresAlong(coordinate) == coordinate \div 4

\* A whole number as a double: a bit more than two coordinates' worth is exact,
\* and past that it is rounded to the nearest, ties to even.
AsDouble(n) ==
    IF n < 2^(2 * BITS + 1) \/ n % 2 = 0 THEN n
    ELSE IF n % 4 = 1 THEN n - 1 ELSE n + 1

ScoreOf(point) ==
    AsDouble(Number(Spread(SquaresAlong(point.north))
                        \cup Left(Spread(SquaresAlong(point.east)), 1)))

\* Mutant: a place is answered for by the low corner of its square.
CornerOf(square) == 4 * square

MiddleOf(square) == 4 * square + 2

\* Where a score says a place is.  A score below zero is cast to zero.
Decode(score) ==
    LET woven == Bits(IF score < 0 THEN 0 ELSE score)
    IN  [north |-> MiddleOf(Gather(woven)), east |-> MiddleOf(Gather(Right(woven, 1)))]

Distance(a, b) == IF a < b THEN b - a ELSE a - b

\* How far apart two places are.  The haversine is abstracted to the longer of
\* the two ways along the grid, going east or west the shorter way round.
Apart(from, to) ==
    LET east  == Distance(from.east, to.east) % Edge
        north == Distance(from.north, to.north)
        round == IF east < Edge - east THEN east ELSE Edge - east
    IN  IF north < round THEN round ELSE north
=============================================================================
