------------------------------ MODULE MCStore ------------------------------
(***************************************************************************)
(* The store from three sides, each on a small instance: transactions over *)
(* all kinds of values, one sorted set of scores and places, and the       *)
(* patterns of KEYS.  `part' says which of them a behaviour is about; the  *)
(* variables of the others stay as they begin.                             *)
(***************************************************************************)
EXTENDS Transactions, SequencesExt

CONSTANTS NotANumber, NotHeld, WrongType, AnyRun

VARIABLES
    part,
    kind, set, reader, meant, since,
    written, means, items, key, item, byte, run, verdict, turns

places == <<kind, set, reader, meant, since>>
patterns == <<written, means, items, key, item, byte, run, verdict, turns>>

Symmetry == Permutations(Clients) \cup Permutations(Keys)

-----------------------------------------------------------------------------
(* Two members; three places on the earth, inside it, on an edge and in    *)
(* the corner, and one that is not; scores that no place has, that one     *)
(* might have, and that are no number.                                     *)

At(east, north) == [east |-> east, north |-> north]
Points == {At(16, 6), At(16, 16), At(6, 15), At(17, 3)}
Scores == {-1, 3, NotANumber}

P == INSTANCE Places WITH
        BITS <- 2, Names <- {1, 2}, Asked <- {<<1, 2>>}, MaxBatch <- 2, MaxMeanwhile <- 1

\* Every place of a grid of 8 by 8 squares.
Everywhere == INSTANCE Places WITH
        BITS <- 3, Names <- {1, 2}, Asked <- {<<1, 2>>}, MaxBatch <- 2, MaxMeanwhile <- 1,
        Points <- {At(east, north) : east \in 0 .. 32, north \in 0 .. 32}

ASSUME PlacesAssumption == P!ConstantsFit /\ P!WeavingIsExact /\ Everywhere!WeavingIsExact

-----------------------------------------------------------------------------
(* Patterns of up to four pieces: a run, any byte, `a', an escape, a set   *)
(* with its ends the wrong way round, a negated one, one with a dash at    *)
(* its end, and one with an escape; some end in a lone backslash or in a   *)
(* set never closed.                                                       *)

Star == 42
Dash == 45
Open == 91
Backslash == 92
Close == 93
a == 97
b == 98

Piece(bytes, stands) == [written |-> bytes, means |-> stands]

Pieces == {Piece(<<Star>>, AnyRun),
           Piece(<<63>>, 0 .. 255),
           Piece(<<a>>, {a}),
           Piece(<<Backslash, Star>>, {Star}),
           Piece(<<Open, b, Dash, a, Close>>, {a, b}),
           Piece(<<Open, 94, a, Close>>, 0 .. 255 \ {a}),
           Piece(<<Open, a, Dash, Close>>, {a, Dash}),
           Piece(<<Open, Backslash, Close, b, Close>>, {Close, b})}

Endings == {Piece(<<Backslash>>, {Backslash}), Piece(<<Open, b, Star>>, {b, Star})}

KeysTried == SeqOf({a, b}, 2) \cup SeqOf({Star, Dash, Close, Backslash}, 1)
                 \cup {<<a, b, a>>, <<b, b, a, b>>, <<a, b, Star>>}

G == INSTANCE Glob WITH Keys <- KeysTried, MaxPieces <- 4

-----------------------------------------------------------------------------
InitStore == part \in {"transactions", "places", "patterns"} /\ Init /\ P!Init /\ G!Init

NextStore ==
    /\ \/ part = "transactions" /\ Next /\ UNCHANGED <<places, patterns>>
       \/ part = "places" /\ P!Next /\ UNCHANGED <<vars, patterns>>
       \/ part = "patterns" /\ G!Next /\ UNCHANGED <<vars, places>>
    /\ UNCHANGED part

SpecStore == InitStore /\ [][NextStore]_<<part, vars, places, patterns>>

-----------------------------------------------------------------------------
\* The type invariants of the three.
TypesOK ==
    CASE part = "transactions" -> TypeOK
      [] part = "places" -> P!TypeOK
      [] part = "patterns" -> G!TypeOK

\* The sorted set is its map of scores in order (Places).
SetIsItsMap == part = "places" => P!SetIsItsMap

\* A place comes back from its score as near as the squares are (Places).
PlacesComeBack == part = "places" => P!PlacesComeBack

\* What GEOPOS and GEODIST answer was really there (Places).
RepliesWereTrue == part = "places" => P!RepliesWereTrue

\* A key matches a pattern exactly when it is made up as that says (Glob).
MatchIsExact == part = "patterns" => G!MatchIsExact
=============================================================================
