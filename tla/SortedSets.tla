----------------------------- MODULE SortedSets -----------------------------
(***************************************************************************)
(* A sorted set as src/store/sorted_sets.rs keeps it: a vector of members, *)
(* each a name and a score, in the order of the scores and, between equal  *)
(* scores, of the names.  Numbers stand for the names, in the order of     *)
(* their bytes, and for the scores, in the order of the doubles; a score   *)
(* that is not a number is refused before it comes this far.               *)
(***************************************************************************)
EXTENDS Integers, Sequences, FiniteSets

Precedes(member, other) ==
    \/ member.score < other.score
    \/ member.score = other.score /\ member.name < other.name

\* Where the member of this name is, or 0 when there is none.
At(set, name) ==
    IF \E i \in DOMAIN set : set[i].name = name
    THEN CHOOSE i \in DOMAIN set : set[i].name = name ELSE 0

Holds(set, name) == At(set, name) # 0

Score(set, name) == set[At(set, name)].score

\* Vec::remove and Vec::insert, of the member at a place and at the place after.
VecRemove(set, at) == SubSeq(set, 1, at - 1) \o SubSeq(set, at + 1, Len(set))
VecInsert(set, at, member) == SubSeq(set, 1, at) \o <<member>> \o SubSeq(set, at + 1, Len(set))

Take(set, name) == IF Holds(set, name) THEN VecRemove(set, At(set, name)) ELSE set

\* slice::partition_point: how many members the new one comes after.
PartitionPoint(set, member) ==
    Cardinality({i \in DOMAIN set : Precedes(set[i], member)})

\* Mutant: a member that is known is given its new score where it stands.
AddInPlace(set, score, name) ==
    LET member == [score |-> score, name |-> name]
    IN  IF Holds(set, name)
        THEN [set EXCEPT ![At(set, name)] = member]
        ELSE VecInsert(set, PartitionPoint(set, member), member)

\* A member that is known is moved: taken out, then put where it now belongs.
Add(set, score, name) ==
    LET member == [score |-> score, name |-> name]
        rest   == Take(set, name)
    IN  VecInsert(rest, PartitionPoint(rest, member), member)

AddAll(set, members) ==
    LET after[i \in 0 .. Len(members)] ==
            IF i = 0 THEN set ELSE Add(after[i - 1], members[i].score, members[i].name)
    IN  after[Len(members)]

TakeAll(set, names) ==
    LET after[i \in 0 .. Len(names)] == IF i = 0 THEN set ELSE Take(after[i - 1], names[i])
    IN  after[Len(names)]

\* An index counted from either end; one reaching past the start is the first.
ResolveIndex(index, len) ==
    IF index >= 0 THEN index ELSE IF len + index < 0 THEN 0 ELSE len + index

\* ZRANGE: the members from one place in the order to another, counted from 0.
Window(set, start, stop) ==
    LET from == ResolveIndex(start, Len(set))
        last == ResolveIndex(stop, Len(set))
    IN  IF from > last \/ from >= Len(set)
        THEN << >>
        ELSE SubSeq(set, from + 1, IF last < Len(set) THEN last + 1 ELSE Len(set))
=============================================================================
