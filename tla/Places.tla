------------------------------- MODULE Places -------------------------------
(***************************************************************************)
(* One key of the store used as a sorted set and as a set of places: the   *)
(* commands of src/commands/sorted_sets.rs and src/commands/geo.rs over    *)
(* src/store/sorted_sets.rs.  Each command holds the store's mutex once    *)
(* and is one action, except GEOPOS and GEODIST: they look their places up *)
(* one hold at a time, and other clients' commands come in between.        *)
(***************************************************************************)
EXTENDS SortedSets, Geo

CONSTANTS
    Names,         \* numbers, in the order of the names' bytes
    Scores,        \* the scores ZADD is given, NotANumber among them
    Points,        \* the places GEOADD is given, some of them not on the earth
    Asked,         \* what GEOPOS and GEODIST ask after: sequences of names
    MaxBatch,      \* bound: the most members one ZADD or GEOADD brings
    MaxMeanwhile,  \* bound: the changes made while GEOPOS or GEODIST is under way
    NotANumber, NotHeld, WrongType

VARIABLES
    kind,    \* what the key holds: "stale" is a string whose time has run out
    set,     \* the members, when it holds a sorted set
    reader,  \* the GEOPOS or GEODIST under way: what is left to look up, what is told
    meant,   \* history: what each member was last given, its score or its place
    since    \* history: what there was to be read since the reader's command began

vars == <<kind, set, reader, meant, since>>

NoReply == [tells |-> "nothing yet"]

Idle == [command |-> "none", asked |-> << >>, left |-> << >>, told |-> << >>,
         reply |-> NoReply]

Meanings == [by : {"score"}, is : Scores] \cup [by : {"place"}, is : Points]

Readings == Int \cup {NotHeld, WrongType}

Spots == [north : Int, east : Int] \cup {NotHeld}

Replies ==
    {NoReply} \cup [tells : {"an error", "no distance"}]
        \cup [tells : {"places"}, are : Seq(Spots)] \cup [tells : {"distance"}, is : Nat]

\* The type invariant of the key, the reader and the histories.
TypeOK ==
    /\ kind \in {"none", "set", "string", "stale"}
    /\ set \in Seq([score : Int, name : Names])
    /\ reader \in [command : {"none", "GEOPOS", "GEODIST"}, asked : Seq(Names),
                   left : Seq(Names), told : Seq(Readings), reply : Replies]
    /\ DOMAIN meant \subseteq Names
    /\ \A n \in DOMAIN meant : meant[n] \in Meanings
    /\ since \in [Names -> Seq(Readings)]

Init ==
    /\ kind = "none" /\ set = << >> /\ reader = Idle
    /\ meant = << >> /\ since = [n \in Names |-> << >>]

-----------------------------------------------------------------------------
(* The store.                                                              *)

\* What looking a member's score up gives, the key dropped if it has expired.
Zscore(name) ==
    IF kind = "string" THEN WrongType
    ELSE IF Holds(set, name) THEN Score(set, name) ELSE NotHeld

\* What a lookup leaves behind.
Dropped == kind' = (IF kind = "stale" THEN "none" ELSE kind)

\* History: a change is there to be read from now on.
Noted ==
    since' = [n \in Names |-> IF reader = Idle THEN since[n]
                              ELSE Append(since[n], Zscore(n)')]

\* Bound: so many changes while a reader is at work.
Room == reader # Idle => \A n \in Names : Len(since[n]) <= MaxMeanwhile

ScoreMeant(meaning) == IF meaning.by = "score" THEN meaning.is ELSE ScoreOf(meaning.is)

LastOf(places) == CHOOSE i \in places : \A j \in places : j <= i

\* ZADD and GEOADD, once every one of their words has been read.
Zadd(batch) ==
    /\ kind # "string"
    /\ kind' = "set"
    /\ set' = AddAll(set, [i \in DOMAIN batch |->
                              [name |-> batch[i].name, score |-> ScoreMeant(batch[i].means)]])
    /\ meant' = [n \in DOMAIN meant \cup {batch[i].name : i \in DOMAIN batch} |->
                    LET given == {i \in DOMAIN batch : batch[i].name = n}
                    IN  IF given = {} THEN meant[n] ELSE batch[LastOf(given)].means]
    /\ Noted

\* A set left with nothing in it goes.
Zrem(names) ==
    /\ Room
    /\ set' = TakeAll(set, names)
    /\ kind' = CASE kind = "set" /\ set' = << >> -> "none"
                 [] kind = "stale" -> "none"
                 [] OTHER -> kind
    /\ meant' = [n \in DOMAIN meant \ Range(names) |-> meant[n]]
    /\ Noted
    /\ UNCHANGED reader

\* SET puts a string in place of whatever the key held.
Set ==
    /\ Room
    /\ kind' = "string" /\ set' = << >> /\ meant' = << >>
    /\ Noted
    /\ UNCHANGED reader

DeadlinePasses ==
    /\ Room
    /\ kind = "string" /\ kind' = "stale"
    /\ UNCHANGED <<set, meant, reader>>
    /\ Noted

\* ZRANK, ZRANGE, ZCARD, ZSCORE and GEOSEARCH change nothing but this.
Look ==
    /\ Dropped
    /\ UNCHANGED <<set, reader, meant, since>>

-----------------------------------------------------------------------------
(* The commands.                                                           *)

OnEarth(point) == point.east \in 0..Edge /\ point.north \in 0..Edge

Readable(item) ==
    IF item.means.by = "score" THEN item.means.is # NotANumber ELSE OnEarth(item.means.is)

\* All that is to be added is read before any of it is, and a place that is
\* not on the earth turns the whole command down, as does a key of another kind.
AddCommand(batch) ==
    /\ Room
    /\ IF kind # "string" /\ \A i \in DOMAIN batch : Readable(batch[i])
       THEN Zadd(batch)
       ELSE UNCHANGED <<kind, set, meant, since>>
    /\ UNCHANGED reader

\* A client asks where some places are, or how far apart two are.
Ask(command, names) ==
    /\ reader = Idle
    /\ command = "GEODIST" => Len(names) = 2
    /\ reader' = [command |-> command, asked |-> names, left |-> names, told |-> << >>,
                  reply |-> NoReply]
    /\ since' = [n \in Names |-> <<Zscore(n)>>]
    /\ UNCHANGED <<kind, set, meant>>

\* Mutant: the score is the one of the member now standing where the first
\* place that was asked after stands.
LookUpByRank ==
    /\ reader.left # << >>
    /\ LET name  == Head(reader.left)
           found == IF kind = "string" THEN WrongType
                    ELSE IF Len(reader.told) < Len(set) THEN set[Len(reader.told) + 1].score
                    ELSE NotHeld
       IN  reader' = [reader EXCEPT !.told = Append(@, found), !.left = Tail(@)]
    /\ Dropped
    /\ UNCHANGED <<set, meant, since>>

\* One hold of the mutex: the next place is looked up.  GEOPOS gives up at a
\* key of the wrong kind, while GEODIST looks both of its places up regardless.
LookUp ==
    /\ reader.left # << >>
    /\ LET found == Zscore(Head(reader.left))
       IN  reader' = [reader EXCEPT
               !.told = Append(@, found),
               !.left = IF found = WrongType /\ reader.command = "GEOPOS"
                        THEN << >> ELSE Tail(@)]
    /\ Dropped
    /\ UNCHANGED <<set, meant, since>>

\* What the command answers: places, a distance, nothing, or an error.
Positions(told) ==
    IF WrongType \in Range(told) THEN [tells |-> "an error"]
    ELSE [tells |-> "places", are |-> [i \in DOMAIN told |->
             IF told[i] = NotHeld THEN NotHeld ELSE Decode(told[i])]]

Dist(told) ==
    IF WrongType \in Range(told) THEN [tells |-> "an error"]
    ELSE IF NotHeld \in Range(told) THEN [tells |-> "no distance"]
    ELSE [tells |-> "distance", is |-> Apart(Decode(told[1]), Decode(told[2]))]

Answer ==
    /\ reader # Idle /\ reader.left = << >> /\ reader.reply = NoReply
    /\ reader' = [reader EXCEPT !.reply = IF reader.command = "GEOPOS"
                                          THEN Positions(reader.told) ELSE Dist(reader.told)]
    /\ UNCHANGED <<kind, set, meant, since>>

\* The client has its answer.
Answered ==
    /\ reader.reply # NoReply
    /\ reader' = Idle
    /\ since' = [n \in Names |-> << >>]
    /\ UNCHANGED <<kind, set, meant>>

\* What GEOSEARCH looks for: words taken in any order, the last of each kind.
SearchFor(terms) ==
    LET last(word) == terms[LastOf({i \in DOMAIN terms : terms[i].word = word})].is
    IN  [centre |-> last("FROMLONLAT"), radius |-> last("BYRADIUS")]

\* Every place is measured against the middle.
Search(terms) ==
    LET search == SearchFor(terms)
    IN  SelectSeq(set, LAMBDA member :
                           Apart(search.centre, Decode(member.score)) <= search.radius)

-----------------------------------------------------------------------------
Scored == [name : Names, means : [by : {"score"}, is : Scores]]

Located == [name : Names, means : [by : {"place"}, is : Points]]

\* Bound: several members are added at a time only while no reader is at work.
Batches(items) ==
    UNION {[1..n -> items] : n \in 1..(IF reader = Idle THEN MaxBatch ELSE 1)}

Next ==
    \/ \E batch \in Batches(Scored) : AddCommand(batch)
    \/ \E batch \in Batches(Located) : AddCommand(batch)
    \/ \E names \in Asked : Zrem(names)
    \/ Set \/ DeadlinePasses \/ Look
    \/ \E command \in {"GEOPOS", "GEODIST"}, names \in Asked : Ask(command, names)
    \/ LookUp \/ Answer \/ Answered

Spec == Init /\ [][Next]_vars

-----------------------------------------------------------------------------
(* Properties.                                                             *)

BitAt(n, p) == (n \div 2^p) % 2

\* The square's two numbers woven bit by bit, as arithmetic.
Woven(north, east) ==
    SumFunction([p \in 0..BITS |-> 4^p * (BitAt(north, p) + 2 * BitAt(east, p))])

Meant(n) ==
    IF meant[n].by = "score" THEN meant[n].is
    ELSE AsDouble(Woven(meant[n].is.north \div 4, meant[n].is.east \div 4))

\* What a proof takes the constants to be.
ConstantsFit ==
    /\ Names \subseteq Int /\ Scores \subseteq Int \cup {NotANumber}
    /\ Asked \subseteq Seq(Names) /\ MaxBatch \in Nat

\* And what it takes interleave to do: the shifts and the masks weave the two
\* numbers of each place on the earth as the arithmetic does.
WeavingIsExact ==
    \A point \in {p \in Points : OnEarth(p)} :
        /\ ScoreOf(point) \in Int
        /\ ScoreOf(point) = AsDouble(Woven(point.north \div 4, point.east \div 4))

\* How many members come before this one.
RankMeant(n) ==
    Cardinality({m \in DOMAIN meant :
                     Meant(m) < Meant(n) \/ (Meant(m) = Meant(n) /\ m < n)})

\* The vector that SortedSet::add and take keep is the map from names to scores
\* that the commands ask for, in order: every member is there once, under the
\* score last given to it and at the rank that score earns it, whatever came
\* before; a key is there just while its set has members; and ZRANGE reads the
\* ranks of its window off it.
SetIsItsMap ==
    /\ kind = "set" <=> DOMAIN meant # {}
    /\ Len(set) = Cardinality(DOMAIN meant)
    /\ \A n \in DOMAIN meant : /\ Holds(set, n)
                               /\ Score(set, n) = Meant(n)
                               /\ At(set, n) = RankMeant(n) + 1
    /\ \A start, stop \in -3..3 :
           LET len == Cardinality(DOMAIN meant)
               place(i) == IF i < 0 THEN IF i < -len THEN 0 ELSE len + i ELSE i
           IN  {m.name : m \in Range(Window(set, start, stop))}
                   = {n \in DOMAIN meant : RankMeant(n) \in place(start)..place(stop)}

\* How far a place may be from where it was put: half a square, and on the
\* eastern edge, where the score outgrows a double, a square more.
Slack(point) == IF point.east = Edge THEN 6 ELSE 2

\* A place that GEOADD put away is found again where it was put, to within the
\* square that geo.rs answers for, however its score came to be woven and
\* rounded; and GEOSEARCH, its words in either order, finds it within any radius
\* that reaches past it and within none that falls short.
PlacesComeBack ==
    \A n \in {m \in DOMAIN meant : meant[m].by = "place"} :
        LET put == meant[n].is
        IN  /\ Apart(put, Decode(Score(set, n))) <= Slack(put)
            /\ \A centre \in {p \in Points : OnEarth(p)} :
                   LET far == Apart(centre, put)
                       from == [word |-> "FROMLONLAT", is |-> centre]
                       by(radius) == [word |-> "BYRADIUS", is |-> radius]
                       found(terms) == {m.name : m \in Range(Search(terms))}
                   IN  /\ n \in found(<<from, by(far + Slack(put))>>)
                       /\ n \notin found(<<by(far - Slack(put) - 1), from>>)

\* GEOPOS and GEODIST let other commands in between their lookups, and still
\* answer from what was really there: for each place in turn, what was to be
\* read of it at a moment of the command, each moment no earlier than the last.
RepliesWereTrue ==
    reader.reply # NoReply =>
        \E told \in [DOMAIN reader.asked -> UNION {DOMAIN since[n] : n \in Names}] :
            LET read == [i \in DOMAIN told |-> since[reader.asked[i]][told[i]]]
            IN  /\ \A i, j \in DOMAIN told : i < j => told[i] <= told[j]
                /\ reader.reply = IF reader.command = "GEOPOS" THEN Positions(read)
                                  ELSE Dist(read)
=============================================================================
