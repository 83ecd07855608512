----------------------------- MODULE MCKeeping -----------------------------
(***************************************************************************)
(* What is kept between two runs of the server, from three sides, each on  *)
(* a small instance: the record of the writes, the saved dataset, and the  *)
(* settings and files of a start.  `part' says which of them a behaviour   *)
(* is about; the variables of the others stay as they begin.               *)
(***************************************************************************)
EXTENDS AppendOnly, SequencesExt, TLC

VARIABLES
    part,
    dump, status, sections, database, due, saved, plain, packed,
    stage, config, manifests, files, path, store, counted, kept, halts

record == <<mode, list, line, pc, written, file, stream, made, acked, failures, stops>>
dataset == <<dump, status, sections, database, due, saved, plain, packed>>
startup == <<stage, config, manifests, files, path, store, counted, kept, halts>>

Symmetry == Permutations(Clients)

-----------------------------------------------------------------------------
(* Files of up to three sections.  Strings are stored in all the ways the  *)
(* reader knows: lengths of one, four and eight bytes, numbers of one, two *)
(* and four bytes, and squeezed, from nothing or from 261 bytes on, so     *)
(* that distances of more than a byte occur.                               *)

Stored(is, as) == [is |-> is, as |-> as]

KeysStored == {Stored(<< >>, <<129, 0, 0, 0, 0, 0, 0, 0, 0>>), Stored(<<45, 50>>, <<192, 254>>)}

ValuesStored ==
    {Stored(<<97, 98>>, <<128, 0, 0, 0, 2, 97, 98>>),
     Stored(<<51, 48, 48>>, <<193, 44, 1>>),
     Stored(<<45, 55, 48, 48, 48, 48>>, <<194, 144, 238, 254, 255>>)}

Run == [i \in 1 .. 29 |-> i]

Begun ==
    {[plain |-> << >>, packed |-> << >>],
     [plain |-> FlattenSeq([i \in 1 .. 9 |-> Run]),
      packed |-> FlattenSeq([i \in 1 .. 9 |-> <<28>> \o Run])]}

D == INSTANCE Dataset WITH
        file <- dump,
        Deadlines <- {1000, 2000, 2500}, Now <- 2000, MaxSections <- 3,
        Literals <- {<<97>>, <<98, 97, 99>>}, Repeats <- {3, 8, 9, 12} \X {1, 3, 256, 257},
        MaxInstructions <- 2

-----------------------------------------------------------------------------
(* Settings in several spellings, repeated, mistaken and left without a    *)
(* value, and names with spaces in them; a directory that is empty, or has *)
(* the manifest of a fuller Redis.                                         *)

One(piece) == << <<piece>> >>
Given(name, value) == << << <<"--", name>> >>, value>>
On == Given("appendonly", One("Yes"))

CommandLines ==
    {<< >>,
     On,
     On \o Given("appendfsync", One("Always")),
     On \o Given("appendfsync", One("alway")),
     Given("appendfsync", One("always")) \o On \o Given("appendfsync", One("no")),
     On \o Given("appendfilename", << <<"my">>, <<"log">> >>),
     On \o Given("appendfilename", << <<"my">>, <<"old">>, <<"log">> >>),
     On \o Given("appenddirname", One("a")) \o Given("appendfsync", One("always")),
     On \o <<Head(Given("dir", One("a")))>>,
     Given("replicaof", One("localhost") \o One("6379"))}

Fuller ==
    << << <<"file">>, <<"b">>, <<"seq">>, <<"2">>, <<"type">>, <<"b">> >>,
       << <<"file">>, <<"h">>, <<"seq">>, <<"1">>, <<"type">>, <<"h">> >>,
       << <<"seq">>, <<"2">>, <<"type">>, <<"i">>, <<"file">>, <<"i">> >>,
       << <<"type">>, <<"i">>, <<"file">>, <<"j">>, <<"startoffset">>, <<"7">> >> >>

ManifestsFound ==
    {<< >>, <<<<One("."), One("appendonlydir")>>, One("appendonly.aof")>> :> Fuller}

S == INSTANCE Startup WITH
        made <- counted, stops <- halts,
        Capitals <- [Yes |-> "yes", Always |-> "always"], Ports <- {"6379"},
        MaxWrites <- 2, MaxStops <- 2

-----------------------------------------------------------------------------
InitKeeping ==
    /\ part \in {"record", "dataset", "startup"}
    /\ Init /\ D!Init /\ S!Init
    /\ part = "startup" \/ manifests = << >>
    /\ part = "dataset" \/ (status = "writing" /\ plain = << >>)

NextKeeping ==
    /\ \/ part = "record" /\ Next /\ UNCHANGED <<dataset, startup>>
       \/ part = "dataset" /\ D!Next /\ UNCHANGED <<record, startup>>
       \/ part = "startup" /\ S!Next /\ UNCHANGED <<record, dataset>>
    /\ UNCHANGED part

SpecKeeping == InitKeeping /\ [][NextKeeping]_<<part, record, dataset, startup>>

-----------------------------------------------------------------------------
\* The type invariants of the three.
TypesOK ==
    CASE part = "record" -> TypeOK
      [] part = "dataset" -> D!TypeOK
      [] part = "startup" -> S!TypeOK

\* A saved dataset is loaded whole or refused (Dataset).
LoadsAllOrNothing == part = "dataset" => D!LoadsAllOrNothing

\* What was answered while a record was kept is read back (Startup).
KeptIsReadBack == part = "startup" => S!KeptIsReadBack
=============================================================================
