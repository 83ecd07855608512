------------------------------ MODULE Startup ------------------------------
(***************************************************************************)
(* From the command line to the first client and back again: the settings  *)
(* a server is started with (src/config.rs), the manifest and the file the *)
(* writes are to be recorded in (prepare in src/aof.rs), the replay, and   *)
(* what is left on the disk when the process or the machine stops (main).  *)
(*                                                                         *)
(* An argument is a sequence of words, which is what splitting it on white *)
(* space gives, and a word is a sequence of the pieces it is put together  *)
(* from.  The writes of one client are numbered; how the tasks of several  *)
(* interleave, and records cut short, are the business of AppendOnly.      *)
(***************************************************************************)
EXTENDS Integers, Sequences, Functions

CONSTANTS
    CommandLines,    \* the arguments a server may be started with
    ManifestsFound,  \* the manifests that may be there before the first start
    Capitals,        \* a function: words with capitals, to those without
    Ports,           \* the words that read as a port
    MaxWrites,       \* bound: how many writes there are
    MaxStops         \* bound: how often the process or the machine stops

VARIABLES
    stage,      \* where main has got to, or the one client's write
    config,     \* what the server was started with
    manifests,  \* per place, the lines of its manifest, and how many will stay
    files,      \* per path, the writes recorded there, and how many will stay
    path,       \* the file that is open
    store,      \* the writes the store holds the effects of
    made,       \* how many writes there have been
    kept,       \* history: the writes answered while a record was being kept
    stops

vars == <<stage, config, manifests, files, path, store, made, kept, stops>>

-----------------------------------------------------------------------------
(* Settings.                                                               *)

One(piece) == << <<piece>> >>

Lower(piece) == IF piece \in DOMAIN Capitals THEN Capitals[piece] ELSE piece
EqIgnoreCase(value, word) == Len(value) = 1 /\ Len(value[1]) = 1 /\ Lower(value[1][1]) = word

ALWAYS == "always"
APPENDFSYNCS == {ALWAYS, "everysec", "no"}

Default ==
    [ok |-> TRUE, port |-> One("6379"), replicaof |-> << >>, dir |-> One("."),
     dbfilename |-> One("dump.rdb"), appendonly |-> FALSE, appenddirname |-> One("appendonlydir"),
     appendfilename |-> One("appendonly.aof"), appendfsync |-> One("everysec")]

Refused == [ok |-> FALSE]

YesOrNoGiven(value) == \E word \in {"yes", "no"} : EqIgnoreCase(value, word)

AppendfsyncGiven(value) == \E word \in APPENDFSYNCS : EqIgnoreCase(value, word)

IsPort(words) == Len(words) = 1 /\ Len(words[1]) = 1 /\ words[1][1] \in Ports

\* One flag and its value, taken into the settings.
Given(settings, flag, value) ==
    LET name == flag[1][2]
        Take(fits) == IF fits THEN [settings EXCEPT ![name] = value] ELSE Refused
    IN  CASE ~ settings.ok -> Refused
          [] Len(flag) # 1 \/ Len(flag[1]) # 2 -> Refused
          [] name = "port" -> Take(IsPort(value))
          [] name = "replicaof" -> Take(Len(value) = 2 /\ IsPort(Tail(value)))
          [] name = "appendonly" ->
                 IF YesOrNoGiven(value)
                 THEN [settings EXCEPT !.appendonly = EqIgnoreCase(value, "yes")]
                 ELSE Refused
          [] name = "appendfsync" -> Take(AppendfsyncGiven(value))
          [] name \in {"dir", "dbfilename", "appenddirname", "appendfilename"} -> Take(TRUE)
          [] OTHER -> Refused

\* The flags and values in order, of which the last for a setting stands.  A
\* flag with no value after it is refused, like any other mistake.
Parse(args) ==
    LET Pair(settings, i) == IF Len(args) = 2 * i - 1 THEN Refused
                             ELSE Given(settings, args[2 * i - 1], args[2 * i])
        pairs == (Len(args) + 1) \div 2
        after[i \in 0 .. pairs] == IF i = 0 THEN Default ELSE Pair(after[i - 1], i)
    IN  after[pairs]

YesOrNo(setting) == IF setting THEN One("yes") ELSE One("no")

\* What CONFIG GET answers for a setting.
Setting(settings, name) ==
    IF name = "appendonly" THEN YesOrNo(settings.appendonly) ELSE settings[name]

-----------------------------------------------------------------------------
(* The manifest.                                                           *)

INCREMENTAL == <<"i">>
FIRST == "1"

Directory == <<config.dir, config.appenddirname>>
Place == <<Directory, config.appendfilename>>

\* The first file's name is that of the setting with something on the end.
IncrementalName(name, sequence) ==
    [name EXCEPT ![Len(name)] = @ \o <<".", sequence, ".incr.aof">>]

Listing(name) ==
    << << <<"file">> >> \o IncrementalName(name, FIRST) \o
       << <<"seq">>, <<FIRST>>, <<"type">>, INCREMENTAL >> >>

\* The values a line gives for a field, which is read by name; the last stands.
Values(line, field) ==
    LET pairs == {i \in 1 .. Len(line) \div 2 : line[2 * i - 1] = <<field>>}
    IN  {line[2 * i] : i \in {i \in pairs : \A j \in pairs : j <= i}}

Listed(line) == Values(line, "file") # {} /\ Values(line, "type") = {INCREMENTAL}

\* The lines of a manifest that name a file commands are recorded in, and the
\* file that the last of them names.
RecordedIn(lines) == {i \in DOMAIN lines : Listed(lines[i])}
LastOf(lines) ==
    LET last == CHOOSE i \in RecordedIn(lines) : \A j \in RecordedIn(lines) : j <= i
    IN  <<CHOOSE name \in Values(lines[last], "file") : TRUE>>

Lines(place) == IF place \in DOMAIN manifests THEN manifests[place].lines ELSE << >>

-----------------------------------------------------------------------------
(* Starting.                                                               *)

Init ==
    /\ stage = "down"
    /\ config = Default
    /\ \E found \in ManifestsFound :
           manifests = [place \in DOMAIN found |-> [lines |-> found[place], settled |-> TRUE]]
    /\ files = << >>
    /\ path = << >>
    /\ store = << >>
    /\ made = 0
    /\ kept = {}
    /\ stops = 0

Begin(args) ==
    /\ stage = "down"
    /\ Parse(args).ok
    /\ config' = Parse(args)
    /\ stage' = IF config'.appendonly THEN "preparing" ELSE "serving"
    /\ UNCHANGED <<manifests, files, path, store, made, kept, stops>>

Open(name) == path' = <<Directory, name>> /\ stage' = "opening"

\* The manifest is followed if it names a file.  Otherwise it is made afresh,
\* for which it is emptied first.
Prepare ==
    /\ stage = "preparing"
    /\ IF RecordedIn(Lines(Place)) # {}
       THEN Open(LastOf(Lines(Place))) /\ UNCHANGED manifests
       ELSE /\ manifests' = [place \in DOMAIN manifests \cup {Place} |->
                                IF place = Place THEN [lines |-> << >>, settled |-> FALSE]
                                ELSE manifests[place]]
            /\ stage' = "listing"
            /\ UNCHANGED path
    /\ UNCHANGED <<config, files, store, made, kept, stops>>

List ==
    /\ stage = "listing"
    /\ manifests' = [manifests EXCEPT ![Place].lines = Listing(config.appendfilename)]
    /\ Open(IncrementalName(config.appendfilename, FIRST))
    /\ UNCHANGED <<config, files, store, made, kept, stops>>

\* The file is made if it is not there, and opened to be added to.
OpenFile ==
    /\ stage = "opening"
    /\ files' = [f \in DOMAIN files \cup {path} |->
                    IF f \in DOMAIN files THEN files[f] ELSE [held |-> << >>, settled |-> 0]]
    /\ stage' = "replaying"
    /\ UNCHANGED <<config, manifests, path, store, made, kept, stops>>

\* What is recorded is done again, and clients are let in.
Replay ==
    /\ stage = "replaying"
    /\ store' = files[path].held
    /\ stage' = "serving"
    /\ UNCHANGED <<config, manifests, files, path, made, kept, stops>>

-----------------------------------------------------------------------------
(* Serving.                                                                *)

\* A write is made in the store, and answered at once if no record is kept.
Write ==
    /\ stage = "serving" /\ made < MaxWrites
    /\ made' = made + 1
    /\ store' = Append(store, made')
    /\ stage' = IF config.appendonly THEN "made" ELSE "serving"
    /\ UNCHANGED <<config, manifests, files, path, kept, stops>>

\* Mutant: only the setting as it is usually written asks for every write.
DurableAsWritten(settings) == settings.appendfsync = One(ALWAYS)

Durable(settings) == EqIgnoreCase(settings.appendfsync, ALWAYS)

Record ==
    /\ stage = "made"
    /\ files' = [files EXCEPT ![path].held = Append(@, made)]
    /\ stage' = IF Durable(config) THEN "recorded" ELSE "answering"
    /\ UNCHANGED <<config, manifests, path, store, made, kept, stops>>

\* Pushed through to the disk.
Sync ==
    /\ stage = "recorded"
    /\ files' = [files EXCEPT ![path].settled = Len(files[path].held)]
    /\ stage' = "answering"
    /\ UNCHANGED <<config, manifests, path, store, made, kept, stops>>

\* The client is told, and may count on what CONFIG GET says of the settings.
Answer ==
    /\ stage = "answering"
    /\ kept' = kept \cup
           {[write |-> made, place |-> Place,
             settled |-> EqIgnoreCase(Setting(config, "appendfsync"), ALWAYS)]}
    /\ stage' = "serving"
    /\ UNCHANGED <<config, manifests, files, path, store, made, stops>>

-----------------------------------------------------------------------------
(* Stopping.                                                               *)

Down ==
    /\ stops < MaxStops
    /\ stops' = stops + 1
    /\ stage' = "down"
    /\ config' = Default
    /\ path' = << >>
    /\ store' = << >>
    /\ UNCHANGED made

\* The process is stopped, or stops itself over something that failed.  What it
\* had written is with the system, and stays.
Stop == stage # "down" /\ Down /\ UNCHANGED <<manifests, files, kept>>

\* What a file nobody pushed through may have come to: a part of its one line.
CutLines(manifest) ==
    IF manifest.settled \/ manifest.lines = << >> THEN {manifest.lines}
    ELSE {<<SubSeq(manifest.lines[1], 1, n)>> : n \in 0 .. Len(manifest.lines[1])}

\* The machine stops.  Of what was not pushed through to the disk, the system
\* may have seen to any part, and what is there then will stay.
PowerLoss ==
    /\ Down
    /\ \E lines \in [DOMAIN manifests -> UNION {CutLines(manifests[place]) : place \in DOMAIN manifests}] :
           /\ \A place \in DOMAIN manifests : lines[place] \in CutLines(manifests[place])
           /\ manifests' = [place \in DOMAIN manifests |->
                               [lines |-> lines[place], settled |-> TRUE]]
    /\ \E left \in [DOMAIN files -> 0 .. MaxWrites] :
           /\ \A f \in DOMAIN files : left[f] \in files[f].settled .. Len(files[f].held)
           /\ files' = [f \in DOMAIN files |->
                           [held |-> SubSeq(files[f].held, 1, left[f]), settled |-> left[f]]]
    /\ kept' = {k \in kept : k.settled}

-----------------------------------------------------------------------------
Next ==
    \/ \E args \in CommandLines : Begin(args)
    \/ Prepare \/ List \/ OpenFile \/ Replay
    \/ Write \/ Record \/ Sync \/ Answer
    \/ Stop \/ PowerLoss

Spec == Init /\ [][Next]_vars

-----------------------------------------------------------------------------
(* Properties.                                                             *)

\* The type invariant of the server and what it leaves on the disk.
TypeOK ==
    /\ stage \in {"down", "preparing", "listing", "opening", "replaying", "serving",
                  "made", "recorded", "answering"}
    /\ config.ok
    /\ \A f \in DOMAIN files : files[f].settled \in 0 .. Len(files[f].held)
    /\ stage \in {"replaying", "made", "recorded", "answering"} => path \in DOMAIN files
    /\ store \in Seq(1 .. made)
    /\ made \in 0 .. MaxWrites
    /\ stops \in 0 .. MaxStops

\* A listing, and what a stop of the machine may leave of it, is read back as
\* naming the file it was made for, or as naming none.  With two spaces in the
\* name it is not: the words pair off as fields and values in another way, and
\* the next start takes up a file of another name.
ListsItself(name) ==
    \A lines \in {Listing(name)} \cup CutLines([lines |-> Listing(name), settled |-> FALSE]) :
        RecordedIn(lines) # {} => LastOf(lines) = IncrementalName(name, FIRST)

\* A server started over a place it, or one before it, kept a record at serves
\* no client before it holds every write answered there, each once and in the
\* order they were made: all of them after the process stopped, wherever it was
\* stopped, and after the machine did, those answered while CONFIG GET said
\* that each is pushed through to the disk, though the manifest never is.  The
\* name of the file has to be one whose listing reads back.
KeptIsReadBack ==
    stage = "serving" /\ config.appendonly /\ ListsItself(config.appendfilename) =>
        /\ {k.write : k \in {k \in kept : k.place = Place}} \subseteq Range(store)
        /\ \A i, j \in DOMAIN store : i < j => store[i] < store[j]
=============================================================================
