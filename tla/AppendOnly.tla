----------------------------- MODULE AppendOnly -----------------------------
(***************************************************************************)
(* How a write travels: from the store to the append-only file, on to the  *)
(* replicas, and back from the file into the store when the server is      *)
(* started again (dispatch in src/commands/mod.rs, src/aof.rs, replay in   *)
(* src/main.rs).                                                           *)
(*                                                                         *)
(* The store is one list, since pushes and pops show in which order they   *)
(* were done.  Clients RPUSH, LPOP and BLPOP.  The store's mutex, the lock *)
(* over the file and the sending to the replicas are three separate steps  *)
(* of a client's task, and the tasks of other clients run in between.      *)
(***************************************************************************)
EXTENDS Integers, Sequences

CONSTANTS
    Clients,
    MaxWrites,   \* bound: how many writes there are
    MaxStops,    \* bound: how often the server stops
    MaxFailures  \* bound: how many records fail to be written

ASSUME AppendOnlyAssumption == {MaxWrites, MaxStops, MaxFailures} \subseteq Nat

\* A write, numbered in the order the store made them.  What is pushed is told
\* apart by the number of the push.
Commands == [op : {"RPUSH", "LPOP"}, id : 1 .. MaxWrites]
Nothing == [op |-> "none", id |-> 0]

VARIABLES
    mode,     \* "up", "down", or "refused" to start
    list,     \* what the store holds
    line,     \* the clients blocked on the list
    pc,       \* per client: "idle", "blocked", "made", "writing", "recorded"
    written,  \* per client: the words its write is to be recorded in
    file,     \* the record: commands, each whole or cut short
    stream,   \* what was passed on to the replicas
    \* history, and counts for the bounds
    made,     \* how many writes the store has made
    acked,    \* the numbers of the writes whose clients were told they took
    failures, \* how many records failed
    stops     \* how often the server has stopped

tasks == <<line, pc, written>>
vars == <<mode, list, line, pc, written, file, stream, made, acked, failures, stops>>

Records == [command : Commands, whole : BOOLEAN]
Whole(record) == record.whole
Words(records) == [i \in DOMAIN records |-> records[i].command]
Ids(records) == {records[i].command.id : i \in DOMAIN records}

\* The type invariant of the store, the tasks and the file.
TypeOK ==
    /\ mode \in {"up", "down", "refused"}
    /\ list \in Seq(1 .. MaxWrites)
    /\ line \in Seq(Clients)
    /\ pc \in [Clients -> {"idle", "blocked", "made", "writing", "recorded"}]
    /\ \A c \in Clients : written[c] \in Commands <=> pc[c] \notin {"idle", "blocked"}
    /\ file \in Seq(Records)
    /\ stream \in Seq(Commands)
    /\ made \in 0 .. MaxWrites
    /\ acked \subseteq 1 .. made
    /\ failures \in 0 .. MaxFailures
    /\ stops \in 0 .. MaxStops

Init ==
    /\ mode = "up"
    /\ list = << >>
    /\ line = << >>
    /\ pc = [c \in Clients |-> "idle"]
    /\ written = [c \in Clients |-> Nothing]
    /\ file = << >>
    /\ stream = << >>
    /\ made = 0
    /\ acked = {}
    /\ failures = 0
    /\ stops = 0

-----------------------------------------------------------------------------
(* The store.                                                              *)

\* The client's task has made a change, to be recorded in these words.
Made(c, op) ==
    /\ pc' = [pc EXCEPT ![c] = "made"]
    /\ written' = [written EXCEPT ![c] = [op |-> op, id |-> made + 1]]
    /\ made' = made + 1

\* Mutant: the pop of the client that was blocked is not recorded.
RpushUnrecordedPop(c) ==
    /\ mode = "up" /\ pc[c] = "idle" /\ made < MaxWrites
    /\ IF line = << >>
       THEN Made(c, "RPUSH") /\ list' = Append(list, made + 1) /\ UNCHANGED line
       ELSE /\ pc' = [pc EXCEPT ![c] = "made", ![Head(line)] = "idle"]
            /\ written' = [written EXCEPT ![c] = [op |-> "RPUSH", id |-> made + 1]]
            /\ made' = made + 1
            /\ line' = Tail(line)
            /\ UNCHANGED list
    /\ UNCHANGED <<mode, file, stream, acked, failures, stops>>

\* RPUSH of one element.  A client blocked on the list takes it at once, and
\* its task has a pop to record.
Rpush(c) ==
    /\ mode = "up" /\ pc[c] = "idle"
    /\ IF line = << >>
       THEN /\ made < MaxWrites
            /\ Made(c, "RPUSH")
            /\ list' = Append(list, made + 1)
            /\ UNCHANGED line
       ELSE /\ made + 1 < MaxWrites
            /\ pc' = [pc EXCEPT ![c] = "made", ![Head(line)] = "made"]
            /\ written' = [written EXCEPT ![c] = [op |-> "RPUSH", id |-> made + 1],
                                          ![Head(line)] = [op |-> "LPOP", id |-> made + 2]]
            /\ made' = made + 2
            /\ line' = Tail(line)
            /\ UNCHANGED list
    /\ UNCHANGED <<mode, file, stream, acked, failures, stops>>

\* LPOP is passed on whether or not there was anything to take.
Lpop(c) ==
    /\ mode = "up" /\ pc[c] = "idle"
    /\ made < MaxWrites
    /\ Made(c, "LPOP")
    /\ list' = IF list = << >> THEN list ELSE Tail(list)
    /\ UNCHANGED <<mode, line, file, stream, acked, failures, stops>>

\* BLPOP of a list with something in it is written down as an LPOP; the wait on
\* one without is not written down.
Blpop(c) ==
    /\ mode = "up" /\ pc[c] = "idle"
    /\ IF list # << >>
       THEN /\ made < MaxWrites
            /\ Made(c, "LPOP")
            /\ list' = Tail(list)
            /\ UNCHANGED line
       ELSE /\ pc' = [pc EXCEPT ![c] = "blocked"]
            /\ line' = Append(line, c)
            /\ UNCHANGED <<written, made, list>>
    /\ UNCHANGED <<mode, file, stream, acked, failures, stops>>

-----------------------------------------------------------------------------
(* The file, one writer at a time.                                         *)

\* The lock is taken and part of the command is in the file.
BeginRecord(c) ==
    /\ mode = "up" /\ pc[c] = "made"
    /\ \A d \in Clients : pc[d] # "writing"
    /\ file' = Append(file, [command |-> written[c], whole |-> FALSE])
    /\ pc' = [pc EXCEPT ![c] = "writing"]
    /\ UNCHANGED <<mode, list, line, written, stream, made, acked, failures, stops>>

\* All of it is, and has been flushed.
EndRecord(c) ==
    /\ mode = "up" /\ pc[c] = "writing"
    /\ file' = [file EXCEPT ![Len(file)].whole = TRUE]
    /\ pc' = [pc EXCEPT ![c] = "recorded"]
    /\ UNCHANGED <<mode, list, line, written, stream, made, acked, failures, stops>>

\* The file without its last record.
Before(records) == SubSeq(records, 1, Len(records) - 1)

\* Mutant: a failure leaves the task with its words still to be recorded.
RecordFailsKeepingWords(c) ==
    /\ mode = "up" /\ pc[c] = "writing"
    /\ failures < MaxFailures
    /\ failures' = failures + 1
    /\ pc' = [pc EXCEPT ![c] = "idle"]
    /\ file' \in {file, Before(file)}
    /\ UNCHANGED <<mode, list, line, written, stream, made, acked, stops>>

\* Writing fails: the client hears an error, and the replicas hear nothing.
\* What had been written stays in the file.
RecordFails(c) ==
    /\ mode = "up" /\ pc[c] = "writing"
    /\ failures < MaxFailures
    /\ failures' = failures + 1
    /\ pc' = [pc EXCEPT ![c] = "idle"]
    /\ written' = [written EXCEPT ![c] = Nothing]
    /\ file' \in {file, Before(file)}
    /\ UNCHANGED <<mode, list, line, stream, made, acked, stops>>

\* Mutant: the client is answered while the record is still being written.
PassOnEarly(c) ==
    /\ mode = "up" /\ pc[c] \in {"writing", "recorded"}
    /\ stream' = Append(stream, written[c])
    /\ acked' = acked \cup {written[c].id}
    /\ pc' = [pc EXCEPT ![c] = "idle"]
    /\ written' = [written EXCEPT ![c] = Nothing]
    /\ UNCHANGED <<mode, list, line, file, made, failures, stops>>

\* The replicas are told, and then the client.
PassOn(c) ==
    /\ mode = "up" /\ pc[c] = "recorded"
    /\ stream' = Append(stream, written[c])
    /\ acked' = acked \cup {written[c].id}
    /\ pc' = [pc EXCEPT ![c] = "idle"]
    /\ written' = [written EXCEPT ![c] = Nothing]
    /\ UNCHANGED <<mode, list, line, file, made, failures, stops>>

-----------------------------------------------------------------------------
(* Stopping, and starting over the same file.                              *)

\* The process is gone, wherever its tasks were.  The list is left here as it
\* was, though nothing keeps it.
Stop ==
    /\ mode = "up" /\ stops < MaxStops
    /\ mode' = "down"
    /\ stops' = stops + 1
    /\ line' = << >>
    /\ pc' = [c \in Clients |-> "idle"]
    /\ written' = [c \in Clients |-> Nothing]
    /\ stream' = << >>
    /\ UNCHANGED <<list, file, made, acked, failures>>

\* A command done again, and all of them in order.
DoAgain(held, command) ==
    IF command.op = "RPUSH" THEN Append(held, command.id)
    ELSE IF held = << >> THEN held ELSE Tail(held)

Replay(commands) ==
    LET after[i \in 0 .. Len(commands)] ==
            IF i = 0 THEN << >> ELSE DoAgain(after[i - 1], commands[i])
    IN  after[Len(commands)]

Cut == {i \in DOMAIN file : ~ file[i].whole}

\* What reading the record through may come to.  A cut record at the end is
\* dropped.  One with others behind it is read on into them: its lengths lay
\* claim to their bytes, and at least one of them goes with it, or all.
Recorded ==
    IF Cut = {} THEN {file}
    ELSE LET cut == CHOOSE i \in Cut : \A j \in Cut : i <= j
         IN  {SelectSeq(SubSeq(file, 1, cut - 1) \o SubSeq(file, from, Len(file)), Whole) :
                 from \in IF cut = Len(file) THEN {cut + 1} ELSE cut + 2 .. Len(file) + 1}

\* Mutant: the record is taken up before the replay, which records it all again.
StartRecordingReplay ==
    /\ mode = "down"
    /\ mode' = "up"
    /\ \E records \in Recorded : list' = Replay(Words(records)) /\ file' = file \o records
    /\ UNCHANGED <<tasks, stream, made, acked, failures, stops>>

Start ==
    /\ mode = "down"
    /\ mode' = "up"
    /\ \E records \in Recorded : list' = Replay(Words(records))
    /\ UNCHANGED <<tasks, file, stream, made, acked, failures, stops>>

\* Or the bytes that were claimed are out of shape, and the server stays down.
Refuse ==
    /\ mode = "down"
    /\ \E i \in Cut : i < Len(file)
    /\ mode' = "refused"
    /\ UNCHANGED <<list, tasks, file, stream, made, acked, failures, stops>>

-----------------------------------------------------------------------------
Task(c) ==
    \/ Rpush(c) \/ Lpop(c) \/ Blpop(c)
    \/ BeginRecord(c) \/ EndRecord(c) \/ RecordFails(c) \/ PassOn(c)

Next == (\E c \in Clients : Task(c)) \/ Stop \/ Start \/ Refuse

Spec == Init /\ [][Next]_vars

-----------------------------------------------------------------------------
(* Properties.                                                             *)

\* No client is told a write took before all of it is in the file, and nothing
\* that happens afterwards, a restart or a failed record, takes it out.  And
\* nothing is recorded twice: what is replayed is not recorded again, as the
\* README says of restarts, and no failure has a write recorded again.
AckedIsRecordedOnce ==
    /\ \A id \in acked : \E i \in DOMAIN file : file[i].whole /\ file[i].command.id = id
    /\ \A i, j \in DOMAIN file : file[i].command.id = file[j].command.id => i = j

Settled == mode = "up" /\ Cut = {} /\ failures = 0 /\ \A c \in Clients : pc[c] \in {"idle", "blocked"}
InOrder(commands) == \A i, j \in DOMAIN commands : i < j => commands[i].id < commands[j].id

\* With no write under way, a record made in the order the store made the
\* writes replays to just what the store holds, whether the writes were made in
\* this run or in one before, and whoever took the elements.  A replica that
\* was told of them in that order since the first start holds the same.
OrderedWordsReplay ==
    Settled => /\ InOrder(Words(file)) => Replay(Words(file)) = list
               /\ stops = 0 /\ InOrder(stream) => Replay(stream) = list

\* What main says of the replay: it "leaves the store where the last run left
\* it".
RecordReplays == Settled => Replay(Words(file)) = list

\* What Aof::recorded says of a record that ends mid-command: the part that
\* arrived is dropped, so that whatever was answered is read back.
AckedIsReadBack == \A records \in Recorded : acked \subseteq Ids(records)
=============================================================================
