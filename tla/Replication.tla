---------------------------- MODULE Replication ----------------------------
(***************************************************************************)
(* A master, the replicas that follow it, and WAIT: how the stream of      *)
(* changes is counted at both ends and how WAIT reads the counts           *)
(* (src/replicas.rs, src/replica.rs, src/commands/replication.rs, the end  *)
(* of dispatch in src/commands/mod.rs, PSYNC in src/connection.rs).        *)
(*                                                                         *)
(* A change is queued for every replica under one mutex (Replicas::send)   *)
(* and only then added to the offset, an atomic counter: two steps, and    *)
(* other tasks run in between.  A replica's queue and its socket are one   *)
(* pipe here, since both keep order and lose nothing while the connection  *)
(* lasts.  What a change does to the stores is not modelled.               *)
(***************************************************************************)
EXTENDS Integers, Sequences, FiniteSets, Functions

CONSTANTS
    Clients,    \* connections to the master that write and WAIT
    Impatient,  \* those that give WAIT a timeout other than zero
    Replicas,
    Length,     \* how many bytes a "change" and an "ask" (GETACK) take up
    MaxStream   \* bound: the most bytes that are streamed

ASSUME ReplicationAssumption ==
    /\ IsFiniteSet(Clients)
    /\ Impatient \subseteq Clients
    /\ Length \in [{"change", "ask"} -> Nat \ {0}]
    /\ MaxStream \in Nat

VARIABLES
    offset,     \* the master's count of the stream
    following,  \* the replicas the master keeps up to date
    link,       \* per replica: how far its connection has come
    pipe,       \* per replica: what was queued for it and it has yet to read
    position,   \* per replica: its own count of the stream
    acks,       \* per replica: the counts it reported that are not read yet
    reached,    \* per replica: the last count the master read
    pc,         \* per client: where it is in a write or a WAIT
    passed,     \* per client: what it has queued and not yet counted
    target,     \* per client: the count its WAIT waits for
    wanted,     \* per client: how many replicas it waits for
    stirred,    \* per client: whether the future it waits on has been woken
    \* history, read by the properties alone
    missed,     \* per replica: bytes counted that it was never sent
    slipped,    \* replicas that missed a change after being handed a dataset
    due,        \* per client and replica: what was sent before WAIT began
    blur        \* per client: what of that was not in the offset yet

master == <<offset, following>>
replica == <<link, pipe, position, acks, reached, missed, slipped>>
client == <<pc, passed, target, wanted, stirred, due, blur>>
vars == <<master, replica, client>>

Bytes(messages) == SumFunction([i \in DOMAIN messages |-> Length[messages[i]]])

Pending == SumFunction(passed)

\* Bytes yet to come from clients that are past their first check.
Reserved == Length["ask"] * Cardinality({c \in Clients : pc[c] = "asking"})
HasRoom(n) == offset + Pending + Reserved + n <= MaxStream

\* The type invariant of the master, its replicas and the clients of WAIT.
TypeOK ==
    /\ offset \in 0 .. MaxStream
    /\ following \subseteq Replicas
    /\ link \in [Replicas -> {"away", "agreed", "handed", "open", "dead"}]
    /\ \A r \in Replicas : /\ pipe[r] \in Seq({"change", "ask"})
                           /\ acks[r] \in Seq(Nat)
                           /\ link[r] \in {"open", "dead"} <=> r \in following
    /\ position \in [Replicas -> Nat]
    /\ reached \in [Replicas -> Nat]
    /\ pc \in [Clients -> {"idle", "sent", "asking", "asked", "loop", "looking",
                        "counted", "parked"}]
    /\ passed \in [Clients -> Nat]
    /\ target \in [Clients -> Nat]
    /\ wanted \in [Clients -> 0 .. Cardinality(Replicas)]
    /\ stirred \in [Clients -> BOOLEAN]
    /\ missed \in [Replicas -> Nat]
    /\ slipped \subseteq Replicas
    /\ due \in [Clients -> [Replicas -> Nat]]
    /\ blur \in [Clients -> Nat]

Init ==
    /\ offset = 0
    /\ following = {}
    /\ link = [r \in Replicas |-> "away"]
    /\ pipe = [r \in Replicas |-> << >>]
    /\ position = [r \in Replicas |-> 0]
    /\ acks = [r \in Replicas |-> << >>]
    /\ reached = [r \in Replicas |-> 0]
    /\ pc = [c \in Clients |-> "idle"]
    /\ passed = [c \in Clients |-> 0]
    /\ target = [c \in Clients |-> 0]
    /\ wanted = [c \in Clients |-> 0]
    /\ stirred = [c \in Clients |-> FALSE]
    /\ missed = [r \in Replicas |-> 0]
    /\ slipped = {}
    /\ due = [c \in Clients |-> [r \in Replicas |-> 0]]
    /\ blur = [c \in Clients |-> 0]

-----------------------------------------------------------------------------
(* The stream.                                                             *)

Goto(c, there) == pc' = [pc EXCEPT ![c] = there]

\* Queued for every replica there is, and counted as so many bytes.
Queue(c, message, taken) ==
    /\ pipe' = [r \in Replicas |-> IF r \in following THEN Append(pipe[r], message)
                                                      ELSE pipe[r]]
    /\ passed' = [passed EXCEPT ![c] = taken]
    /\ missed' = [r \in Replicas |-> IF link[r] \in {"agreed", "handed"}
                                     THEN missed[r] + taken ELSE missed[r]]
    /\ slipped' = IF message = "change"
                  THEN slipped \cup {r \in Replicas : link[r] = "handed"}
                  ELSE slipped
    /\ UNCHANGED <<offset, following, link, position, acks, reached>>

\* Replicas::send: worth nothing to the count where there is no replica.
Send(c, message) ==
    Queue(c, message, IF following = {} THEN 0 ELSE Length[message])

\* Replication::advance.
Advance(c) ==
    /\ offset' = offset + passed[c]
    /\ passed' = [passed EXCEPT ![c] = 0]
    /\ UNCHANGED <<following, replica, target, wanted, stirred, due, blur>>

\* The end of dispatch, for a command that changed the store.
Write(c) ==
    /\ pc[c] = "idle"
    /\ HasRoom(Length["change"])
    /\ Send(c, "change")
    /\ Goto(c, "sent")
    /\ UNCHANGED <<target, wanted, stirred, due, blur>>

Written(c) == pc[c] = "sent" /\ Advance(c) /\ Goto(c, "idle")

-----------------------------------------------------------------------------
(* WAIT.                                                                   *)

\* Mutant: a replica one byte short will do.
CaughtUpNearly(c) == {r \in following : reached[r] + 1 >= target[c]}

CaughtUp(c) == {r \in following : reached[r] >= target[c]}

\* The target is settled first.  With nothing handed out there is nothing to
\* wait for.
Wait(c, n) ==
    /\ pc[c] = "idle"
    /\ HasRoom(Length["ask"])
    /\ offset # 0
    /\ target' = [target EXCEPT ![c] = offset]
    /\ wanted' = [wanted EXCEPT ![c] = n]
    /\ due' = [due EXCEPT ![c] = [r \in Replicas |->
                  IF r \in following THEN position[r] + Bytes(pipe[r]) ELSE 0]]
    /\ blur' = [blur EXCEPT ![c] = Pending]
    /\ Goto(c, "asking")
    /\ UNCHANGED <<master, replica, passed, stirred>>

Ask(c) ==
    /\ pc[c] = "asking"
    /\ Send(c, "ask")
    /\ Goto(c, "asked")
    /\ UNCHANGED <<target, wanted, stirred, due, blur>>

\* Mutant: the target takes in the question itself.
AskedRetargeting(c) ==
    /\ pc[c] = "asked"
    /\ offset' = offset + passed[c]
    /\ passed' = [passed EXCEPT ![c] = 0]
    /\ target' = [target EXCEPT ![c] = offset + passed[c]]
    /\ Goto(c, "loop")
    /\ UNCHANGED <<following, replica, wanted, stirred, due, blur>>

Asked(c) == pc[c] = "asked" /\ Advance(c) /\ Goto(c, "loop")

\* The future is made before the count is taken.
MakeFuture(c) ==
    /\ pc[c] = "loop"
    /\ stirred' = [stirred EXCEPT ![c] = FALSE]
    /\ Goto(c, "looking")
    /\ UNCHANGED <<master, replica, passed, target, wanted, due, blur>>

\* The answer is the number of replicas, and the WAIT is forgotten.
Answer(c) ==
    /\ Goto(c, "idle")
    /\ target' = [target EXCEPT ![c] = 0]
    /\ wanted' = [wanted EXCEPT ![c] = 0]
    /\ stirred' = [stirred EXCEPT ![c] = FALSE]
    /\ due' = [due EXCEPT ![c] = [r \in Replicas |-> 0]]
    /\ blur' = [blur EXCEPT ![c] = 0]
    /\ UNCHANGED <<master, replica, passed>>

Count(c) ==
    /\ pc[c] = "looking"
    /\ IF Cardinality(CaughtUp(c)) >= wanted[c]
       THEN Answer(c)
       ELSE /\ Goto(c, "counted")
            /\ UNCHANGED <<master, replica, passed, target, wanted, stirred, due, blur>>

\* Only now is the future waited on.
Park(c) ==
    /\ pc[c] = "counted"
    /\ Goto(c, "parked")
    /\ UNCHANGED <<master, replica, passed, target, wanted, stirred, due, blur>>

Woken(c) ==
    /\ pc[c] = "parked" /\ stirred[c]
    /\ Goto(c, "loop")
    /\ UNCHANGED <<master, replica, passed, target, wanted, stirred, due, blur>>

\* Mutant: a timeout only prompts another look.
TimedOutRetrying(c) ==
    /\ c \in Impatient /\ pc[c] = "parked"
    /\ Goto(c, "loop")
    /\ UNCHANGED <<master, replica, passed, target, wanted, stirred, due, blur>>

TimedOut(c) == c \in Impatient /\ pc[c] = "parked" /\ Answer(c)

-----------------------------------------------------------------------------
(* A replica and the connection that carries it.                           *)

\* PSYNC: the replica is told the offset, and will count from there.
Psync(r) ==
    /\ link[r] = "away"
    /\ link' = [link EXCEPT ![r] = "agreed"]
    /\ position' = [position EXCEPT ![r] = offset]
    /\ missed' = [missed EXCEPT ![r] = Pending]
    /\ UNCHANGED <<master, pipe, acks, reached, slipped, client>>

\* The agreement and the dataset have been written out.
HandDataset(r) ==
    /\ link[r] = "agreed"
    /\ link' = [link EXCEPT ![r] = "handed"]
    /\ UNCHANGED <<master, pipe, position, acks, reached, missed, slipped, client>>

\* Replicas::add.
Add(r) ==
    /\ link[r] = "handed"
    /\ link' = [link EXCEPT ![r] = "open"]
    /\ following' = following \cup {r}
    /\ UNCHANGED <<offset, pipe, position, acks, reached, missed, slipped, client>>

\* The next message is read, counted as so many bytes and, where it is a
\* question, answered with this report.
Read(r, counted, report) ==
    /\ link[r] = "open" /\ pipe[r] # << >>
    /\ pipe' = [pipe EXCEPT ![r] = Tail(@)]
    /\ position' = [position EXCEPT ![r] = @ + counted]
    /\ acks' = IF Head(pipe[r]) = "ask" THEN [acks EXCEPT ![r] = Append(@, report)] ELSE acks
    /\ UNCHANGED <<master, link, reached, missed, slipped, client>>

\* Mutant: questions are not counted.
TakeSkippingAsks(r) ==
    Read(r, IF Head(pipe[r]) = "ask" THEN 0 ELSE Length[Head(pipe[r])], position[r])

\* One turn of keep_up: a question is answered with the count so far, and
\* whatever was read is counted after.
Take(r) == Read(r, Length[Head(pipe[r])], position[r])

\* A report is noted, leaving the rest, and these clients are woken.
Note(r, report, rest, woken) ==
    /\ r \in following /\ acks[r] # << >>
    /\ reached' = [reached EXCEPT ![r] = report]
    /\ acks' = [acks EXCEPT ![r] = rest]
    /\ stirred' = [c \in Clients |-> stirred[c] \/ pc[c] \in woken]
    /\ UNCHANGED <<master, link, pipe, position, missed, slipped,
                   pc, passed, target, wanted, due, blur>>

\* Mutants: the newest report is read first; a client that has made its future
\* and does not wait on it yet is not woken.
HearAckNewestFirst(r) ==
    Note(r, acks[r][Len(acks[r])], SubSeq(acks[r], 1, Len(acks[r]) - 1), {"looking", "counted", "parked"})
HearAckWakingParked(r) == Note(r, Head(acks[r]), Tail(acks[r]), {"parked"})

\* Following::reached: noted, and every future made so far is woken.
HearAck(r) == Note(r, Head(acks[r]), Tail(acks[r]), {"looking", "counted", "parked"})

\* The replica goes away, which the master finds out later, on a read that
\* ends or a write that fails; then nothing is left of it.
Die(r) ==
    /\ link[r] = "open"
    /\ link' = [link EXCEPT ![r] = "dead"]
    /\ UNCHANGED <<master, pipe, position, acks, reached, missed, slipped, client>>

\* Mutant: a replica whose connection has ended stays on the list.
NoticedKeeping(r) ==
    /\ link[r] = "dead"
    /\ link' = [link EXCEPT ![r] = "away"]
    /\ pipe' = [pipe EXCEPT ![r] = << >>]
    /\ acks' = [acks EXCEPT ![r] = << >>]
    /\ UNCHANGED <<master, position, reached, missed, slipped, client>>

Noticed(r) ==
    /\ link[r] = "dead"
    /\ link' = [link EXCEPT ![r] = "away"]
    /\ following' = following \ {r}
    /\ pipe' = [pipe EXCEPT ![r] = << >>]
    /\ acks' = [acks EXCEPT ![r] = << >>]
    /\ position' = [position EXCEPT ![r] = 0]
    /\ reached' = [reached EXCEPT ![r] = 0]
    /\ missed' = [missed EXCEPT ![r] = 0]
    /\ slipped' = slipped \ {r}
    /\ due' = [c \in Clients |-> [due[c] EXCEPT ![r] = 0]]
    /\ UNCHANGED <<offset, pc, passed, target, wanted, stirred, blur>>

-----------------------------------------------------------------------------
ClientStep(c) ==
    \/ Written(c) \/ Ask(c) \/ Asked(c) \/ MakeFuture(c) \/ Count(c) \/ Park(c) \/ Woken(c) \/ TimedOut(c)

Connection(r) == HandDataset(r) \/ Add(r) \/ HearAck(r) \/ Noticed(r)

Next ==
    \/ \E c \in Clients : ClientStep(c) \/ Write(c) \/ \E n \in 0 .. Cardinality(Replicas) : Wait(c, n)
    \/ \E r \in Replicas : Psync(r) \/ Connection(r) \/ Take(r) \/ Die(r)

\* Tasks that can run do run, and a replica reads what it is sent.  Nobody has
\* to write, to WAIT, to follow or to die.
Fairness ==
    /\ \A c \in Clients : WF_vars(ClientStep(c))
    /\ \A r \in Replicas : WF_vars(HandDataset(r) \/ Add(r)) /\ WF_vars(HearAck(r))
                           /\ WF_vars(Noticed(r)) /\ WF_vars(Take(r))

Spec == Init /\ [][Next]_vars
FairSpec == Spec /\ Fairness

-----------------------------------------------------------------------------
(* Properties.                                                             *)

\* The counts at both ends differ by exactly what was streamed between the
\* offset being read for PSYNC and Replicas::add, and by nothing else, however
\* sends, advances and acknowledgements interleave.
CountsAgree ==
    \A r \in following :
        position[r] + Bytes(pipe[r]) + missed[r] = offset + Pending

\* What the master believes of a replica is never more than the replica has
\* taken in, and what is still to be read of its reports is in order.
ReportsAreTrue ==
    \A r \in following :
        LET reports == <<reached[r]>> \o acks[r] \o <<position[r]>>
        IN  \A i \in 1 .. Len(reports) - 1 : reports[i] <= reports[i + 1]

\* A replica that WAIT counts has taken in all that was queued for it when WAIT
\* began, short only of what was then queued but not yet added to the offset.
WaitCountsTrue ==
    \A c \in Clients : pc[c] = "looking" =>
        \A r \in CaughtUp(c) : position[r] + blur[c] >= due[c][r]

\* A WAIT is answered: always if it gave a timeout; without one, when enough
\* replicas have for good reported the count it waits for, so that no wakeup is
\* lost, and, asking for one replica, when there is one that stays and that
\* missed nothing as it joined.
WaitIsAnswered ==
    /\ \A c \in Impatient : pc[c] # "idle" ~> pc[c] = "idle"
    /\ \A c \in Clients :
          [](/\ pc[c] = "parked" /\ [](Cardinality(CaughtUp(c)) >= wanted[c])
             => <>(pc[c] = "idle"))
    /\ \A c \in Clients, r \in Replicas :
          [](/\ pc[c] = "asking" /\ wanted[c] = 1
             /\ missed[r] = 0 /\ [](link[r] = "open")
             => <>(pc[c] = "idle"))

\* What serve says of PSYNC: "no change can slip through between the dataset
\* going out and the connection starting to carry them".
NothingSlipsThrough == slipped = {}
=============================================================================
