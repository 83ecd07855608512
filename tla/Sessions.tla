------------------------------ MODULE Sessions ------------------------------
(***************************************************************************)
(* The conversation of a connection with the server: what it may ask       *)
(* before it is let in, while it listens on channels and inside a          *)
(* transaction, and how messages published to a channel reach the          *)
(* connections listening on it (src/commands/mod.rs, src/commands/acl.rs,  *)
(* src/users.rs, src/commands/pubsub.rs, src/channels.rs, the loop of      *)
(* src/connection.rs).                                                     *)
(*                                                                         *)
(* The tally of listeners has a mutex of its own, taken once per channel   *)
(* and per message.  A command that names several channels, or an EXEC     *)
(* with several commands, therefore takes several steps, one for each      *)
(* argument in `todo', that other connections take theirs between.  The    *)
(* connection goes back to waiting for messages and commands only when the *)
(* reply is written.                                                       *)
(***************************************************************************)
EXTENDS Integers, Sequences, FiniteSets, Functions

CONSTANTS
    Clients,      \* connections
    Channels,
    Passwords,    \* what the user can be given as a password
    Wrong,        \* what the user never is
    MaxArgs,      \* bound: the most channels one command names
    QueueNames,   \* bound: the commands clients queue in a transaction
    MaxQueue,     \* bound: the most commands a transaction queues
    MaxMessages,  \* bound: how many messages are published
    NoQueue       \* what a connection has queued outside of a transaction

ASSUME SessionsAssumption ==
    /\ IsFiniteSet(Clients)
    /\ Wrong \notin Passwords
    /\ {MaxArgs, MaxQueue, MaxMessages} \subseteq Nat \ {0}

Call(names, args) == [name : names, args : args]

\* The commands that are queued inside a transaction, of those that touch the
\* state modelled here.
Queueable ==
    Call({"SUBSCRIBE", "UNSUBSCRIBE"}, UNION {[1 .. n -> Channels] : n \in 1 .. MaxArgs})
    \cup Call({"PUBLISH"}, {<<ch>> : ch \in Channels})
    \cup Call({"SETUSER"}, {<<p>> : p \in Passwords})
    \cup Call({"AUTH", "AUTH default"}, {<<p>> : p \in Passwords \cup {Wrong}})
    \cup Call({"UNSUBSCRIBE"}, {<< >>})
Steering == Call({"MULTI", "EXEC", "DISCARD"}, {<< >>})
Reply == [name |-> "reply", args |-> << >>]

ASSUME NoQueueAssumption == NoQueue \notin Seq(Queueable)

VARIABLES
    link,       \* per connection: "gone", "up", or "closed" while it is dropped
    on,         \* per connection: the channels it listens on
    queued,     \* per connection: the commands queued since MULTI, or NoQueue
    inside,     \* the connections that have been let in
    todo,       \* per connection: what is left of the command being run: a list,
                \* for an EXEC, of commands with the arguments still to go
    inbox,      \* per connection: the messages it has yet to write out
    listeners,  \* the channels somebody listens on, with how often each client
                \* is listed there (in what order shows nowhere)
    passwords,  \* the passwords of the user
    \* history, read by the properties alone
    published,  \* how many messages there were
    answer,     \* the channel of the last PUBLISH and the number it is answered,
                \* until a reply is written
    unheard     \* per connection: channels joined and not confirmed to it yet

session == <<link, on, queued, inside, todo>>
history == <<published, answer, unheard>>
vars == <<link, on, queued, inside, todo, inbox, listeners, passwords, history>>

Listening(c) == on[c] # << >>
NoOne == [c \in Clients |-> 0]

\* What is left of a command: its name and the arguments still to go.
Underway ==
    Call({"SUBSCRIBE", "PUBLISH"}, Seq(Channels) \ {<< >>})
    \cup Call({"UNSUBSCRIBE"}, Seq(Channels))
    \cup Call({"SETUSER"}, Seq(Passwords) \ {<< >>})
    \cup Call({"AUTH", "AUTH default"}, Seq(Passwords \cup {Wrong}) \ {<< >>})
    \cup {Reply}

\* The type invariant of the connections, the tally and the passwords.
TypeOK ==
    /\ link \in [Clients -> {"gone", "up", "closed"}]
    /\ on \in [Clients -> Seq(Channels)]
    /\ queued \in [Clients -> Seq(Queueable) \cup {NoQueue}]
    /\ inside \subseteq Clients
    /\ todo \in [Clients -> Seq(Underway)]
    /\ inbox \in [Clients -> Seq(Channels \X (1 .. MaxMessages))]
    /\ DOMAIN listeners \subseteq Channels
    /\ \A ch \in DOMAIN listeners : listeners[ch] \in [Clients -> Nat] \ {NoOne}
    /\ passwords \subseteq Passwords
    /\ published \in 0 .. MaxMessages
    /\ unheard \in [Clients -> SUBSET Channels]

Init ==
    /\ link = [c \in Clients |-> "gone"]
    /\ on = [c \in Clients |-> << >>]
    /\ queued = [c \in Clients |-> NoQueue]
    /\ inside = {}
    /\ todo = [c \in Clients |-> << >>]
    /\ inbox = [c \in Clients |-> << >>]
    /\ listeners = << >>
    /\ passwords = {}
    /\ published = 0
    /\ answer = << >>
    /\ unheard = [c \in Clients |-> {}]

\* The user of the server (Users): with no password it accepts any.
WantsNoPassword == passwords = {}
Accepts(p) == WantsNoPassword \/ p \in passwords

\* A connection is made: let in at once if the user has no password.
Connect(c) ==
    /\ link[c] = "gone"
    /\ link' = [link EXCEPT ![c] = "up"]
    /\ inside' = inside \cup {d \in {c} : WantsNoPassword}
    /\ UNCHANGED <<on, queued, todo, inbox, listeners, passwords, history>>

-----------------------------------------------------------------------------
(* The gates every command passes (run). *)

\* Of the two lists in the code, the commands that are modelled here.
AllowedWhileOut == {"AUTH", "AUTH default"}
AllowedWhileListening == {"SUBSCRIBE", "UNSUBSCRIBE"}

\* Mutants: the gate for clients that listen is missing; the gate for clients
\* that were not let in is.
MayAskUnlessOut(c, name) == c \in inside \/ name \in AllowedWhileOut
MayAskUnlessListening(c, name) == Listening(c) => name \in AllowedWhileListening

\* What the two gates let through; a command they stop changes nothing.
MayAsk(c, name) ==
    /\ c \in inside \/ name \in AllowedWhileOut
    /\ Listening(c) => name \in AllowedWhileListening

\* A connection waiting in its loop, with nothing to write.
Waiting(c) == link[c] = "up" /\ todo[c] = << >>

\* Messages yet to be published by commands that are queued or begun.
Publishes(calls) == Len(SelectSeq(calls, LAMBDA call : call.name = "PUBLISH"))
Reserved ==
    SumFunction([c \in Clients |-> Publishes(todo[c]) + (IF queued[c] = NoQueue THEN 0 ELSE Publishes(queued[c]))])

Begin(c, calls) == todo' = [todo EXCEPT ![c] = Append(calls, Reply)]

\* A command is queued if a transaction is open, and begun otherwise.
Ask(c, call) ==
    /\ Waiting(c) /\ MayAsk(c, call.name)
    /\ call.name = "PUBLISH" => published + Reserved < MaxMessages
    /\ \/ /\ queued[c] = NoQueue
          /\ Begin(c, <<call>>)
          /\ UNCHANGED queued
       \/ /\ queued[c] # NoQueue
          /\ call.name \in QueueNames /\ Len(queued[c]) < MaxQueue
          /\ queued' = [queued EXCEPT ![c] = Append(@, call)]
          /\ UNCHANGED todo
    /\ UNCHANGED <<link, on, inside, inbox, listeners, passwords, history>>

\* MULTI, EXEC and DISCARD.  EXEC runs what was queued below the gates; one that
\* a watched key stops is as good as a DISCARD.
Steer(c, name) ==
    /\ Waiting(c) /\ MayAsk(c, name)
    /\ (name = "MULTI") = (queued[c] = NoQueue)
    /\ queued' = [queued EXCEPT ![c] = IF name = "MULTI" THEN << >> ELSE NoQueue]
    /\ IF name = "EXEC" THEN Begin(c, queued[c])
       ELSE UNCHANGED todo
    /\ UNCHANGED <<link, on, inside, inbox, listeners, passwords, history>>

-----------------------------------------------------------------------------
(* The tally of who listens on what (Channels). *)

\* The tally with `them' listening on the channel; one with nobody is forgotten.
Tally(ch, them) ==
    [x \in (DOMAIN listeners \ {ch}) \cup {y \in {ch} : them # NoOne} |->
        IF x = ch THEN them ELSE listeners[x]]
On(ch) == IF ch \in DOMAIN listeners THEN listeners[ch] ELSE NoOne

\* Mutant: a channel nobody is left on is kept.
LeftKeepingEmpty(c, ch) ==
    listeners' = [x \in DOMAIN listeners |-> IF x = ch THEN [listeners[x] EXCEPT ![c] = 0]
                                                  ELSE listeners[x]]

\* A connection joins a channel, or leaves it.
Joined(c, ch) == listeners' = Tally(ch, [On(ch) EXCEPT ![c] = @ + 1])
Left(c, ch) == listeners' = Tally(ch, [On(ch) EXCEPT ![c] = 0])

\* The next step of the command a connection is running.
Doing(c, name) == link[c] = "up" /\ todo[c] # << >> /\ Head(todo[c]).name = name
Arg(c) == Head(todo[c]).args[1]

\* Then its next argument is to go, or the command after it.
After(calls) ==
    IF Len(Head(calls).args) > 1 THEN [calls EXCEPT ![1].args = Tail(@)] ELSE Tail(calls)
StepDone(c) == todo' = [todo EXCEPT ![c] = After(@)]

\* The channels without one that is there, once (position, then remove).
Without(channels, ch) ==
    LET at == CHOOSE i \in DOMAIN channels : channels[i] = ch
    IN  SubSeq(channels, 1, at - 1) \o SubSeq(channels, at + 1, Len(channels))

\* One channel of a SUBSCRIBE: joined unless the connection is on it already.
Subscribe(c) ==
    /\ Doing(c, "SUBSCRIBE") /\ StepDone(c)
    /\ IF Arg(c) \in Range(on[c]) THEN UNCHANGED <<on, listeners, unheard>>
       ELSE /\ on' = [on EXCEPT ![c] = Append(@, Arg(c))]
            /\ Joined(c, Arg(c))
            /\ unheard' = [unheard EXCEPT ![c] = @ \cup {Arg(c)}]
    /\ UNCHANGED <<link, queued, inside, inbox, passwords, published, answer>>

\* One channel of an UNSUBSCRIBE, or, if it names none, the list of all of them.
Unsubscribe(c) ==
    /\ Doing(c, "UNSUBSCRIBE")
    /\ IF Head(todo[c]).args = << >>
       THEN /\ IF Listening(c) THEN todo' = [todo EXCEPT ![c][1].args = on[c]] ELSE StepDone(c)
            /\ UNCHANGED <<on, listeners>>
       ELSE /\ StepDone(c)
            /\ IF Arg(c) \in Range(on[c]) THEN on' = [on EXCEPT ![c] = Without(@, Arg(c))] /\ Left(c, Arg(c))
               ELSE UNCHANGED <<on, listeners>>
    /\ UNCHANGED <<link, queued, inside, inbox, passwords, history>>

\* A message goes into the queue of everybody on the channel.  A connection that
\* has closed its end is let go, and is not counted.
Deliver(c, ch, reached) ==
    /\ Doing(c, "PUBLISH") /\ StepDone(c)
    /\ ch = Arg(c)
    /\ inbox' = [d \in Clients |-> inbox[d] \o [i \in 1 .. reached[d] |-> <<ch, published + 1>>]]
    /\ listeners' = Tally(ch, reached)
    /\ published' = published + 1
    /\ UNCHANGED <<link, on, queued, inside, passwords, unheard>>

Reached(ch) == [d \in Clients |-> IF link[d] = "up" THEN On(ch)[d] ELSE 0]

\* Mutant: sends that fail are counted.
PublishCountingClosed(c) ==
    \E ch \in Channels : Deliver(c, ch, Reached(ch)) /\ answer' = <<ch, SumFunction(On(ch))>>

\* PUBLISH: the message is handed to who can still take it.
Publish(c) ==
    \E ch \in Channels : Deliver(c, ch, Reached(ch)) /\ answer' = <<ch, SumFunction(Reached(ch))>>

\* ACL SETUSER with a password the user then has.
SetUser(c) ==
    /\ Doing(c, "SETUSER") /\ StepDone(c)
    /\ passwords' = passwords \cup {Arg(c)}
    /\ UNCHANGED <<link, on, queued, inside, inbox, listeners, history>>

\* AUTH: a password alone is refused while the user has none; with the name of
\* the user, any is accepted then.
Auth(c) ==
    /\ \/ Doing(c, "AUTH") /\ inside' = inside \cup {d \in {c} : ~ WantsNoPassword /\ Accepts(Arg(c))}
       \/ Doing(c, "AUTH default") /\ inside' = inside \cup {d \in {c} : Accepts(Arg(c))}
    /\ StepDone(c)
    /\ UNCHANGED <<link, on, queued, inbox, listeners, passwords, history>>

\* The reply is written, and with it every confirmation it is made of.
WriteReply(c) ==
    /\ Doing(c, "reply") /\ StepDone(c)
    /\ unheard' = [unheard EXCEPT ![c] = {}]
    /\ answer' = << >>
    /\ UNCHANGED <<link, on, queued, inside, inbox, listeners, passwords, published>>

-----------------------------------------------------------------------------
(* The loop of a connection, and its end. *)

\* Mutants: messages are waited for only while listening; messages are written
\* before the reply under way.
WriteMessageWhileListening(c) ==
    /\ Waiting(c) /\ Listening(c) /\ inbox[c] # << >>
    /\ inbox' = [inbox EXCEPT ![c] = Tail(@)]
    /\ UNCHANGED <<session, listeners, passwords, history>>

WriteMessageAtOnce(c) ==
    /\ link[c] = "up" /\ inbox[c] # << >>
    /\ inbox' = [inbox EXCEPT ![c] = Tail(@)]
    /\ UNCHANGED <<session, listeners, passwords, history>>

\* A connection that waits takes a message off its queue and writes it out.
WriteMessage(c) ==
    /\ Waiting(c) /\ inbox[c] # << >>
    /\ inbox' = [inbox EXCEPT ![c] = Tail(@)]
    /\ UNCHANGED <<session, listeners, passwords, history>>

\* The client hangs up: noticed by the connection when it reads or writes.  Who
\* it was and its queue are dropped first.
HangUp(c) ==
    /\ Waiting(c) \/ Doing(c, "reply")
    /\ link' = [link EXCEPT ![c] = "closed"]
    /\ todo' = [todo EXCEPT ![c] = << >>]
    /\ inside' = inside \ {c}
    /\ inbox' = [inbox EXCEPT ![c] = << >>]
    /\ unheard' = [unheard EXCEPT ![c] = {}]
    /\ UNCHANGED <<on, queued, listeners, passwords, published, answer>>

\* Mutant: the channels are not left.
DropAtOnce(c) ==
    /\ link[c] = "closed"
    /\ link' = [link EXCEPT ![c] = "gone"]
    /\ on' = [on EXCEPT ![c] = << >>]
    /\ queued' = [queued EXCEPT ![c] = NoQueue]
    /\ UNCHANGED <<inside, todo, inbox, listeners, passwords, history>>

\* Then its subscriptions are, one channel at a time, and its transaction.
Drop(c) ==
    /\ link[c] = "closed"
    /\ IF Listening(c)
       THEN /\ Left(c, Head(on[c]))
            /\ on' = [on EXCEPT ![c] = Tail(@)]
            /\ UNCHANGED <<link, queued>>
       ELSE /\ link' = [link EXCEPT ![c] = "gone"]
            /\ queued' = [queued EXCEPT ![c] = NoQueue]
            /\ UNCHANGED <<on, listeners>>
    /\ UNCHANGED <<inside, todo, inbox, passwords, history>>

Step(c) ==
    \/ Subscribe(c) \/ Unsubscribe(c) \/ Publish(c) \/ SetUser(c)
    \/ Auth(c) \/ WriteReply(c) \/ Drop(c)

Next ==
    \E c \in Clients :
        \/ Connect(c)
        \/ \E call \in Queueable : Ask(c, call)
        \/ \E call \in Steering : Steer(c, call.name)
        \/ Step(c)
        \/ WriteMessage(c)
        \/ HangUp(c)

\* A command runs to its end, and a connection that is dropped is dropped whole.
\* tokio::select! takes up what is ready at random, so that a client that goes on
\* sending commands does not keep its connection from writing messages out.
Fairness == \A c \in Clients : WF_vars(Step(c)) /\ SF_vars(WriteMessage(c))

Spec == Init /\ [][Next]_vars
FairSpec == Spec /\ Fairness

-----------------------------------------------------------------------------
(* Properties. *)

\* The tally is what the connections say it is: a connection that is up is listed
\* under the channels it is on, once each, and under no other; one being dropped
\* under none it has already left; one that is gone nowhere (Subscriptions keeps
\* the server's tally "up to date from here, arriving and leaving alike").
TallyIsTrue ==
    \A c \in Clients, ch \in Channels :
        LET times == On(ch)[c]
        IN  IF link[c] = "up" THEN times = (IF ch \in Range(on[c]) THEN 1 ELSE 0)
            ELSE times <= (IF ch \in Range(on[c]) THEN 1 ELSE 0)

\* A connection that listens has no transaction open: EXEC and DISCARD are closed
\* to it, and it could not get out (the gate of run, SUBSCRIBE being queued).  One
\* that was not let in has nothing on the server: no channel, no transaction, and
\* no command under way but the one to be let in.
GatesHold ==
    \A c \in Clients : link[c] = "up" =>
        /\ Listening(c) => queued[c] = NoQueue
        /\ c \notin inside =>
               /\ on[c] = << >> /\ queued[c] = NoQueue
               /\ \A i \in DOMAIN todo[c] : todo[c][i].name \in AllowedWhileOut \cup {"reply"}

\* A message reaches the connections that are up and on its channel, all of them
\* and nobody else, and their number is what PUBLISH answers, whoever is being
\* dropped meanwhile (Channels::send).
ReachesWhoListens ==
    [][published' # published =>
          LET there == {c \in Clients : link[c] = "up" /\ answer'[1] \in Range(on[c])}
          IN  /\ answer'[2] = Cardinality(there)
              /\ \A c \in Clients : Len(inbox'[c]) - Len(inbox[c]) = IF c \in there THEN 1 ELSE 0]_vars

\* A client hears nothing on a channel before it is told that it is on it, though
\* the channel is joined, and published to, before the reply is written.
ConfirmedBeforeHeard ==
    [][\A c \in Clients :
          link'[c] = "up" /\ Len(inbox'[c]) < Len(inbox[c]) => inbox[c][1][1] \notin unheard[c]]_vars

\* A message put in a connection's queue is written out or goes with the
\* connection, also when the client stops listening before (the loop of serve).
MessagesAreWritten == \A c \in Clients : inbox[c] # << >> ~> inbox[c] = << >>

=============================================================================
