---------------------------- MODULE Conversation ----------------------------
(***************************************************************************)
(* A replica talking to its master, byte by byte (src/replica.rs over      *)
(* src/resp.rs): the handshake, the dataset handed over, and the stream    *)
(* that the replica carries out and counts.  What the master sends may be  *)
(* read in pieces cut anywhere.  The master's side is that of              *)
(* src/connection.rs and src/commands/replication.rs; Replication models   *)
(* how it counts with several replicas and clients.                        *)
(*                                                                         *)
(* A word is one byte long here: PING is "P", REPLCONF "R", and so on.     *)
(***************************************************************************)
EXTENDS Resp

CONSTANTS
    Changes,        \* the commands the master passes on
    Refusals,       \* what it may answer instead of what the replica hopes for
    EMPTY_DATASET,  \* the file it hands over
    Offsets,        \* how far along the stream it may be at the handover
    MaxPassedOn     \* bound: the messages it streams

VARIABLES
    stage,    \* what the replica waits for
    said,     \* what it has said that the master has yet to answer
    heard,    \* what it has read and not made sense of yet
    offset,   \* its count of the stream
    carried,  \* the commands it has carried out
    reports,  \* the counts it has reported
    wire,     \* what the master has sent that the replica has yet to read
    master,   \* "answering", "streaming" or "gone"
    count,    \* the master's count of the stream
    streamed, \* history: what it has streamed
    asked     \* history: its count each time it asked how far the replica was

replica == <<stage, said, heard, offset, carried, reports>>
stream == <<wire, master, count, streamed, asked>>
vars == <<replica, stream>>

Word(letter) == BulkString(<<letter>>)

PING == Array(<<Word(80)>>)
LISTENING_PORT == Array(<<Word(82), Word(108), Word(54)>>)
CAPA == Array(<<Word(82), Word(99), Word(112)>>)
PSYNC == Array(<<Word(89), Word(63), BulkString(Spelled(-1))>>)
GETACK == Array(<<Word(82), Word(71), Word(42)>>)
PONG == SimpleString(<<79>>)
OK == SimpleString(<<75>>)
FULLRESYNC == <<70, 32>>

\* What is said at each stage, and the stage that a good answer leads to.
Says == [PING |-> PING, PORT |-> LISTENING_PORT, CAPA |-> CAPA, PSYNC |-> PSYNC]
After == [PING |-> "PORT", PORT |-> "CAPA", CAPA |-> "PSYNC"]

Init ==
    /\ stage = "off" /\ said = << >> /\ heard = << >> /\ offset = 0
    /\ carried = << >> /\ reports = << >>
    /\ wire = << >> /\ master = "answering" /\ count \in Offsets
    /\ streamed = << >> /\ asked = << >>

-----------------------------------------------------------------------------
(* The replica.                                                            *)

\* The next command of the handshake is said.
Say(next) == stage' = next /\ said' = <<Says[next]>>

Connect ==
    /\ stage = "off"
    /\ Say("PING")
    /\ UNCHANGED <<heard, offset, carried, reports, stream>>

Fail == stage' = "failed" /\ UNCHANGED said

Handshaking == stage \in {"PING", "PORT", "CAPA", "PSYNC"}

\* The count in "FULLRESYNC <history> <count>": what follows the first space
\* after the history's name.
Agreement(text) == SubSeq(text, Len(FULLRESYNC) + 1, Len(text))

SpaceIn(text) == SelectInSeq(text, LAMBDA b : b = 32)

CountAgreed(text) == SubSeq(Agreement(text), SpaceIn(Agreement(text)) + 1, Len(Agreement(text)))

Agrees(value) ==
    /\ value.kind = "simple"
    /\ IsPrefix(FULLRESYNC, value.text)
    /\ SpaceIn(Agreement(value.text)) # 0
    /\ IsNumber(CountAgreed(value.text))

Expected == [PING |-> PONG, PORT |-> OK, CAPA |-> OK]

\* An answer is read whole, and is either the one hoped for or the end of it.
HearAnswer ==
    /\ Handshaking
    /\ LET answer == Parse(heard)
       IN  /\ answer.is # "part"
           /\ IF answer.is = "wrong" THEN Fail /\ UNCHANGED <<heard, offset>>
              ELSE /\ heard' = From(heard, answer.pos)
                   /\ CASE stage # "PSYNC" /\ answer.value = Expected[stage] ->
                             Say(After[stage]) /\ UNCHANGED offset
                        [] stage = "PSYNC" /\ Agrees(answer.value) ->
                             /\ stage' = "FILE"
                             /\ offset' = NumberIn(CountAgreed(answer.value.text))
                             /\ UNCHANGED said
                        [] OTHER -> Fail /\ UNCHANGED offset
    /\ UNCHANGED <<carried, reports, stream>>

\* Reads the length off the front of a file.
FileHeader(input) ==
    LET end    == BeforeCRLF(input)
        length == SubSeq(input, 2, end)
    IN  CASE end = -1 -> Part
          [] end >= 0 /\ input[1] = Dollar /\ IsNumber(length) -> Found(NumberIn(length), end + 2)
          [] OTHER -> Wrong

\* Mutant: the file is there once something has come after it.
HasFileAndMore(header) == header.is = "value" /\ Len(heard) > header.pos + header.value

HasFile(header) == header.is = "value" /\ Len(heard) >= header.pos + header.value

\* The file ends where its length says; what comes after it is the stream.
TakeFile ==
    /\ stage = "FILE"
    /\ LET header == FileHeader(heard)
       IN  IF header.is = "wrong" THEN Fail /\ UNCHANGED heard
           ELSE /\ HasFile(header)
                /\ heard' = From(heard, header.pos + header.value)
                /\ stage' = "following" /\ UNCHANGED said
    /\ UNCHANGED <<offset, carried, reports, stream>>

EqIgnoreCase(one, other) ==
    LET upper(b) == IF b \in 97..122 THEN b - 32 ELSE b
    IN  [i \in DOMAIN one |-> upper(one[i])] = [i \in DOMAIN other |-> upper(other[i])]

AsksHowFar(command) ==
    /\ command.kind = "array" /\ Len(command.values) >= 2
    /\ \A i \in 1..2 : /\ command.values[i].kind = "bulk"
                       /\ EqIgnoreCase(command.values[i].bytes, GETACK.values[i].bytes)

\* One turn of keep_up.  A question is answered with the count so far, anything
\* else is carried out, and either is counted after.
KeepUp ==
    /\ stage = "following"
    /\ LET command == Parse(heard)
       IN  /\ command.is # "part"
           /\ IF command.is = "wrong" THEN Fail /\ UNCHANGED <<heard, offset, carried, reports>>
              ELSE /\ IF AsksHowFar(command.value)
                      THEN reports' = Append(reports, offset) /\ UNCHANGED carried
                      ELSE carried' = Append(carried, command.value) /\ UNCHANGED reports
                   /\ heard' = From(heard, command.pos)
                   /\ offset' = offset + command.pos
                   /\ UNCHANGED <<stage, said>>
    /\ UNCHANGED stream

\* Nothing that was read can be made sense of yet.
Short ==
    \/ (Handshaking \/ stage = "following") /\ Parse(heard).is = "part"
    \/ stage = "FILE" /\ FileHeader(heard).is # "wrong" /\ ~HasFile(FileHeader(heard))

\* More is read: some of what has been sent, however much of it that is.
Fill ==
    /\ Short
    /\ \E n \in 1..Len(wire) : /\ heard' = heard \o SubSeq(wire, 1, n)
                              /\ wire' = From(wire, n)
    /\ UNCHANGED <<stage, said, offset, carried, reports, master, count, streamed, asked>>

\* A read that brings nothing: the master is gone.
HungUp ==
    /\ Short
    /\ wire = << >> /\ master = "gone"
    /\ Fail
    /\ UNCHANGED <<heard, offset, carried, reports, stream>>

Replica == Connect \/ HearAnswer \/ TakeFile \/ KeepUp \/ HungUp \/ Fill

-----------------------------------------------------------------------------
(* The master.                                                             *)

Sent(value) == wire' = wire \o Encode(value)

\* What it answers: to PSYNC, two values one after the other.
Answer(command) ==
    CASE command = PING -> PONG
      [] command \in {LISTENING_PORT, CAPA} -> OK
      [] command = PSYNC ->
           Sequence(<<SimpleString(FULLRESYNC \o <<104, 32>> \o Spelled(count)),
                      File(EMPTY_DATASET)>>)

Serve ==
    /\ master = "answering" /\ said # << >>
    /\ Sent(Answer(Head(said)))
    /\ said' = Tail(said)
    /\ master' = IF Head(said) = PSYNC THEN "streaming" ELSE master
    /\ UNCHANGED <<stage, heard, offset, carried, reports, count, streamed, asked>>

\* A master that is not what the replica takes it for.
Refuse(refusal) ==
    /\ master = "answering" /\ said # << >>
    /\ Sent(refusal)
    /\ said' = Tail(said)
    /\ master' = "refused"
    /\ UNCHANGED <<stage, heard, offset, carried, reports, count, streamed, asked>>

Stream(message) ==
    /\ master = "streaming" /\ Len(streamed) < MaxPassedOn
    /\ Sent(message)
    /\ streamed' = Append(streamed, message)
    /\ count' = count + Len(Encode(message))
    /\ UNCHANGED <<replica, master>>

PassOn(change) == Stream(change) /\ UNCHANGED asked

AskHowFar == Stream(GETACK) /\ asked' = Append(asked, count)

HangUp ==
    /\ master # "gone"
    /\ master' = "gone"
    /\ UNCHANGED <<replica, wire, count, streamed, asked>>

\* It is all over, or there is nothing left to stream.
Over ==
    /\ stage = "failed" \/ Len(streamed) = MaxPassedOn
    /\ UNCHANGED vars

Next ==
    \/ Replica \/ Serve \/ AskHowFar \/ HangUp \/ Over
    \/ \E refusal \in Refusals : Refuse(refusal)
    \/ \E change \in Changes : PassOn(change)

Spec == Init /\ [][Next]_vars

-----------------------------------------------------------------------------
(* Properties.                                                             *)

\* The type invariant of the two ends and of what is between them.
TypeOK ==
    /\ stage \in DOMAIN Says \cup {"off", "FILE", "following", "failed"}
    /\ Len(said) <= 1
    /\ {heard, wire} \subseteq Seq(0..255)
    /\ {offset, count} \subseteq Nat
    /\ reports \in Seq(Nat) /\ asked \in Seq(Nat)
    /\ Len(carried) + Len(reports) <= Len(streamed)
    /\ master \in {"answering", "streaming", "refused", "gone"}

IsChange(message) == message # GETACK

\* Wherever the reads cut what the master sends, the replica carries out just
\* the commands passed on, in order, and none twice; every report is the
\* master's own count at the asking; and what is read, on the wire or carried
\* out comes to what the master has counted.  The replica gives up only on a
\* master that refused it or hung up.
StreamIsCarriedOut ==
    /\ IsPrefix(carried, SelectSeq(streamed, IsChange))
    /\ IsPrefix(reports, asked)
    /\ stage = "following" => offset + Len(heard) + Len(wire) = count
    /\ stage = "failed" => master \in {"refused", "gone"}

\* Nothing that was sent is left lying: a replica that waits for more, with all
\* its master has sent read, is one that has been let in and has carried out or
\* answered the whole of the stream.  Only a refusal or a master gone leaves it
\* short of that.
NothingLeftLying ==
    Short /\ wire = << >> /\ said = << >> =>
        \/ master \in {"refused", "gone"}
        \/ /\ stage = "following" /\ heard = << >>
           /\ Len(carried) + Len(reports) = Len(streamed)
=============================================================================
