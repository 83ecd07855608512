-------------------------- MODULE AppendOnlyProofs --------------------------
(***************************************************************************)
(* What is recorded, for any number of clients, writes and failures.       *)
(*                                                                         *)
(* AckedIsRecordedOnce follows a write through its task: its number is no  *)
(* other task's and not in the file until the lock is taken, then last in  *)
(* the file and not whole, then whole for good, and only then answered.    *)
(*                                                                         *)
(* OrderedWordsReplay: while the words are in the order the writes were    *)
(* made in, doing them again goes step by step through what was told, and  *)
(* what is yet to be recorded is what the store has gone through since.    *)
(***************************************************************************)
EXTENDS AppendOnly, CountingProofs

\* More time for a step than the provers take by themselves.
USE SMTT(20), ZenonT(20)

\* The tasks that have words to record.
Busy(c) == pc[c] \in {"made", "writing", "recorded"}

Typed ==
    /\ line \in Seq(Clients)
    /\ pc \in [Clients -> {"idle", "blocked", "made", "writing", "recorded"}]
    /\ written \in [Clients -> Commands \cup {Nothing}]
    /\ \A c \in Clients : Busy(c) => written[c] \in Commands
    /\ file \in Seq(Records)
    /\ made \in Nat

\* The clients in line are blocked, and in it once.
InLine ==
    /\ \A i \in 1 .. Len(line) : pc[line[i]] = "blocked"
    /\ \A i, j \in 1 .. Len(line) : line[i] = line[j] => i = j

\* The numbers handed out so far: each to one write, which one task has in hand.
Numbered ==
    /\ \A c \in Clients : Busy(c) => written[c].id <= made
    /\ \A c, d \in Clients : Busy(c) /\ Busy(d) /\ written[c].id = written[d].id => c = d
    /\ \A i \in 1 .. Len(file) : file[i].command.id <= made

\* What is in the file of a task's write: nothing until it takes the lock, then
\* the last record, which is not whole, and then a whole one.
Filed ==
    /\ \A c \in Clients : pc[c] = "made" =>
           \A i \in 1 .. Len(file) : file[i].command.id # written[c].id
    /\ \A c, d \in Clients : pc[c] = "writing" /\ pc[d] = "writing" => c = d
    /\ \A c \in Clients : pc[c] = "writing" =>
           /\ file # << >> /\ file[Len(file)].command = written[c]
           /\ ~file[Len(file)].whole
    /\ \A c \in Clients : pc[c] = "recorded" =>
           \E i \in 1 .. Len(file) : file[i].whole /\ file[i].command.id = written[c].id

Once == \A i, j \in 1 .. Len(file) : file[i].command.id = file[j].command.id => i = j

Answered ==
    \A id \in acked : \E i \in 1 .. Len(file) : file[i].whole /\ file[i].command.id = id

IInv == Typed /\ InLine /\ Numbered /\ Filed /\ Once /\ Answered

-----------------------------------------------------------------------------
\* The numbers that tasks and records carry are numbers.
LEMMA Numbers ==
  ASSUME Typed
  PROVE  /\ \A c \in Clients : Busy(c) => written[c].id \in Nat
         /\ \A i \in 1 .. Len(file) : file[i].command.id \in Nat
<1>1. \A command \in Commands : command.id \in Nat
  BY DEF Commands
<1>2. \A record \in Records : record.command \in Commands
  BY DEF Records
<1>3. \A i \in 1 .. Len(file) : file[i] \in Records
  BY DEF Typed
<1> QED
  BY <1>1, <1>2, <1>3 DEF Typed

-----------------------------------------------------------------------------
(* The store.                                                              *)

\* A task with nothing in hand makes a write: Made, of RPUSH, LPOP and BLPOP.
LEMMA MadeKeeps ==
  ASSUME IInv, NEW c \in Clients, NEW op \in {"RPUSH", "LPOP"}, pc[c] = "idle",
         made < MaxWrites, Made(c, op), UNCHANGED <<line, file, acked>>
  PROVE  IInv'
<1> DEFINE words == [op |-> op, id |-> made + 1]
<1>1. made \in Nat /\ made' = made + 1 /\ MaxWrites \in Nat
  BY AppendOnlyAssumption DEF IInv, Typed, Made
<1>2. words \in Commands /\ words.id = made + 1
  BY <1>1 DEF Commands
<1>3. pc' = [pc EXCEPT ![c] = "made"] /\ written' = [written EXCEPT ![c] = words]
  BY DEF Made
<1> HIDE DEF words
<1>4. /\ pc'[c] = "made" /\ written'[c] = words
      /\ \A d \in Clients \ {c} : pc'[d] = pc[d] /\ written'[d] = written[d]
  BY <1>3 DEF IInv, Typed
<1>5. Typed'
  BY <1>1, <1>2, <1>3, <1>4 DEF IInv, Typed, Busy
<1>6. InLine'
  BY <1>4 DEF IInv, InLine, Typed
<1>7. \A d \in Clients : Busy(d) => written[d].id \in Nat
  BY Numbers DEF IInv
<1>8. \A i \in 1 .. Len(file) : file[i].command.id \in Nat
  BY Numbers DEF IInv
<1>9. Numbered'
  BY <1>1, <1>2, <1>4, <1>7, <1>8 DEF IInv, Numbered, Busy
<1>10. Filed'
  BY <1>1, <1>2, <1>4, <1>8 DEF IInv, Filed, Numbered
<1>11. Once' /\ Answered'
  BY DEF IInv, Once, Answered
<1> QED
  BY <1>5, <1>6, <1>9, <1>10, <1>11 DEF IInv

\* RPUSH with a client in line: two tasks make a write each.
LEMMA HandOverKeeps ==
  ASSUME IInv, NEW c \in Clients, Rpush(c), line # << >>
  PROVE  IInv'
<1> DEFINE d == Head(line)
           push == [op |-> "RPUSH", id |-> made + 1]
           pop == [op |-> "LPOP", id |-> made + 2]
<1>1. made \in Nat /\ made' = made + 2 /\ MaxWrites \in Nat /\ made + 1 < MaxWrites
  BY AppendOnlyAssumption DEF IInv, Typed, Rpush
<1>2. push \in Commands /\ push.id = made + 1 /\ pop \in Commands /\ pop.id = made + 2
  BY <1>1 DEF Commands
<1>3. /\ pc' = [pc EXCEPT ![c] = "made", ![d] = "made"]
      /\ written' = [written EXCEPT ![c] = push, ![d] = pop]
      /\ line' = Tail(line) /\ UNCHANGED <<file, acked>> /\ pc[c] = "idle"
  BY DEF Rpush
<1>4. d = line[1] /\ 1 \in 1 .. Len(line) /\ d \in Clients /\ line \in Seq(Clients)
  BY DEF IInv, Typed
<1>5. pc[d] = "blocked" /\ d # c
  BY <1>3, <1>4 DEF IInv, InLine
<1>6. /\ Tail(line) \in Seq(Clients) /\ Len(Tail(line)) = Len(line) - 1
      /\ \A i \in 1 .. Len(Tail(line)) : Tail(line)[i] = line[i + 1]
  BY <1>4
<1> HIDE DEF d, push, pop
<1>7. /\ pc'[c] = "made" /\ written'[c] = push
      /\ pc'[d] = "made" /\ written'[d] = pop
      /\ \A e \in Clients \ {c, d} : pc'[e] = pc[e] /\ written'[e] = written[e]
  BY <1>3, <1>4, <1>5 DEF IInv, Typed
<1>8. Typed'
  <2>1. pc' \in [Clients -> {"idle", "blocked", "made", "writing", "recorded"}]
    BY <1>3, <1>4 DEF IInv, Typed
  <2>2. written' \in [Clients -> Commands \cup {Nothing}]
    BY <1>2, <1>3, <1>4 DEF IInv, Typed
  <2>3. \A e \in Clients : Busy(e)' => written'[e] \in Commands
    BY <1>2, <1>7 DEF IInv, Typed, Busy
  <2>4. line' \in Seq(Clients) /\ file' \in Seq(Records) /\ made' \in Nat
    BY <1>1, <1>3, <1>6 DEF IInv, Typed
  <2> QED
    BY <2>1, <2>2, <2>3, <2>4 DEF Typed
<1>9. InLine'
  <2>1. \A i \in 1 .. Len(Tail(line)) : i + 1 \in 1 .. Len(line) /\ i + 1 # 1
    BY <1>4, <1>6
  <2>2. \A i \in 1 .. Len(Tail(line)) :
            Tail(line)[i] \in Clients \ {c, d} /\ pc[Tail(line)[i]] = "blocked"
    BY <1>3, <1>4, <1>6, <2>1 DEF IInv, InLine
  <2>3. \A i, j \in 1 .. Len(Tail(line)) : Tail(line)[i] = Tail(line)[j] => i = j
    BY <1>4, <1>6, <2>1 DEF IInv, InLine
  <2>4. line' = Tail(line) /\ \A e \in Clients \ {c, d} : pc'[e] = pc[e]
    BY <1>3, <1>7, Zenon
  <2>5. \A i \in 1 .. Len(line') : pc'[line'[i]] = "blocked"
    BY <2>2, <2>4
  <2>6. \A i, j \in 1 .. Len(line') : line'[i] = line'[j] => i = j
    BY <2>3, <2>4, Zenon
  <2> QED
    BY <2>5, <2>6 DEF InLine
<1>10. \A e \in Clients : Busy(e) => written[e].id \in Nat
  BY Numbers DEF IInv
<1>11. \A i \in 1 .. Len(file) : file[i].command.id \in Nat
  BY Numbers DEF IInv
<1>12. Numbered'
  <2>1. \A e \in Clients \ {c, d} : Busy(e)' => Busy(e) /\ written'[e].id \in Nat
                                                 /\ written'[e].id <= made
    BY <1>7, <1>10 DEF IInv, Numbered, Busy
  <2>2. \A e \in Clients : Busy(e)' => written'[e].id <= made'
    BY <1>1, <1>2, <1>7, <2>1
  <2>3. ASSUME NEW e \in Clients, NEW f \in Clients, Busy(e)', Busy(f)',
               written'[e].id = written'[f].id
        PROVE  e = f
    <3>1. CASE e \in {c, d} \/ f \in {c, d}
      BY <1>1, <1>2, <1>7, <2>1, <2>3, <3>1
    <3>2. CASE e \notin {c, d} /\ f \notin {c, d}
      BY <1>7, <2>1, <2>3, <3>2 DEF IInv, Numbered
    <3> QED
      BY <3>1, <3>2
  <2>4. \A i \in 1 .. Len(file') : file'[i].command.id <= made'
    BY <1>1, <1>3, <1>11 DEF IInv, Numbered
  <2> QED
    BY <2>2, <2>3, <2>4 DEF Numbered
<1>13. Filed'
  <2>1. \A i \in 1 .. Len(file) : /\ file[i].command.id # made + 1
                                 /\ file[i].command.id # made + 2
    BY <1>1, <1>11 DEF IInv, Numbered
  <2>2. \A e \in Clients : pc'[e] \in {"writing", "recorded"} =>
            pc[e] = pc'[e] /\ written'[e] = written[e]
    BY <1>7
  <2>3. \A e \in Clients : pc'[e] = "made" =>
            \A i \in 1 .. Len(file) : file[i].command.id # written'[e].id
    BY <1>2, <1>7, <2>1 DEF IInv, Filed
  <2>4. \A e, f \in Clients : pc'[e] = "writing" /\ pc'[f] = "writing" => e = f
    BY <2>2 DEF IInv, Filed
  <2>5. \A e \in Clients : pc'[e] = "writing" =>
            /\ file # << >> /\ file[Len(file)].command = written'[e]
            /\ ~file[Len(file)].whole
    BY <2>2 DEF IInv, Filed
  <2>6. \A e \in Clients : pc'[e] = "recorded" =>
            \E i \in 1 .. Len(file) : file[i].whole /\ file[i].command.id = written'[e].id
    BY <2>2 DEF IInv, Filed
  <2>7. file' = file
    BY <1>3
  <2> QED
    BY <2>3, <2>4, <2>5, <2>6, <2>7, Zenon DEF Filed
<1>14. Once' /\ Answered'
  BY <1>3 DEF IInv, Once, Answered
<1> QED
  BY <1>8, <1>9, <1>12, <1>13, <1>14 DEF IInv

\* BLPOP of an empty list: the client gets in line, where it was not.
LEMMA BlockKeeps ==
  ASSUME IInv, NEW c \in Clients, pc[c] = "idle",
         pc' = [pc EXCEPT ![c] = "blocked"], line' = Append(line, c),
         UNCHANGED <<written, made, file, acked>>
  PROVE  IInv'
<1>1. /\ pc'[c] = "blocked"
      /\ \A d \in Clients \ {c} : pc'[d] = pc[d]
  BY DEF IInv, Typed
<1>2. /\ Len(line') = Len(line) + 1 /\ line'[Len(line) + 1] = c
      /\ \A i \in 1 .. Len(line) : line'[i] = line[i] /\ line[i] \in Clients \ {c}
  BY DEF IInv, Typed, InLine
<1>3. Typed'
  BY <1>1 DEF IInv, Typed, Busy
<1>4. InLine'
  <2>1. Len(line) \in Nat
    BY DEF IInv, Typed
  <2>2. \A i \in 1 .. Len(line') : i \in 1 .. Len(line) \/ i = Len(line) + 1
    BY <1>2, <2>1
  <2> QED
    BY <1>1, <1>2, <2>2 DEF IInv, InLine
<1>5. Numbered'
  BY <1>1 DEF IInv, Numbered, Busy
<1>6. Filed'
  BY <1>1 DEF IInv, Filed
<1>7. Once' /\ Answered'
  BY DEF IInv, Once, Answered
<1> QED
  BY <1>3, <1>4, <1>5, <1>6, <1>7 DEF IInv

-----------------------------------------------------------------------------
(* The file.                                                               *)

\* Aof::record takes the lock: a record with the task's number is begun, the
\* first of that number and the only one that is not whole for a writer.
LEMMA BeginRecordKeeps ==
  ASSUME IInv, NEW c \in Clients, BeginRecord(c)
  PROVE  IInv'
<1> DEFINE record == [command |-> written[c], whole |-> FALSE]
           n == Len(file)
<1>1. /\ pc[c] = "made" /\ \A d \in Clients : pc[d] # "writing"
      /\ file' = Append(file, record) /\ pc' = [pc EXCEPT ![c] = "writing"]
      /\ UNCHANGED <<line, written, made, acked>>
  BY DEF BeginRecord
<1>2. written[c] \in Commands
  BY <1>1 DEF IInv, Typed, Busy
<1>3. record \in Records /\ record.command = written[c] /\ record.whole = FALSE
  BY <1>2 DEF Records
<1> HIDE DEF record
<1>4. /\ pc'[c] = "writing"
      /\ \A d \in Clients \ {c} : pc'[d] = pc[d]
  BY <1>1 DEF IInv, Typed
<1>5. /\ n \in Nat /\ Len(file') = n + 1 /\ file'[n + 1] = record
      /\ \A i \in 1 .. n : file'[i] = file[i]
      /\ file' # << >>
  BY <1>1, <1>3 DEF IInv, Typed
<1>6. \A i \in 1 .. Len(file') : i \in 1 .. n \/ i = n + 1
  BY <1>5
<1>7. \A i \in 1 .. n : i \in 1 .. Len(file')
  BY <1>5
<1> HIDE DEF n
<1>8. Typed'
  <2>1. file' \in Seq(Records)
    BY <1>1, <1>3 DEF IInv, Typed
  <2> QED
    BY <1>1, <1>4, <2>1 DEF IInv, Typed, Busy
<1>9. InLine'
  BY <1>1, <1>4 DEF IInv, InLine, Typed
<1>10. \A i \in 1 .. n : file[i].command.id # written[c].id
  BY <1>1 DEF IInv, Filed, n
<1>11. Numbered'
  <2>1. \A d \in Clients : Busy(d)' => Busy(d)
    BY <1>1, <1>4 DEF Busy
  <2>2. Busy(c)
    BY <1>1 DEF Busy
  <2>3. \A i \in 1 .. Len(file') : file'[i].command.id <= made
    BY <1>3, <1>5, <1>6, <2>2 DEF IInv, Numbered, n
  <2> QED
    BY <1>1, <2>1, <2>3 DEF IInv, Numbered
<1>12. Filed'
  <2>1. \A d \in Clients : pc'[d] = "made" =>
            \A i \in 1 .. Len(file') : file'[i].command.id # written[d].id
    <3>1. \A d \in Clients \ {c} : pc[d] = "made" => written[d].id # written[c].id
      BY <1>1 DEF IInv, Numbered, Busy
    <3> QED
      BY <1>3, <1>4, <1>5, <1>6, <3>1 DEF IInv, Filed, n
  <2>2. \A d \in Clients : pc'[d] = "writing" => d = c
    BY <1>1, <1>4
  <2>3. file'[Len(file')].command = written[c] /\ ~file'[Len(file')].whole
    BY <1>3, <1>5
  <2>4. \A d \in Clients : pc'[d] = "recorded" =>
            \E i \in 1 .. Len(file') : file'[i].whole /\ file'[i].command.id = written[d].id
    BY <1>4, <1>5, <1>7 DEF IInv, Filed, n
  <2> QED
    BY <1>1, <1>5, <2>1, <2>2, <2>3, <2>4 DEF Filed
<1>13. Once'
  BY <1>3, <1>5, <1>6, <1>10 DEF IInv, Once, n
<1>14. Answered'
  BY <1>1, <1>5, <1>7 DEF IInv, Answered, n
<1> QED
  BY <1>8, <1>9, <1>11, <1>12, <1>13, <1>14 DEF IInv

\* And the last of the record is flushed: it is whole, and nobody writes.
LEMMA EndRecordKeeps ==
  ASSUME IInv, NEW c \in Clients, EndRecord(c)
  PROVE  IInv'
<1> DEFINE n == Len(file)
<1>1. /\ pc[c] = "writing" /\ pc' = [pc EXCEPT ![c] = "recorded"]
      /\ file' = [file EXCEPT ![Len(file)].whole = TRUE]
      /\ UNCHANGED <<line, written, made, acked>>
  BY DEF EndRecord
<1>2. /\ pc'[c] = "recorded"
      /\ \A d \in Clients \ {c} : pc'[d] = pc[d] /\ pc[d] # "writing"
  BY <1>1 DEF IInv, Typed, Filed
<1>3. /\ n \in Nat /\ n \in 1 .. n /\ file[n] \in Records
      /\ file[n].command = written[c]
  BY <1>1 DEF IInv, Typed, Filed
<1>4. [file[n] EXCEPT !.whole = TRUE] \in Records
      /\ [file[n] EXCEPT !.whole = TRUE].command = file[n].command
      /\ [file[n] EXCEPT !.whole = TRUE].whole
  BY <1>3, Zenon DEF Records
<1>5. file' \in Seq(Records) /\ Len(file') = n
  BY <1>1, <1>3, <1>4 DEF IInv, Typed
<1>6. file'[n] = [file[n] EXCEPT !.whole = TRUE]
  <2>1. n \in DOMAIN file
    BY <1>3 DEF IInv, Typed
  <2> QED
    BY <1>1, <2>1, Zenon
<1>7. \A i \in 1 .. n : i # n => file'[i] = file[i]
  BY <1>1, <1>3 DEF IInv, Typed
<1>8. /\ \A i \in 1 .. n : file'[i].command.id = file[i].command.id
      /\ \A i \in 1 .. n : file[i].whole => file'[i].whole
  BY <1>4, <1>6, <1>7, Zenon
<1>9. file'[n].whole
  BY <1>4, <1>6
<1> HIDE DEF n
<1>10. Typed'
  BY <1>1, <1>2, <1>5 DEF IInv, Typed, Busy
<1>11. InLine'
  BY <1>1, <1>2 DEF IInv, InLine, Typed
<1>12. Numbered'
  <2>1. \A d \in Clients : Busy(d)' => Busy(d)
    BY <1>1, <1>2 DEF Busy
  <2> QED
    BY <1>1, <1>5, <1>8, <2>1 DEF IInv, Numbered, n
<1>13. Filed'
  <2>1. \A d \in Clients : pc'[d] = "made" =>
            \A i \in 1 .. n : file'[i].command.id # written[d].id
    BY <1>2, <1>8 DEF IInv, Filed, n
  <2>2. \A d \in Clients : pc'[d] # "writing"
    BY <1>2
  <2>3. file'[n].whole /\ file'[n].command.id = written[c].id
    BY <1>3, <1>8, <1>9
  <2>4. \A d \in Clients : pc'[d] = "recorded" =>
            \E i \in 1 .. n : file'[i].whole /\ file'[i].command.id = written[d].id
    BY <1>2, <1>3, <1>8, <2>3 DEF IInv, Filed, n
  <2> QED
    BY <1>1, <1>5, <2>1, <2>2, <2>4 DEF Filed
<1>14. Once'
  BY <1>5, <1>8 DEF IInv, Once, n
<1>15. Answered'
  BY <1>1, <1>5, <1>8 DEF IInv, Answered, n
<1> QED
  BY <1>10, <1>11, <1>12, <1>13, <1>14, <1>15 DEF IInv

\* Without its last record, a file is as it was.
LEMMA BeforeIsPrefix ==
  ASSUME NEW S, NEW s \in Seq(S), s # << >>
  PROVE  /\ Before(s) \in Seq(S)
         /\ Len(Before(s)) = Len(s) - 1
         /\ \A i \in 1 .. Len(Before(s)) : Before(s)[i] = s[i]
<1> DEFINE n == Len(s) - 1
<1>1. n \in Nat /\ Len(s) = n + 1 /\ Before(s) = SubSeq(s, 1, n)
  BY DEF Before
<1>2. \A i \in 1 .. n : i \in 1 .. Len(s)
  BY <1>1
<1> HIDE DEF n
<1>3. SubSeq(s, 1, n) \in Seq(S)
  BY <1>1
<1>4. Len(SubSeq(s, 1, n)) = n
  BY <1>1
<1>5. \A i \in 1 .. n : SubSeq(s, 1, n)[i] = s[i]
  BY <1>1, <1>2
<1> QED
  BY <1>1, <1>3, <1>4, <1>5

\* Or writing fails: what is cut short stays last in the file or is not there,
\* and it is no write that was recorded or answered.
LEMMA RecordFailsKeeps ==
  ASSUME IInv, NEW c \in Clients, RecordFails(c)
  PROVE  IInv'
<1>1. /\ pc[c] = "writing" /\ pc' = [pc EXCEPT ![c] = "idle"]
      /\ written' = [written EXCEPT ![c] = Nothing]
      /\ file' \in {file, Before(file)}
      /\ UNCHANGED <<line, made, acked>>
  BY DEF RecordFails
<1>2. /\ pc'[c] = "idle"
      /\ \A d \in Clients \ {c} : pc'[d] = pc[d] /\ pc[d] # "writing"
      /\ \A d \in Clients \ {c} : written'[d] = written[d]
  BY <1>1 DEF IInv, Typed, Filed
<1>3. file # << >> /\ Len(file) \in Nat /\ Len(file) >= 1 /\ ~file[Len(file)].whole
  BY <1>1 DEF IInv, Typed, Filed
<1>4. /\ file' \in Seq(Records) /\ Len(file') \in {Len(file), Len(file) - 1}
      /\ \A i \in 1 .. Len(file') : file'[i] = file[i]
  <2>1. file \in Seq(Records)
    BY DEF IInv, Typed
  <2>2. CASE file' = file
    BY <2>1, <2>2
  <2>3. CASE file' = Before(file)
    BY <1>3, <2>1, <2>3, BeforeIsPrefix
  <2> QED
    BY <1>1, <2>2, <2>3
<1>5. \A i \in 1 .. Len(file') : i \in 1 .. Len(file)
  BY <1>3, <1>4
<1>6. \A i \in 1 .. Len(file) : file[i].whole => i \in 1 .. Len(file')
  BY <1>3, <1>4
<1>7. Typed'
  <2>1. written' \in [Clients -> Commands \cup {Nothing}]
    BY <1>1 DEF IInv, Typed
  <2> QED
    BY <1>1, <1>2, <1>4, <2>1 DEF IInv, Typed, Busy
<1>8. InLine'
  BY <1>1, <1>2 DEF IInv, InLine, Typed
<1>9. Numbered'
  <2>1. \A d \in Clients : Busy(d)' => d # c /\ Busy(d)
    BY <1>2 DEF Busy
  <2> QED
    BY <1>1, <1>2, <1>4, <1>5, <2>1 DEF IInv, Numbered
<1>10. Filed'
  <2>1. \A d \in Clients : pc'[d] = "made" =>
            \A i \in 1 .. Len(file') : file'[i].command.id # written'[d].id
    BY <1>2, <1>4, <1>5 DEF IInv, Filed
  <2>2. \A d \in Clients : pc'[d] # "writing"
    BY <1>2
  <2>3. \A d \in Clients : pc'[d] = "recorded" =>
            \E i \in 1 .. Len(file') : file'[i].whole /\ file'[i].command.id = written'[d].id
    BY <1>2, <1>4, <1>6 DEF IInv, Filed
  <2> QED
    BY <2>1, <2>2, <2>3 DEF Filed
<1>11. Once'
  BY <1>4, <1>5 DEF IInv, Once
<1>12. Answered'
  BY <1>1, <1>4, <1>6 DEF IInv, Answered
<1> QED
  BY <1>7, <1>8, <1>9, <1>10, <1>11, <1>12 DEF IInv

\* The client is answered: the write is in the file, and whole.
LEMMA PassOnKeeps ==
  ASSUME IInv, NEW c \in Clients, PassOn(c)
  PROVE  IInv'
<1>1. /\ pc[c] = "recorded" /\ pc' = [pc EXCEPT ![c] = "idle"]
      /\ written' = [written EXCEPT ![c] = Nothing]
      /\ acked' = acked \cup {written[c].id}
      /\ UNCHANGED <<line, made, file>>
  BY DEF PassOn
<1>2. /\ pc'[c] = "idle"
      /\ \A d \in Clients \ {c} : pc'[d] = pc[d] /\ written'[d] = written[d]
  BY <1>1 DEF IInv, Typed
<1>3. Typed'
  <2>1. written' \in [Clients -> Commands \cup {Nothing}]
    BY <1>1 DEF IInv, Typed
  <2> QED
    BY <1>1, <1>2, <2>1 DEF IInv, Typed, Busy
<1>4. InLine'
  BY <1>1, <1>2 DEF IInv, InLine, Typed
<1>5. Numbered'
  <2>1. \A d \in Clients : Busy(d)' => d # c /\ Busy(d)
    BY <1>2 DEF Busy
  <2> QED
    BY <1>1, <1>2, <2>1 DEF IInv, Numbered
<1>6. Filed'
  <2>1. \A d \in Clients : pc'[d] # "idle" => d # c /\ pc'[d] = pc[d] /\ written'[d] = written[d]
    BY <1>2
  <2> QED
    BY <1>1, <2>1 DEF IInv, Filed
<1>7. Once' /\ Answered'
  BY <1>1 DEF IInv, Once, Answered, Filed
<1> QED
  BY <1>3, <1>4, <1>5, <1>6, <1>7 DEF IInv

-----------------------------------------------------------------------------
\* The inductive invariant holds throughout.
LEMMA IInvAlways == Spec => []IInv
<1>1. Init => IInv
  BY DEF Init, IInv, Typed, InLine, Numbered, Filed, Once, Answered, Busy
<1>2. IInv /\ [Next]_vars => IInv'
  <2> SUFFICES ASSUME IInv, [Next]_vars
               PROVE  IInv'
    OBVIOUS
  <2>1. ASSUME NEW c \in Clients, Rpush(c)
        PROVE  IInv'
    <3>1. CASE line = << >>
      BY <2>1, <3>1, MadeKeeps DEF Rpush
    <3>2. CASE line # << >>
      BY <2>1, <3>2, HandOverKeeps DEF Rpush
    <3> QED
      BY <3>1, <3>2
  <2>2. ASSUME NEW c \in Clients, Lpop(c)
        PROVE  IInv'
    BY <2>2, MadeKeeps DEF Lpop
  <2>3. ASSUME NEW c \in Clients, Blpop(c)
        PROVE  IInv'
    BY <2>3, MadeKeeps, BlockKeeps DEF Blpop
  <2>4. ASSUME NEW c \in Clients, BeginRecord(c) \/ EndRecord(c) \/ RecordFails(c) \/ PassOn(c)
        PROVE  IInv'
    BY <2>4, BeginRecordKeeps, EndRecordKeeps, RecordFailsKeeps, PassOnKeeps
  <2>5. CASE Stop
    <3>1. /\ line' = << >> /\ pc' = [c \in Clients |-> "idle"]
          /\ written' = [c \in Clients |-> Nothing]
          /\ UNCHANGED <<file, made, acked>>
      BY <2>5 DEF Stop
    <3>2. Typed' /\ InLine'
      BY <3>1 DEF IInv, Typed, InLine, Busy
    <3>3. Numbered' /\ Filed'
      BY <3>1 DEF IInv, Numbered, Filed, Busy
    <3>4. Once' /\ Answered'
      BY <3>1 DEF IInv, Once, Answered
    <3> QED
      BY <3>2, <3>3, <3>4 DEF IInv
  <2>6. CASE Start \/ Refuse \/ UNCHANGED vars
    <3>1. UNCHANGED <<line, pc, written, file, made, acked>>
      BY <2>6 DEF Start, Refuse, vars, tasks
    <3> QED
      BY <3>1 DEF IInv, Typed, InLine, Numbered, Filed, Once, Answered, Busy
  <2> QED
    BY <2>1, <2>2, <2>3, <2>4, <2>5, <2>6 DEF Next, Task
<1> QED
  BY <1>1, <1>2, PTL DEF Spec

\* No write is answered before all of it is in the file, none is taken out of
\* it again, and none is in it twice: of any number of clients whose tasks
\* interleave, of records that fail and of stops wherever they come.
THEOREM AckedIsRecordedOnceAlways == Spec => []AckedIsRecordedOnce
<1>1. IInv => AckedIsRecordedOnce
  <2> SUFFICES ASSUME IInv
               PROVE  AckedIsRecordedOnce
    OBVIOUS
  <2>1. DOMAIN file = 1 .. Len(file)
    BY DEF IInv, Typed
  <2> QED
    BY <2>1 DEF IInv, Once, Answered, AckedIsRecordedOnce
<1> QED
  BY <1>1, IInvAlways, PTL

-----------------------------------------------------------------------------
(* Replaying.                                                              *)

\* One command done again leaves a list.
LEMMA DoAgainIs ==
    ASSUME NEW held \in Seq(Nat), NEW x \in Commands
    PROVE  DoAgain(held, x) \in Seq(Nat)
<1>1. x.id \in Nat
  BY DEF Commands
<1>2. Append(held, x.id) \in Seq(Nat)
  BY <1>1
<1>3. held # << >> => Tail(held) \in Seq(Nat)
  OBVIOUS
<1> QED BY <1>2, <1>3 DEF DoAgain

\* A replay goes command by command, and leaves what the last of them did.
LEMMA ReplayStepwise ==
    ASSUME NEW s \in Seq(Commands)
    PROVE  \E f \in [0 .. Len(s) -> Seq(Nat)] :
               /\ f[0] = << >> /\ \A i \in 1 .. Len(s) : f[i] = DoAgain(f[i - 1], s[i])
               /\ Replay(s) = f[Len(s)]
<1> DEFINE n == Len(s)
           step == [i \in 1 .. n |-> [held \in Seq(Nat) |-> DoAgain(held, s[i])]]
<1>1. n \in Nat /\ << >> \in Seq(Nat) /\ \A i \in 1 .. n : s[i] \in Commands
  OBVIOUS
<1>2. ASSUME NEW i \in 1 .. n
      PROVE  [held \in Seq(Nat) |-> DoAgain(held, s[i])] \in [Seq(Nat) -> Seq(Nat)]
  <2>1. \A held \in Seq(Nat) : DoAgain(held, s[i]) \in Seq(Nat)
    BY <1>1, DoAgainIs, Zenon
  <2> QED BY <2>1, Zenon
<1>3. step \in [1 .. n -> [Seq(Nat) -> Seq(Nat)]]
  BY <1>2, Zenon
<1>4. \A i \in 1 .. n : \A held \in Seq(Nat) : step[i][held] = DoAgain(held, s[i])
  BY Zenon
<1> HIDE DEF n, step
<1>5. PICK f \in [0 .. n -> Seq(Nat)] : Steps(f, << >>, n, step)
  BY <1>1, <1>3, StepsExist, Zenon
<1>6. \A i \in 1 .. n : f[i] = DoAgain(f[i - 1], s[i])
  <2> TAKE i \in 1 .. n
  <2>1. i - 1 \in 0 .. n
    BY <1>1
  <2> QED BY <1>4, <1>5, <2>1, Zenon DEF Steps
<1> DEFINE after == CHOOSE h : h = [i \in 0 .. n |-> IF i = 0 THEN << >> ELSE DoAgain(h[i - 1], s[i])]
<1>7. \A i \in 0 .. n : i = 0 \/ i \in 1 .. n
  BY <1>1
<1>8. f = [i \in 0 .. n |-> IF i = 0 THEN << >> ELSE DoAgain(f[i - 1], s[i])]
  BY <1>5, <1>6, <1>7, Zenon DEF Steps
<1>9. after = [i \in 0 .. n |-> IF i = 0 THEN << >> ELSE DoAgain(after[i - 1], s[i])]
  BY <1>8, Zenon
<1>10. Replay(s) = after[n]
  BY DEF Replay, n
<1> HIDE DEF after
<1>11. after[0] = f[0]
  <2>1. 0 \in 0 .. n
    BY <1>1
  <2> QED BY <1>8, <1>9, <2>1, Zenon
<1>12. \A i \in 1 .. n : after[i - 1] = f[i - 1] => after[i] = f[i]
  <2> TAKE i \in 1 .. n
  <2>1. i \in 0 .. n /\ i # 0
    BY <1>1
  <2> QED BY <1>8, <1>9, <2>1, Zenon
<1>13. after[n] = f[n]
  <2>1. n \in 0 .. n
    BY <1>1
  <2>2. Alike(after, f, n)
    BY <1>11, <1>12 DEF Alike
  <2>3. \A i \in 0 .. n : after[i] = f[i]
    BY <1>1, <2>2, StepsAgree, Zenon
  <2> QED BY <2>1, <2>3
<1> QED BY <1>5, <1>6, <1>10, <1>13, Zenon DEF n, Steps

\* So one command more is one done more.
LEMMA ReplayAppend ==
    ASSUME NEW s \in Seq(Commands), NEW x \in Commands
    PROVE  /\ Replay(s) \in Seq(Nat)
           /\ Append(s, x) \in Seq(Commands)
           /\ Replay(Append(s, x)) = DoAgain(Replay(s), x)
<1> DEFINE n == Len(s)
           t == Append(s, x)
<1>1. /\ n \in Nat /\ t \in Seq(Commands) /\ Len(t) = n + 1 /\ t[n + 1] = x
      /\ \A i \in 1 .. n : t[i] = s[i]
  OBVIOUS
<1>2. PICK f \in [0 .. Len(s) -> Seq(Nat)] :
               /\ f[0] = << >> /\ \A i \in 1 .. Len(s) : f[i] = DoAgain(f[i - 1], s[i])
               /\ Replay(s) = f[Len(s)]
  BY ReplayStepwise, Zenon
<1> HIDE DEF t
<1>3. PICK g \in [0 .. Len(t) -> Seq(Nat)] :
               /\ g[0] = << >> /\ \A i \in 1 .. Len(t) : g[i] = DoAgain(g[i - 1], t[i])
               /\ Replay(t) = g[Len(t)]
  BY <1>1, ReplayStepwise, Zenon
<1> HIDE DEF n
<1>4. \A i \in 1 .. n : f[i - 1] = g[i - 1] => f[i] = g[i]
  <2> TAKE i \in 1 .. n
  <2>1. i \in 1 .. n + 1 /\ t[i] = s[i]
    BY <1>1
  <2> QED BY <1>1, <1>2, <1>3, <2>1, Zenon DEF n
<1>5. n \in 0 .. n /\ n + 1 \in 1 .. n + 1 /\ (n + 1) - 1 = n
  BY <1>1
<1>6. f[n] = g[n]
  <2>1. Alike(f, g, n)
    BY <1>2, <1>3, <1>4 DEF Alike
  <2>2. n \in Nat
    BY <1>1
  <2>3. \A i \in 0 .. n : f[i] = g[i]
    BY <2>1, <2>2, StepsAgree, ZenonT(30)
  <2> QED BY <1>5, <2>3
<1>7. g[n + 1] = DoAgain(g[n], x)
  BY <1>1, <1>3, <1>5, Zenon
<1>8. f[n] \in Seq(Nat) /\ Replay(s) = f[n]
  BY <1>2, <1>5, Zenon DEF n
<1> QED BY <1>1, <1>3, <1>6, <1>7, <1>8, Zenon DEF t

LEMMA ReplayNone == Replay(<< >>) = << >> /\ << >> \in Seq(Commands) /\ InOrder(<< >>) /\ Range(<< >>) = {}
<1>1. << >> \in Seq(Commands) /\ Len(<< >>) = 0
  OBVIOUS
<1>2. Replay(<< >>) = << >>
  BY <1>1, ReplayStepwise, Zenon
<1>3. DOMAIN << >> = {}
  OBVIOUS
<1> QED BY <1>1, <1>2, <1>3 DEF InOrder, Range

-----------------------------------------------------------------------------
(* Sequences in order.                                                     *)

\* Of two in order with the same commands, each begins with the other.
LEMMA OrderedPrefix ==
    ASSUME NEW a \in Seq(Commands), NEW b \in Seq(Commands), InOrder(a), InOrder(b),
           Range(a) = Range(b)
    PROVE  \A i \in 1 .. Len(a) : i \in 1 .. Len(b) /\ a[i] = b[i]
<1> DEFINE T == {i \in 1 .. Len(a) : ~ (i \in 1 .. Len(b) /\ a[i] = b[i])}
<1> SUFFICES ASSUME T # {} PROVE FALSE
  OBVIOUS
<1>1. /\ Len(a) \in Nat /\ Len(b) \in Nat
      /\ \A i \in 1 .. Len(a) : a[i].id \in Nat
      /\ \A i \in 1 .. Len(b) : b[i].id \in Nat
      /\ \A i, j \in 1 .. Len(a) : i < j => a[i].id < a[j].id
      /\ \A i, j \in 1 .. Len(b) : i < j => b[i].id < b[j].id
  <2>1. \A x \in Commands : x.id \in Nat
    BY DEF Commands
  <2>2. /\ Len(a) \in Nat /\ DOMAIN a = 1 .. Len(a) /\ \A i \in 1 .. Len(a) : a[i] \in Commands
        /\ Len(b) \in Nat /\ DOMAIN b = 1 .. Len(b) /\ \A i \in 1 .. Len(b) : b[i] \in Commands
    OBVIOUS
  <2> QED BY <2>1, <2>2, Zenon DEF InOrder
<1>2. /\ \A i \in 1 .. Len(a) : \E j \in 1 .. Len(b) : a[i] = b[j]
      /\ \A i \in 1 .. Len(b) : \E j \in 1 .. Len(a) : b[i] = a[j]
  <2>1. DOMAIN a = 1 .. Len(a) /\ DOMAIN b = 1 .. Len(b)
    OBVIOUS
  <2>2. \A i \in DOMAIN a : a[i] \in Range(b)
    BY Zenon DEF Range
  <2>3. \A i \in DOMAIN b : b[i] \in Range(a)
    BY Zenon DEF Range
  <2>4. \A i \in DOMAIN a : \E j \in DOMAIN b : a[i] = b[j]
    BY <2>2 DEF Range
  <2>5. \A i \in DOMAIN b : \E j \in DOMAIN a : b[i] = a[j]
    BY <2>3 DEF Range
  <2> QED BY <2>1, <2>4, <2>5, Zenon
<1>3. T \in SUBSET Nat
  BY <1>1
<1>4. PICK i \in T : \A m \in T : i <= m
  BY <1>3, Least, Zenon
<1>5. i \in 1 .. Len(a) /\ ~ (i \in 1 .. Len(b) /\ a[i] = b[i]) /\ i \in Nat
  BY <1>1
<1>6. \A j \in 1 .. Len(a) : j < i => j \in 1 .. Len(b) /\ a[j] = b[j]
  BY <1>1, <1>4, <1>5
<1>7. PICK k \in 1 .. Len(b) : a[i] = b[k]
  BY <1>2, <1>5
<1>8. ~ (k < i)
  <2> SUFFICES ASSUME k < i PROVE FALSE
    OBVIOUS
  <2>1. k \in 1 .. Len(a)
    BY <1>1, <1>5
  <2>2. a[k] = b[k] /\ a[k].id < a[i].id
    BY <1>1, <1>5, <1>6, <2>1
  <2>3. a[k].id = a[i].id
    BY <1>7, <2>2
  <2> QED BY <1>1, <1>5, <2>1, <2>2, <2>3
<1>9. i < k /\ i \in 1 .. Len(b)
  BY <1>1, <1>5, <1>7, <1>8
<1>10. PICK l \in 1 .. Len(a) : b[i] = a[l]
  BY <1>2, <1>9
<1>11. ~ (l < i)
  <2> SUFFICES ASSUME l < i PROVE FALSE
    OBVIOUS
  <2>1. l \in 1 .. Len(b) /\ a[l] = b[l]
    BY <1>6
  <2>2. b[l].id < b[i].id
    BY <1>1, <1>9, <2>1
  <2>3. b[l].id = b[i].id
    BY <1>10, <2>1
  <2> QED BY <1>1, <1>9, <2>1, <2>2, <2>3
<1>12. i < l
  BY <1>1, <1>5, <1>9, <1>10, <1>11
<1>13. a[i].id < a[l].id /\ b[i].id < b[k].id
  BY <1>1, <1>5, <1>9, <1>12
<1>14. a[l].id = b[i].id /\ b[k].id = a[i].id
  BY <1>7, <1>10
<1>15. a[i].id \in Nat /\ b[i].id \in Nat
  BY <1>1, <1>5, <1>9
<1> QED BY <1>13, <1>14, <1>15

\* So they are the same.
LEMMA OrderedSame ==
    ASSUME NEW a \in Seq(Commands), NEW b \in Seq(Commands), InOrder(a), InOrder(b),
           Range(a) = Range(b)
    PROVE  a = b
<1>1. \A i \in 1 .. Len(a) : i \in 1 .. Len(b) /\ a[i] = b[i]
  BY OrderedPrefix
<1>2. \A i \in 1 .. Len(b) : i \in 1 .. Len(a)
  BY OrderedPrefix
<1>3. Len(a) = Len(b)
  BY <1>1, <1>2
<1> QED BY <1>1, <1>3, SeqEqual

-----------------------------------------------------------------------------
(* What the store holds, accounted for: the commands told of and those     *)
(* still in the hands of tasks, put in order, replay to it.                *)

Accounts(h, told, hand, held) ==
    /\ h \in Seq(Commands) /\ InOrder(h)
    /\ Range(h) = told \cup hand
    /\ Replay(h) = held

InHand(states) == {written[c] : c \in {d \in Clients : pc[d] \in states}}

\* No record is cut short but the one that is being written.
NoneLeftCut ==
    \A i \in 1 .. Len(file) :
        file[i].whole \/ (i = Len(file) /\ \E c \in Clients : pc[c] = "writing")

FileAccounted ==
    mode = "up" /\ failures = 0 /\ NoneLeftCut /\ InOrder(Words(file)) =>
        \E h : Accounts(h, Range(Words(file)), InHand({"made"}), list)

StreamAccounted ==
    mode = "up" /\ failures = 0 /\ stops = 0 =>
        \E h : Accounts(h, Range(stream), InHand({"made", "writing", "recorded"}), list)

\* Nobody waits on a list that has something, or on a server that is down.
Told ==
    /\ stream \in Seq(Commands)
    /\ \A i \in 1 .. Len(stream) : stream[i].id <= made
    /\ line # << >> => list = << >>
    /\ mode # "up" => line = << >> /\ stops # 0 /\ \A c \in Clients : pc[c] = "idle"
    /\ failures \in Nat /\ stops \in Nat

RInv == Told /\ FileAccounted /\ StreamAccounted

-----------------------------------------------------------------------------
\* A command later than all that are accounted for comes last, and is done last.
LEMMA AccountsNext ==
    ASSUME NEW h, NEW told, NEW hand, NEW held, Accounts(h, told, hand, held),
           NEW x \in Commands, \A y \in told \cup hand : y.id < x.id
    PROVE  Accounts(Append(h, x), told, hand \cup {x}, DoAgain(held, x))
<1> DEFINE n == Len(h)
           t == Append(h, x)
<1>1. h \in Seq(Commands) /\ InOrder(h) /\ Range(h) = told \cup hand /\ Replay(h) = held
  BY DEF Accounts
<1>2. /\ n \in Nat /\ t \in Seq(Commands) /\ Len(t) = n + 1 /\ t[n + 1] = x
      /\ \A i \in 1 .. n : t[i] = h[i]
      /\ DOMAIN h = 1 .. n /\ DOMAIN t = 1 .. n + 1
  BY <1>1
<1>3. Replay(t) = DoAgain(held, x)
  BY <1>1, ReplayAppend
<1> HIDE DEF n, t
<1>4. \A i \in 1 .. n + 1 : i \in 1 .. n \/ i = n + 1
  BY <1>2
<1>5. \A i \in 1 .. n : i \in 1 .. n + 1 /\ ~ (n + 1 < i)
  BY <1>2
<1>6. \A i \in 1 .. n : h[i] \in told \cup hand
  BY <1>1, <1>2 DEF Range
<1>7. InOrder(t)
  <2>1. \A i, j \in 1 .. n : i < j => h[i].id < h[j].id
    BY <1>1, <1>2 DEF InOrder
  <2>2. n + 1 \in 1 .. n + 1 /\ ~ (n + 1 < n + 1)
    BY <1>2
  <2>3. ASSUME NEW i \in 1 .. n + 1, NEW j \in 1 .. n + 1, i < j PROVE t[i].id < t[j].id
    <3>1. i \in 1 .. n
      BY <1>4, <1>5, <2>2, <2>3
    <3>2. CASE j = n + 1
      BY <1>2, <1>6, <3>1, <3>2
    <3>3. CASE j \in 1 .. n
      BY <1>2, <2>1, <2>3, <3>1, <3>3
    <3> QED BY <1>4, <3>2, <3>3
  <2> QED BY <1>2, <2>3 DEF InOrder
<1>8. Range(t) = told \cup (hand \cup {x})
  <2>1. Range(t) = Range(h) \cup {x}
    <3>1. ASSUME NEW y \in Range(t) PROVE y \in Range(h) \cup {x}
      <4>1. PICK i \in 1 .. n + 1 : y = t[i]
        BY <1>2, <3>1 DEF Range
      <4> QED BY <1>2, <1>4, <4>1 DEF Range
    <3>2. ASSUME NEW y \in Range(h) PROVE y \in Range(t)
      <4>1. PICK i \in 1 .. n : y = h[i]
        BY <1>2, <3>2 DEF Range
      <4> QED BY <1>2, <1>5, <4>1 DEF Range
    <3>3. x \in Range(t)
      <4>1. n + 1 \in 1 .. n + 1
        BY <1>2
      <4> QED BY <1>2, <4>1 DEF Range
    <3> QED BY <3>1, <3>2, <3>3
  <2> QED BY <1>1, <2>1
<1> QED BY <1>2, <1>3, <1>7, <1>8 DEF Accounts, t

\* The words of a record, one for one.
LEMMA WordsAre ==
    ASSUME NEW r \in Seq(Records)
    PROVE  /\ Words(r) \in Seq(Commands) /\ Len(Words(r)) = Len(r)
           /\ \A i \in 1 .. Len(r) : Words(r)[i] = r[i].command
           /\ Range(Words(r)) = {r[i].command : i \in 1 .. Len(r)}
<1>1. \A x \in Records : x.command \in Commands
  BY DEF Records
<1>2. DOMAIN r = 1 .. Len(r) /\ Len(r) \in Nat /\ \A i \in 1 .. Len(r) : r[i] \in Records
  OBVIOUS
<1>3. Words(r) = [i \in 1 .. Len(r) |-> r[i].command]
  BY <1>2 DEF Words
<1>4. Words(r) \in [1 .. Len(r) -> Commands]
  BY <1>1, <1>2, <1>3, Zenon
<1>5. Words(r) \in Seq(Commands) /\ Len(Words(r)) = Len(r)
  <2> DEFINE w == Words(r)
             n == Len(r)
  <2>1. w \in [1 .. n -> Commands] /\ n \in Nat
    BY <1>2, <1>4
  <2> HIDE DEF w, n
  <2>2. w \in Seq(Commands) /\ Len(w) = n
    BY <2>1
  <2> QED BY <2>2 DEF w, n
<1>6. \A i \in 1 .. Len(r) : Words(r)[i] = r[i].command
  BY <1>3, Zenon
<1>7. DOMAIN Words(r) = 1 .. Len(r)
  BY <1>4, Zenon
<1>8. Range(Words(r)) = {r[i].command : i \in 1 .. Len(r)}
  BY <1>6, <1>7 DEF Range
<1> QED BY <1>5, <1>6, <1>8

\* A record with one more begins as it did, so that it was in order if it is.
LEMMA WordsAppend ==
    ASSUME NEW r \in Seq(Records), NEW x \in Records
    PROVE  /\ Range(Words(Append(r, x))) = Range(Words(r)) \cup {x.command}
           /\ InOrder(Words(Append(r, x))) => InOrder(Words(r))
<1> DEFINE n == Len(r)
           t == Append(r, x)
<1>1. /\ n \in Nat /\ t \in Seq(Records) /\ Len(t) = n + 1 /\ t[n + 1] = x
      /\ \A i \in 1 .. n : t[i] = r[i]
  OBVIOUS
<1> HIDE DEF n, t
<1>2. /\ Words(t) \in Seq(Commands) /\ Len(Words(t)) = n + 1
      /\ \A i \in 1 .. n + 1 : Words(t)[i] = t[i].command
      /\ Range(Words(t)) = {t[i].command : i \in 1 .. n + 1}
  BY <1>1, WordsAre, Zenon
<1>3. /\ Words(r) \in Seq(Commands) /\ Len(Words(r)) = n
      /\ \A i \in 1 .. n : Words(r)[i] = r[i].command
      /\ Range(Words(r)) = {r[i].command : i \in 1 .. n}
  BY WordsAre DEF n
<1>4. \A i \in 1 .. n + 1 : i \in 1 .. n \/ i = n + 1
  BY <1>1
<1>5. \A i \in 1 .. n : i \in 1 .. n + 1
  BY <1>1
<1>6. n + 1 \in 1 .. n + 1
  BY <1>1
<1>7. {t[i].command : i \in 1 .. n + 1} = {r[i].command : i \in 1 .. n} \cup {x.command}
  BY <1>1, <1>4, <1>5, <1>6
<1>8. InOrder(Words(t)) => InOrder(Words(r))
  <2>1. DOMAIN Words(t) = 1 .. n + 1 /\ DOMAIN Words(r) = 1 .. n
    BY <1>2, <1>3
  <2>2. \A i \in 1 .. n : Words(t)[i] = Words(r)[i]
    BY <1>1, <1>2, <1>3, <1>5, Zenon
  <2>3. ASSUME InOrder(Words(t)), NEW i \in 1 .. n, NEW j \in 1 .. n, i < j
        PROVE  Words(r)[i].id < Words(r)[j].id
    <3>1. i \in DOMAIN Words(t) /\ j \in DOMAIN Words(t)
      BY <1>5, <2>1
    <3>2. Words(t)[i].id < Words(t)[j].id
      BY <2>3, <3>1, Zenon DEF InOrder
    <3> QED BY <2>2, <3>2, Zenon
  <2> QED BY <2>1, <2>3 DEF InOrder
<1> QED BY <1>2, <1>3, <1>7, <1>8, Zenon DEF t

-----------------------------------------------------------------------------
(* The steps.                                                              *)

\* Whatever is in the file, in the stream or in hand was made by now.
LEMMA AllWereMade ==
    ASSUME IInv, Told
    PROVE  /\ made \in Nat
           /\ \A y \in Range(Words(file)) : y.id \in Nat /\ y.id <= made
           /\ \A y \in Range(stream) : y.id \in Nat /\ y.id <= made
           /\ \A y \in InHand({"made", "writing", "recorded"}) : y.id \in Nat /\ y.id <= made
           /\ InHand({"made"}) \subseteq InHand({"made", "writing", "recorded"})
<1>1. made \in Nat /\ file \in Seq(Records) /\ stream \in Seq(Commands)
  BY DEF IInv, Typed, Told
<1>2. \A x \in Commands : x.id \in Nat
  BY DEF Commands
<1>3. Range(Words(file)) = {file[i].command : i \in 1 .. Len(file)}
  BY <1>1, WordsAre
<1>4. \A i \in 1 .. Len(file) : file[i].command.id \in Nat /\ file[i].command.id <= made
  BY Numbers DEF IInv, Numbered
<1>5. ASSUME NEW y \in Range(stream) PROVE y.id \in Nat /\ y.id <= made
  <2>1. PICK i \in 1 .. Len(stream) : y = stream[i]
    BY <1>1 DEF Range
  <2> QED BY <1>1, <1>2, <2>1 DEF Told
<1>6. ASSUME NEW y \in InHand({"made", "writing", "recorded"}) PROVE y.id \in Nat /\ y.id <= made
  <2>1. PICK c \in Clients : pc[c] \in {"made", "writing", "recorded"} /\ y = written[c]
    BY DEF InHand
  <2> QED BY <2>1, Numbers DEF IInv, Numbered, Busy
<1>7. InHand({"made"}) \subseteq InHand({"made", "writing", "recorded"})
  BY DEF InHand
<1> QED BY <1>1, <1>3, <1>4, <1>5, <1>6, <1>7

\* A task without words takes some in hand.
LEMMA InHandMore ==
    ASSUME Typed, NEW c \in Clients, NEW x, NEW states, pc[c] \notin states, "made" \in states,
           pc' = [pc EXCEPT ![c] = "made"], written' = [written EXCEPT ![c] = x]
    PROVE  InHand(states)' = InHand(states) \cup {x}
<1>1. /\ pc'[c] = "made" /\ written'[c] = x
      /\ \A d \in Clients \ {c} : pc'[d] = pc[d] /\ written'[d] = written[d]
  BY DEF Typed
<1>2. InHand(states)' = {written'[d] : d \in {e \in Clients : pc'[e] \in states}}
  BY DEF InHand
<1>3. ASSUME NEW y \in InHand(states)' PROVE y \in InHand(states) \cup {x}
  <2>1. PICK d \in Clients : pc'[d] \in states /\ y = written'[d]
    BY <1>2, <1>3
  <2> QED BY <1>1, <2>1 DEF InHand
<1>4. ASSUME NEW y \in InHand(states) PROVE y \in InHand(states)'
  <2>1. PICK d \in Clients : pc[d] \in states /\ y = written[d]
    BY <1>4 DEF InHand
  <2> QED BY <1>1, <1>2, <2>1
<1>5. x \in InHand(states)'
  BY <1>1, <1>2
<1> QED BY <1>3, <1>4, <1>5

\* One write made: Made, of RPUSH, LPOP and BLPOP.
LEMMA MadeAccounts ==
    ASSUME IInv, RInv, NEW c \in Clients, NEW op \in {"RPUSH", "LPOP"}, mode = "up", pc[c] = "idle",
           made < MaxWrites, Made(c, op), list' = DoAgain(list, [op |-> op, id |-> made + 1]),
           line # << >> => list' = << >>,
           UNCHANGED <<mode, line, file, stream, failures, stops>>
    PROVE  RInv'
<1> DEFINE x == [op |-> op, id |-> made + 1]
<1>1. made \in Nat /\ made' = made + 1 /\ MaxWrites \in Nat
  BY AppendOnlyAssumption DEF IInv, Typed, Made
<1>2. x \in Commands /\ x.id = made + 1
  BY <1>1 DEF Commands
<1>3. pc' = [pc EXCEPT ![c] = "made"] /\ written' = [written EXCEPT ![c] = x] /\ list' = DoAgain(list, x)
  BY DEF Made
<1> HIDE DEF x
<1>4. Told /\ FileAccounted /\ StreamAccounted /\ Typed
  BY DEF RInv, IInv
<1>5. /\ \A y \in Range(Words(file)) \cup InHand({"made"}) : y.id < x.id
      /\ \A y \in Range(stream) \cup InHand({"made", "writing", "recorded"}) : y.id < x.id
  BY <1>1, <1>2, <1>4, AllWereMade
<1>6. /\ InHand({"made"})' = InHand({"made"}) \cup {x}
      /\ InHand({"made", "writing", "recorded"})' = InHand({"made", "writing", "recorded"}) \cup {x}
  BY <1>3, <1>4, InHandMore, Zenon
<1>7. Told'
  <2>1. \A i \in 1 .. Len(stream) : stream[i].id \in Nat
    <3>1. \A y \in Commands : y.id \in Nat
      BY DEF Commands
    <3> QED BY <1>4, <3>1 DEF Told
  <2>2. \A i \in 1 .. Len(stream) : stream[i].id <= made + 1
    BY <1>1, <1>4, <2>1 DEF Told
  <2> QED BY <1>1, <1>4, <2>2 DEF Told
<1>8. FileAccounted'
  <2> SUFFICES ASSUME failures = 0, NoneLeftCut', InOrder(Words(file))
               PROVE  \E h : Accounts(h, Range(Words(file)), InHand({"made"})', list')
    BY DEF FileAccounted
  <2>1. NoneLeftCut
    BY <1>3, <1>4 DEF NoneLeftCut, Typed
  <2>2. PICK h : Accounts(h, Range(Words(file)), InHand({"made"}), list)
    BY <1>4, <2>1 DEF FileAccounted
  <2>3. Accounts(Append(h, x), Range(Words(file)), InHand({"made"}) \cup {x}, DoAgain(list, x))
    BY <1>2, <1>5, <2>2, AccountsNext
  <2> QED BY <1>3, <1>6, <2>3, Zenon
<1>9. StreamAccounted'
  <2> SUFFICES ASSUME failures = 0, stops = 0
               PROVE  \E h : Accounts(h, Range(stream), InHand({"made", "writing", "recorded"})', list')
    BY DEF StreamAccounted
  <2>1. PICK h : Accounts(h, Range(stream), InHand({"made", "writing", "recorded"}), list)
    BY <1>4 DEF StreamAccounted
  <2>2. Accounts(Append(h, x), Range(stream), InHand({"made", "writing", "recorded"}) \cup {x}, DoAgain(list, x))
    BY <1>2, <1>5, <2>1, AccountsNext
  <2> QED BY <1>3, <1>6, <2>2, Zenon
<1> QED BY <1>7, <1>8, <1>9 DEF RInv

\* Two writes made: RPUSH with a client in line, which takes what is pushed.
LEMMA HandOverAccounts ==
    ASSUME IInv, RInv, NEW c \in Clients, Rpush(c), line # << >>
    PROVE  RInv'
<1> DEFINE d == Head(line)
           push == [op |-> "RPUSH", id |-> made + 1]
           pop == [op |-> "LPOP", id |-> made + 2]
           under == {"made", "writing", "recorded"}
<1>1. made \in Nat /\ made' = made + 2 /\ MaxWrites \in Nat /\ made + 1 < MaxWrites
  BY AppendOnlyAssumption DEF IInv, Typed, Rpush
<1>2. /\ push \in Commands /\ push.id = made + 1 /\ push.op = "RPUSH"
      /\ pop \in Commands /\ pop.id = made + 2 /\ pop.op = "LPOP"
  BY <1>1 DEF Commands
<1>3. /\ pc' = [pc EXCEPT ![c] = "made", ![d] = "made"]
      /\ written' = [written EXCEPT ![c] = push, ![d] = pop]
      /\ line' = Tail(line) /\ pc[c] = "idle" /\ mode = "up"
      /\ UNCHANGED <<mode, list, file, stream, failures, stops>>
  BY DEF Rpush
<1>4. d = line[1] /\ 1 \in 1 .. Len(line) /\ d \in Clients
  BY DEF IInv, Typed
<1>5. pc[d] = "blocked" /\ d # c
  BY <1>3, <1>4 DEF IInv, InLine
<1>6. Told /\ FileAccounted /\ StreamAccounted /\ Typed
  BY DEF RInv, IInv
<1>7. list = << >> /\ DoAgain(DoAgain(list, push), pop) = list
  <2>1. list = << >>
    BY <1>6 DEF Told
  <2>2. DoAgain(list, push) = Append(<< >>, made + 1)
    BY <1>2, <2>1 DEF DoAgain
  <2>3. Append(<< >>, made + 1) # << >> /\ Tail(Append(<< >>, made + 1)) = << >>
    <3> DEFINE one == Append(<< >>, made + 1)
    <3>1. one \in Seq(Nat) /\ Len(one) = 1
      BY <1>1
    <3> HIDE DEF one
    <3>2. Tail(one) = << >> /\ one # << >>
      BY <3>1, OneNumber
    <3> QED BY <3>2 DEF one
  <2> QED BY <1>2, <2>1, <2>2, <2>3 DEF DoAgain
<1> HIDE DEF d, push, pop
<1>8. /\ pc'[c] = "made" /\ written'[c] = push /\ pc'[d] = "made" /\ written'[d] = pop
      /\ \A e \in Clients \ {c, d} : pc'[e] = pc[e] /\ written'[e] = written[e]
  BY <1>3, <1>4, <1>5, <1>6 DEF Typed
<1>9. ASSUME NEW states \in SUBSET under, "made" \in states
      PROVE  InHand(states)' = (InHand(states) \cup {push}) \cup {pop}
  <2>1. InHand(states)' = {written'[e] : e \in {f \in Clients : pc'[f] \in states}}
    BY DEF InHand
  <2>2. pc[c] \notin states /\ pc[d] \notin states
    BY <1>3, <1>5
  <2>3. ASSUME NEW y \in InHand(states)' PROVE y \in (InHand(states) \cup {push}) \cup {pop}
    <3>1. PICK e \in Clients : pc'[e] \in states /\ y = written'[e]
      BY <2>1, <2>3
    <3> QED BY <1>8, <3>1 DEF InHand
  <2>4. ASSUME NEW y \in InHand(states) PROVE y \in InHand(states)'
    <3>1. PICK e \in Clients : pc[e] \in states /\ y = written[e]
      BY <2>4 DEF InHand
    <3>2. e \in Clients \ {c, d}
      BY <2>2, <3>1
    <3> QED BY <1>8, <2>1, <3>1, <3>2
  <2>5. push \in InHand(states)' /\ pop \in InHand(states)'
    BY <1>4, <1>8, <1>9, <2>1
  <2> QED BY <2>3, <2>4, <2>5
<1>10. /\ InHand({"made"})' = (InHand({"made"}) \cup {push}) \cup {pop}
       /\ InHand(under)' = (InHand(under) \cup {push}) \cup {pop}
  BY <1>9
<1>11. /\ \A y \in Range(Words(file)) \cup InHand({"made"}) : y.id < push.id
       /\ \A y \in Range(Words(file)) \cup (InHand({"made"}) \cup {push}) : y.id < pop.id
       /\ \A y \in Range(stream) \cup InHand(under) : y.id < push.id
       /\ \A y \in Range(stream) \cup (InHand(under) \cup {push}) : y.id < pop.id
  BY <1>1, <1>2, <1>6, AllWereMade
<1>12. Told'
  <2>1. \A i \in 1 .. Len(stream) : stream[i].id \in Nat
    <3>1. \A y \in Commands : y.id \in Nat
      BY DEF Commands
    <3> QED BY <1>6, <3>1 DEF Told
  <2>2. \A i \in 1 .. Len(stream) : stream[i].id <= made + 2
    BY <1>1, <1>6, <2>1 DEF Told
  <2> QED BY <1>1, <1>3, <1>6, <1>7, <2>2 DEF Told
<1>13. ASSUME NEW told, NEW hand, NEW h, Accounts(h, told, hand, list),
              \A y \in told \cup hand : y.id < push.id,
              \A y \in told \cup (hand \cup {push}) : y.id < pop.id
       PROVE  \E g : Accounts(g, told, (hand \cup {push}) \cup {pop}, list)
  <2>1. Accounts(Append(h, push), told, hand \cup {push}, DoAgain(list, push))
    BY <1>2, <1>13, AccountsNext
  <2>2. Accounts(Append(Append(h, push), pop), told, (hand \cup {push}) \cup {pop},
                 DoAgain(DoAgain(list, push), pop))
    BY <1>2, <1>13, <2>1, AccountsNext
  <2> QED BY <1>7, <2>2
<1>14. FileAccounted'
  <2> SUFFICES ASSUME failures = 0, NoneLeftCut', InOrder(Words(file))
               PROVE  \E h : Accounts(h, Range(Words(file)), InHand({"made"})', list)
    BY <1>3 DEF FileAccounted
  <2>1. NoneLeftCut
    BY <1>3, <1>8, Zenon DEF NoneLeftCut
  <2>2. PICK h : Accounts(h, Range(Words(file)), InHand({"made"}), list)
    BY <1>3, <1>6, <2>1 DEF FileAccounted
  <2> QED BY <1>10, <1>11, <1>13, <2>2
<1>15. StreamAccounted'
  <2> SUFFICES ASSUME failures = 0, stops = 0
               PROVE  \E h : Accounts(h, Range(stream), InHand(under)', list)
    BY <1>3 DEF StreamAccounted
  <2>1. PICK h : Accounts(h, Range(stream), InHand(under), list)
    BY <1>3, <1>6 DEF StreamAccounted
  <2> HIDE DEF under
  <2>2. \E g : Accounts(g, Range(stream), (InHand(under) \cup {push}) \cup {pop}, list)
    BY <1>11, <1>13, <2>1, Zenon
  <2> QED BY <1>10, <2>2, Zenon
<1> QED BY <1>12, <1>14, <1>15 DEF RInv

\* Aof::record begins: the words are in the file and no longer in hand alone.
LEMMA BeginRecordAccounts ==
    ASSUME IInv, RInv, NEW c \in Clients, BeginRecord(c)
    PROVE  RInv'
<1> DEFINE record == [command |-> written[c], whole |-> FALSE]
           under == {"made", "writing", "recorded"}
<1>1. /\ pc[c] = "made" /\ mode = "up" /\ \A d \in Clients : pc[d] # "writing"
      /\ file' = Append(file, record) /\ pc' = [pc EXCEPT ![c] = "writing"]
      /\ UNCHANGED <<mode, list, line, written, stream, made, failures, stops>>
  BY DEF BeginRecord
<1>2. Told /\ FileAccounted /\ StreamAccounted /\ Typed
  BY DEF RInv, IInv
<1>3. written[c] \in Commands
  BY <1>1, <1>2 DEF Typed, Busy
<1>4. record \in Records /\ record.command = written[c] /\ record.whole = FALSE
  BY <1>3 DEF Records
<1> HIDE DEF record
<1>5. /\ pc'[c] = "writing"
      /\ \A d \in Clients \ {c} : pc'[d] = pc[d]
  BY <1>1, <1>2 DEF Typed
<1>6. /\ Range(Words(file')) = Range(Words(file)) \cup {written[c]}
      /\ InOrder(Words(file')) => InOrder(Words(file))
  BY <1>1, <1>2, <1>4, WordsAppend DEF Typed
<1>7. InHand({"made"})' \cup {written[c]} = InHand({"made"}) \cup {written[c]}
  <2>1. InHand({"made"})' = {written[d] : d \in {e \in Clients : pc'[e] \in {"made"}}}
    BY <1>1 DEF InHand
  <2>2. ASSUME NEW y \in InHand({"made"})' PROVE y \in InHand({"made"})
    BY <1>5, <2>1, <2>2 DEF InHand
  <2>3. ASSUME NEW y \in InHand({"made"}), y # written[c] PROVE y \in InHand({"made"})'
    <3>1. PICK d \in Clients : pc[d] = "made" /\ y = written[d]
      BY <2>3 DEF InHand
    <3> QED BY <1>5, <2>1, <2>3, <3>1
  <2> QED BY <2>2, <2>3
<1>8. InHand(under)' = InHand(under)
  <2>1. InHand(under)' = {written[d] : d \in {e \in Clients : pc'[e] \in under}}
    BY <1>1 DEF InHand
  <2>2. {e \in Clients : pc'[e] \in under} = {e \in Clients : pc[e] \in under}
    BY <1>1, <1>5
  <2> QED BY <2>1, <2>2, Zenon DEF InHand
<1>9. Told'
  BY <1>1, <1>2 DEF Told
<1>10. NoneLeftCut' => NoneLeftCut
  <2> SUFFICES ASSUME NoneLeftCut', NEW i \in 1 .. Len(file) PROVE file[i].whole
    BY DEF NoneLeftCut
  <2>1. file \in Seq(Records) /\ Len(file) \in Nat
    BY <1>2 DEF Typed
  <2>2. Len(file') = Len(file) + 1 /\ file'[i] = file[i]
    BY <1>1, <1>4, <2>1
  <2>3. i \in 1 .. Len(file') /\ i # Len(file')
    BY <2>1, <2>2
  <2>4. file'[i].whole
    BY <2>3 DEF NoneLeftCut
  <2> QED BY <2>2, <2>4
<1>11. FileAccounted'
  <2> SUFFICES ASSUME failures = 0, NoneLeftCut', InOrder(Words(file'))
               PROVE  \E h : Accounts(h, Range(Words(file')), InHand({"made"})', list)
    BY <1>1 DEF FileAccounted
  <2>1. PICK h : Accounts(h, Range(Words(file)), InHand({"made"}), list)
    BY <1>1, <1>2, <1>6, <1>10 DEF FileAccounted
  <2>2. written[c] \in InHand({"made"})
    BY <1>1 DEF InHand
  <2>3. Range(Words(file')) \cup InHand({"made"})' = Range(Words(file)) \cup InHand({"made"})
    BY <1>6, <1>7, <2>2
  <2>4. Accounts(h, Range(Words(file')), InHand({"made"})', list)
    BY <2>1, <2>3, Zenon DEF Accounts
  <2> QED BY <2>4
<1>12. StreamAccounted'
  BY <1>1, <1>2, <1>8 DEF StreamAccounted
<1> QED BY <1>9, <1>11, <1>12 DEF RInv

\* And ends: the words are as they were.
LEMMA EndRecordAccounts ==
    ASSUME IInv, RInv, NEW c \in Clients, EndRecord(c)
    PROVE  RInv'
<1> DEFINE n == Len(file)
           under == {"made", "writing", "recorded"}
<1>1. /\ pc[c] = "writing" /\ mode = "up" /\ pc' = [pc EXCEPT ![c] = "recorded"]
      /\ file' = [file EXCEPT ![Len(file)].whole = TRUE]
      /\ UNCHANGED <<mode, list, line, written, stream, made, failures, stops>>
  BY DEF EndRecord
<1>2. Told /\ FileAccounted /\ StreamAccounted /\ Typed /\ Filed
  BY DEF RInv, IInv
<1>3. /\ pc'[c] = "recorded"
      /\ \A d \in Clients \ {c} : pc'[d] = pc[d] /\ pc[d] # "writing"
  BY <1>1, <1>2 DEF Typed, Filed
<1>4. file \in Seq(Records) /\ n \in Nat /\ n \in 1 .. n /\ file[n] \in Records
  BY <1>1, <1>2 DEF Typed, Filed
<1>5. [file[n] EXCEPT !.whole = TRUE] \in Records
      /\ [file[n] EXCEPT !.whole = TRUE].command = file[n].command
  BY <1>4, Zenon DEF Records
<1>6. file' \in Seq(Records) /\ Len(file') = n
  BY <1>1, <1>4, <1>5
<1>7. file'[n] = [file[n] EXCEPT !.whole = TRUE]
  <2>1. n \in DOMAIN file
    BY <1>4
  <2> QED BY <1>1, <2>1, Zenon
<1>8. \A i \in 1 .. n : i # n => file'[i] = file[i]
  BY <1>1, <1>4
<1>9. \A i \in 1 .. n : file'[i].command = file[i].command
  BY <1>5, <1>7, <1>8, Zenon
<1>10. Words(file') = Words(file)
  <2> DEFINE v == Words(file)
             w == Words(file')
  <2>1. /\ v \in Seq(Commands) /\ Len(v) = n
        /\ w \in Seq(Commands) /\ Len(w) = n
        /\ \A i \in 1 .. n : w[i] = file'[i].command /\ v[i] = file[i].command
    BY <1>4, <1>6, WordsAre
  <2> HIDE DEF v, w
  <2>2. Len(w) = Len(v) /\ \A i \in 1 .. Len(w) : w[i] = v[i]
    BY <1>9, <2>1
  <2>3. w = v
    BY <2>1, <2>2, SeqEqual
  <2> QED BY <2>3 DEF v, w
<1>11. InHand({"made"})' = InHand({"made"}) /\ InHand(under)' = InHand(under)
  <2>1. /\ InHand({"made"})' = {written[d] : d \in {e \in Clients : pc'[e] \in {"made"}}}
        /\ InHand(under)' = {written[d] : d \in {e \in Clients : pc'[e] \in under}}
    BY <1>1 DEF InHand
  <2>2. {e \in Clients : pc'[e] \in under} = {e \in Clients : pc[e] \in under}
    BY <1>1, <1>3
  <2>3. {e \in Clients : pc'[e] \in {"made"}} = {e \in Clients : pc[e] \in {"made"}}
    BY <1>1, <1>3
  <2> QED BY <2>1, <2>2, <2>3, Zenon DEF InHand
<1>12. NoneLeftCut' => NoneLeftCut
  <2> SUFFICES ASSUME NoneLeftCut', NEW i \in 1 .. n
               PROVE  file[i].whole \/ (i = n /\ \E d \in Clients : pc[d] = "writing")
    BY DEF NoneLeftCut
  <2>1. file'[i].whole
    BY <1>3, <1>6 DEF NoneLeftCut
  <2> QED BY <1>1, <1>8, <2>1
<1>13. Told'
  BY <1>1, <1>2 DEF Told
<1>14. FileAccounted'
  BY <1>1, <1>2, <1>10, <1>11, <1>12, Zenon DEF FileAccounted
<1>15. StreamAccounted'
  BY <1>1, <1>2, <1>11 DEF StreamAccounted
<1> QED BY <1>13, <1>14, <1>15 DEF RInv

\* The replicas are told what was in hand.
LEMMA PassOnAccounts ==
    ASSUME IInv, RInv, NEW c \in Clients, PassOn(c)
    PROVE  RInv'
<1> DEFINE under == {"made", "writing", "recorded"}
           n == Len(stream)
<1>1. /\ pc[c] = "recorded" /\ mode = "up" /\ pc' = [pc EXCEPT ![c] = "idle"]
      /\ written' = [written EXCEPT ![c] = Nothing]
      /\ stream' = Append(stream, written[c])
      /\ UNCHANGED <<mode, list, line, made, file, failures, stops>>
  BY DEF PassOn
<1>2. Told /\ FileAccounted /\ StreamAccounted /\ Typed
  BY DEF RInv, IInv
<1>3. /\ pc'[c] = "idle"
      /\ \A d \in Clients \ {c} : pc'[d] = pc[d] /\ written'[d] = written[d]
  BY <1>1, <1>2 DEF Typed
<1>4. written[c] \in Commands /\ written[c].id <= made
  BY <1>1, <1>2 DEF Typed, Busy, IInv, Numbered
<1>5. /\ n \in Nat /\ stream \in Seq(Commands) /\ stream' \in Seq(Commands)
      /\ Len(stream') = n + 1 /\ stream'[n + 1] = written[c]
      /\ \A i \in 1 .. n : stream'[i] = stream[i]
  BY <1>1, <1>2, <1>4 DEF Told
<1>6. \A i \in 1 .. n + 1 : i \in 1 .. n \/ i = n + 1
  BY <1>5
<1>7. Told'
  <2>1. \A i \in 1 .. n + 1 : stream'[i].id <= made
    BY <1>2, <1>4, <1>5, <1>6 DEF Told
  <2> QED BY <1>1, <1>2, <1>5, <2>1 DEF Told
<1>8. Range(stream') = Range(stream) \cup {written[c]}
  <2>1. DOMAIN stream = 1 .. n /\ DOMAIN stream' = 1 .. n + 1
    BY <1>5
  <2>2. n + 1 \in 1 .. n + 1 /\ \A i \in 1 .. n : i \in 1 .. n + 1
    BY <1>5
  <2> HIDE DEF n
  <2>3. ASSUME NEW y \in Range(stream') PROVE y \in Range(stream) \cup {written[c]}
    <3>1. PICK i \in 1 .. n + 1 : y = stream'[i]
      BY <2>1, <2>3 DEF Range
    <3> QED BY <1>5, <1>6, <2>1, <3>1 DEF Range
  <2>4. ASSUME NEW y \in Range(stream) PROVE y \in Range(stream')
    <3>1. PICK i \in 1 .. n : y = stream[i]
      BY <2>1, <2>4 DEF Range
    <3> QED BY <1>5, <2>1, <2>2, <3>1 DEF Range
  <2>5. written[c] \in Range(stream')
    BY <1>5, <2>1, <2>2 DEF Range
  <2> QED BY <2>3, <2>4, <2>5
<1>9. InHand({"made"})' = InHand({"made"})
  <2>1. InHand({"made"})' = {written'[d] : d \in {e \in Clients : pc'[e] \in {"made"}}}
    BY DEF InHand
  <2>2. ASSUME NEW y \in InHand({"made"})' PROVE y \in InHand({"made"})
    BY <1>3, <2>1, <2>2 DEF InHand
  <2>3. ASSUME NEW y \in InHand({"made"}) PROVE y \in InHand({"made"})'
    <3>1. PICK d \in Clients : pc[d] = "made" /\ y = written[d]
      BY <2>3 DEF InHand
    <3> QED BY <1>1, <1>3, <2>1, <3>1
  <2> QED BY <2>2, <2>3
<1>10. InHand(under)' \cup {written[c]} = InHand(under)
  <2>1. InHand(under)' = {written'[d] : d \in {e \in Clients : pc'[e] \in under}}
    BY DEF InHand
  <2>2. ASSUME NEW y \in InHand(under)' PROVE y \in InHand(under)
    <3>1. PICK d \in Clients : pc'[d] \in under /\ y = written'[d]
      BY <2>1, <2>2
    <3>2. d # c
      BY <1>3, <3>1
    <3> QED BY <1>3, <3>1, <3>2 DEF InHand
  <2>3. ASSUME NEW y \in InHand(under), y # written[c] PROVE y \in InHand(under)'
    <3>1. PICK d \in Clients : pc[d] \in under /\ y = written[d]
      BY <2>3 DEF InHand
    <3> QED BY <1>3, <2>1, <2>3, <3>1
  <2>4. written[c] \in InHand(under)
    BY <1>1 DEF InHand
  <2> QED BY <2>2, <2>3, <2>4
<1> HIDE DEF under
<1>11. FileAccounted'
  <2>1. NoneLeftCut' => NoneLeftCut
    <3>1. \A d \in Clients : pc'[d] = "writing" => pc[d] = "writing"
      BY <1>3
    <3> QED BY <1>1, <3>1 DEF NoneLeftCut
  <2> QED BY <1>1, <1>2, <1>9, <2>1, Zenon DEF FileAccounted
<1>12. StreamAccounted'
  <2> SUFFICES ASSUME failures = 0, stops = 0
               PROVE  \E h : Accounts(h, Range(stream'), InHand(under)', list)
    BY <1>1 DEF StreamAccounted, under
  <2>1. PICK h : Accounts(h, Range(stream), InHand(under), list)
    BY <1>1, <1>2 DEF StreamAccounted, under
  <2>2. Range(stream') \cup InHand(under)' = Range(stream) \cup InHand(under)
    BY <1>8, <1>10
  <2>3. Accounts(h, Range(stream'), InHand(under)', list)
    BY <2>1, <2>2, Zenon DEF Accounts
  <2> QED BY <2>3
<1> QED BY <1>7, <1>11, <1>12 DEF RInv

\* A client gets in line, or a record fails: nothing more is claimed.
LEMMA BlockOrFailAccounts ==
    ASSUME IInv, RInv, NEW c \in Clients, RecordFails(c) \/ (Blpop(c) /\ list = << >>)
    PROVE  RInv'
<1>1. Told /\ FileAccounted /\ StreamAccounted /\ Typed
  BY DEF RInv, IInv
<1>2. CASE RecordFails(c)
  <2>1. /\ failures' = failures + 1 /\ failures' # 0 /\ mode = "up" /\ failures' \in Nat
        /\ UNCHANGED <<mode, list, line, stream, made, stops>>
    BY <1>1, <1>2 DEF RecordFails, Told
  <2>2. Told'
    BY <1>1, <2>1 DEF Told
  <2> QED BY <2>1, <2>2 DEF RInv, FileAccounted, StreamAccounted
<1>3. CASE Blpop(c) /\ list = << >>
  <2>1. /\ mode = "up" /\ pc[c] = "idle" /\ list = << >>
        /\ pc' = [pc EXCEPT ![c] = "blocked"]
        /\ UNCHANGED <<written, made, list, mode, file, stream, failures, stops>>
    BY <1>3 DEF Blpop
  <2>2. pc'[c] = "blocked" /\ \A d \in Clients \ {c} : pc'[d] = pc[d]
    BY <1>1, <2>1 DEF Typed
  <2>3. ASSUME NEW states \in SUBSET {"made", "writing", "recorded"}
        PROVE  InHand(states)' = InHand(states)
    <3>1. InHand(states)' = {written[d] : d \in {e \in Clients : pc'[e] \in states}}
      BY <2>1 DEF InHand
    <3>2. {e \in Clients : pc'[e] \in states} = {e \in Clients : pc[e] \in states}
      BY <2>1, <2>2, <2>3
    <3> QED BY <3>1, <3>2, Zenon DEF InHand
  <2>4. InHand({"made"})' = InHand({"made"})
    BY <2>3
  <2>5. InHand({"made", "writing", "recorded"})' = InHand({"made", "writing", "recorded"})
    BY <2>3
  <2>6. NoneLeftCut' => NoneLeftCut
    <3>1. \A d \in Clients : pc'[d] = "writing" => pc[d] = "writing"
      BY <2>2
    <3> QED BY <2>1, <3>1 DEF NoneLeftCut
  <2>7. Told'
    BY <1>1, <2>1 DEF Told
  <2>8. FileAccounted'
    BY <1>1, <2>1, <2>4, <2>6, Zenon DEF FileAccounted
  <2>9. StreamAccounted'
    BY <1>1, <2>1, <2>5, Zenon DEF StreamAccounted
  <2> QED BY <2>7, <2>8, <2>9 DEF RInv
<1> QED BY <1>2, <1>3

\* A stop claims nothing but that nobody is left at work, and a start that
\* finds every record whole has just what they replay to.
LEMMA RestartAccounts ==
    ASSUME IInv, RInv, Stop \/ Start \/ Refuse
    PROVE  RInv'
<1>1. Told /\ FileAccounted /\ StreamAccounted /\ Typed
  BY DEF RInv, IInv
<1>2. CASE Stop
  <2>1. /\ mode' = "down" /\ stops' = stops + 1 /\ line' = << >>
        /\ pc' = [c \in Clients |-> "idle"] /\ stream' = << >>
        /\ UNCHANGED <<list, file, made, failures>>
    BY <1>2 DEF Stop
  <2>2. stops' \in Nat /\ stops' # 0 /\ \A c \in Clients : pc'[c] = "idle"
    BY <1>1, <2>1 DEF Told
  <2>3. stream' \in Seq(Commands) /\ Len(stream') = 0
    BY <2>1
  <2>4. Told'
    BY <1>1, <2>1, <2>2, <2>3 DEF Told
  <2> QED BY <2>1, <2>4 DEF RInv, FileAccounted, StreamAccounted
<1>3. CASE Refuse
  <2>1. mode # "up" /\ mode' # "up" /\ UNCHANGED <<list, line, pc, stream, made, failures, stops>>
    BY <1>3 DEF Refuse, tasks
  <2>2. Told'
    BY <1>1, <2>1 DEF Told
  <2> QED BY <2>1, <2>2 DEF RInv, FileAccounted, StreamAccounted
<1>4. CASE Start
  <2>1. /\ mode # "up" /\ mode' = "up"
        /\ UNCHANGED <<line, pc, written, file, stream, made, failures, stops>>
    BY <1>4 DEF Start, tasks
  <2>2. PICK records \in Recorded : list' = Replay(Words(records))
    BY <1>4 DEF Start
  <2>3. line = << >> /\ stops # 0 /\ \A c \in Clients : pc[c] = "idle"
    BY <1>1, <2>1 DEF Told
  <2>4. Told'
    BY <1>1, <2>1, <2>3 DEF Told
  <2>5. FileAccounted'
    <3> SUFFICES ASSUME NoneLeftCut', InOrder(Words(file))
                 PROVE  \E h : Accounts(h, Range(Words(file)), InHand({"made"})', list')
      BY <2>1 DEF FileAccounted
    <3>1. file \in Seq(Records) /\ DOMAIN file = 1 .. Len(file)
      BY <1>1 DEF Typed
    <3>2. \A i \in 1 .. Len(file) : file[i].whole
      BY <2>1, <2>3 DEF NoneLeftCut
    <3>3. Cut = {}
      BY <3>1, <3>2 DEF Cut
    <3>4. records = file
      BY <2>2, <3>3 DEF Recorded
    <3>5. InHand({"made"})' = {}
      BY <2>1, <2>3 DEF InHand
    <3>6. Words(file) \in Seq(Commands)
      BY <3>1, WordsAre
    <3>7. Accounts(Words(file), Range(Words(file)), InHand({"made"})', list')
      BY <2>2, <3>4, <3>5, <3>6 DEF Accounts
    <3> QED BY <3>7
  <2>6. StreamAccounted'
    BY <2>1, <2>3 DEF StreamAccounted
  <2> QED BY <2>4, <2>5, <2>6 DEF RInv
<1> QED BY <1>2, <1>3, <1>4

\* With nothing in hand, what accounts for the store is what was told, in order.
LEMMA AccountsTold ==
    ASSUME NEW h, NEW told \in Seq(Commands), NEW held, Accounts(h, Range(told), {}, held),
           InOrder(told)
    PROVE  Replay(told) = held
<1>1. h \in Seq(Commands) /\ InOrder(h) /\ Range(h) = Range(told) /\ Replay(h) = held
  BY DEF Accounts
<1>2. h = told
  BY <1>1, OrderedSame
<1> QED BY <1>1, <1>2

-----------------------------------------------------------------------------
\* A record made in the order of the store's writes replays to what the store
\* holds whenever no write is under way, none failed and none is cut short,
\* and so does what the replicas were told since the first start: of any
\* number of clients that push, pop and wait, over any number of restarts.
THEOREM OrderedWordsReplayAlways == Spec => []OrderedWordsReplay
<1>1. Init => RInv
  <2> SUFFICES ASSUME Init PROVE RInv
    OBVIOUS
  <2>1. Told
    BY DEF Init, Told
  <2>2. \A states \in SUBSET {"made", "writing", "recorded"} : InHand(states) = {}
    BY DEF Init, InHand
  <2>3. InHand({"made"}) = {} /\ InHand({"made", "writing", "recorded"}) = {}
    BY <2>2
  <2>4. Range(stream) = {} /\ list = << >>
    BY ReplayNone DEF Init
  <2>5. Range(Words(file)) = {}
    BY DEF Init, Words, Range
  <2>6. Accounts(<< >>, {}, {}, << >>)
    BY ReplayNone DEF Accounts
  <2> QED BY <2>1, <2>3, <2>4, <2>5, <2>6, Zenon DEF RInv, FileAccounted, StreamAccounted
<1>2. IInv /\ RInv /\ [Next]_vars => RInv'
  <2> SUFFICES ASSUME IInv, RInv, [Next]_vars PROVE RInv'
    OBVIOUS
  <2>1. Told
    BY DEF RInv
  <2>2. ASSUME NEW c \in Clients, Rpush(c) PROVE RInv'
    <3>1. CASE line = << >>
      <4>1. DoAgain(list, [op |-> "RPUSH", id |-> made + 1]) = Append(list, made + 1)
        BY DEF DoAgain
      <4> QED BY <2>2, <3>1, <4>1, MadeAccounts DEF Rpush
    <3>2. CASE line # << >>
      BY <2>2, <3>2, HandOverAccounts
    <3> QED BY <3>1, <3>2
  <2>3. DoAgain(list, [op |-> "LPOP", id |-> made + 1]) = IF list = << >> THEN list ELSE Tail(list)
    BY DEF DoAgain
  <2>4. ASSUME NEW c \in Clients, Lpop(c) PROVE RInv'
    BY <2>1, <2>3, <2>4, MadeAccounts DEF Lpop, Told
  <2>5. ASSUME NEW c \in Clients, Blpop(c) PROVE RInv'
    <3>1. CASE list = << >>
      BY <2>5, <3>1, BlockOrFailAccounts
    <3>2. CASE list # << >>
      BY <2>1, <2>3, <2>5, <3>2, MadeAccounts, Zenon DEF Blpop, Told
    <3> QED BY <3>1, <3>2
  <2>6. ASSUME NEW c \in Clients, BeginRecord(c) \/ EndRecord(c) \/ RecordFails(c) \/ PassOn(c)
        PROVE  RInv'
    BY <2>6, BeginRecordAccounts, EndRecordAccounts, BlockOrFailAccounts, PassOnAccounts
  <2>7. CASE Stop \/ Start \/ Refuse
    BY <2>7, RestartAccounts
  <2>8. CASE UNCHANGED vars
    BY <2>8, Zenon DEF vars, RInv, Told, FileAccounted, StreamAccounted, InHand, NoneLeftCut
  <2> QED BY <2>2, <2>4, <2>5, <2>6, <2>7, <2>8 DEF Next, Task
<1>3. IInv /\ RInv => OrderedWordsReplay
  <2> SUFFICES ASSUME IInv, RInv, Settled
               PROVE  /\ InOrder(Words(file)) => Replay(Words(file)) = list
                      /\ stops = 0 /\ InOrder(stream) => Replay(stream) = list
    BY DEF OrderedWordsReplay
  <2>1. /\ mode = "up" /\ failures = 0 /\ file \in Seq(Records) /\ stream \in Seq(Commands)
        /\ FileAccounted /\ StreamAccounted
    BY DEF Settled, RInv, IInv, Typed, Told
  <2>2. NoneLeftCut
    BY DEF Settled, Cut, NoneLeftCut, IInv, Typed
  <2>3. InHand({"made"}) = {} /\ InHand({"made", "writing", "recorded"}) = {}
    BY DEF Settled, InHand
  <2>4. Words(file) \in Seq(Commands)
    BY <2>1, WordsAre
  <2>5. ASSUME InOrder(Words(file)) PROVE Replay(Words(file)) = list
    <3>1. PICK h : Accounts(h, Range(Words(file)), {}, list)
      BY <2>1, <2>2, <2>3, <2>5, Zenon DEF FileAccounted
    <3> QED BY <2>4, <2>5, <3>1, AccountsTold
  <2>6. ASSUME stops = 0, InOrder(stream) PROVE Replay(stream) = list
    <3>1. PICK h : Accounts(h, Range(stream), {}, list)
      BY <2>1, <2>3, <2>6, Zenon DEF StreamAccounted
    <3> QED BY <2>1, <2>6, <3>1, AccountsTold
  <2> QED BY <2>5, <2>6
<1> QED BY <1>1, <1>2, <1>3, IInvAlways, PTL DEF Spec
=============================================================================
