------------------------- MODULE ReplicationProofs -------------------------
(***************************************************************************)
(* Proofs about Replication: the two counts of the stream agree, the       *)
(* master's reports are true, and WAIT counts nobody too early, for any    *)
(* clients, replicas, lengths and bound.                                   *)
(***************************************************************************)
EXTENDS Replication, CountingProofs

Message == {"change", "ask"}

-----------------------------------------------------------------------------
(* Bytes.                                                                  *)

Lens(messages) == [i \in DOMAIN messages |-> Length[messages[i]]]

LEMMA LensAreNumbers ==
    ASSUME NEW p \in Seq(Message)
    PROVE  Lens(p) \in Seq(Nat) /\ Len(Lens(p)) = Len(p) /\ Bytes(p) = SumFunction(Lens(p))
           /\ \A i \in 1 .. Len(p) : Lens(p)[i] = Length[p[i]] /\ Length[p[i]] \in Nat
<1>1. Len(p) \in Nat /\ DOMAIN p = 1 .. Len(p) /\ \A i \in 1 .. Len(p) : p[i] \in Message
  OBVIOUS
<1>2. \A m \in Message : Length[m] \in Nat
  BY ReplicationAssumption DEF Message
<1>3. Lens(p) = [i \in 1 .. Len(p) |-> Length[p[i]]]
  BY <1>1, Zenon DEF Lens
<1>4. \A i \in 1 .. Len(p) : Lens(p)[i] = Length[p[i]] /\ Length[p[i]] \in Nat
  BY <1>1, <1>2, <1>3
<1>5. Lens(p) \in Seq(Nat) /\ Len(Lens(p)) = Len(p)
  BY <1>1, <1>2, <1>3
<1>6. Bytes(p) = SumFunction(Lens(p))
  BY DEF Bytes, Lens
<1> QED BY <1>4, <1>5, <1>6

\* Nothing takes up no bytes.
LEMMA BytesOfNone == Bytes(<< >>) = 0
<1>1. << >> \in Seq(Message) /\ Len(<< >>) = 0
  OBVIOUS
<1> DEFINE f == Lens(<< >>)
           D == DOMAIN f
<1>2. D = {} /\ f \in [D -> Nat]
  BY <1>1 DEF Lens
<1>3. Bytes(<< >>) = SumFunction(f)
  BY <1>1, LensAreNumbers, Zenon
<1> HIDE DEF f, D
<1>4. SumFunction(f) = 0
  BY <1>2, SumOfNone, Zenon
<1> QED BY <1>3, <1>4

\* A message more takes up its length more.
LEMMA BytesOfAppend ==
    ASSUME NEW p \in Seq(Message), NEW m \in Message
    PROVE  Bytes(p) \in Nat /\ Bytes(Append(p, m)) = Bytes(p) + Length[m]
<1> DEFINE q == Append(p, m)
           a == Lens(q)
           b == Append(Lens(p), Length[m])
<1>1. /\ q \in Seq(Message) /\ Len(q) = Len(p) + 1 /\ q[Len(p) + 1] = m
      /\ \A i \in 1 .. Len(p) : q[i] = p[i]
  OBVIOUS
<1>2. Len(p) \in Nat /\ Length[m] \in Nat
  BY ReplicationAssumption DEF Message
<1> HIDE DEF q
<1>3. a \in Seq(Nat) /\ Len(a) = Len(q) /\ \A i \in 1 .. Len(q) : a[i] = Length[q[i]]
  BY <1>1, LensAreNumbers
<1>4. Lens(p) \in Seq(Nat) /\ Len(Lens(p)) = Len(p) /\ \A i \in 1 .. Len(p) : Lens(p)[i] = Length[p[i]]
  BY LensAreNumbers
<1>5. /\ b \in Seq(Nat) /\ Len(b) = Len(p) + 1 /\ b[Len(p) + 1] = Length[m]
      /\ \A i \in 1 .. Len(p) : b[i] = Length[p[i]]
  <2> DEFINE l == Lens(p)
  <2> HIDE DEF l
  <2>1. l \in Seq(Nat) /\ Len(l) = Len(p) /\ \A i \in 1 .. Len(p) : l[i] = Length[p[i]]
    BY <1>4 DEF l
  <2>2. /\ Append(l, Length[m]) \in Seq(Nat) /\ Len(Append(l, Length[m])) = Len(p) + 1
        /\ Append(l, Length[m])[Len(p) + 1] = Length[m]
        /\ \A i \in 1 .. Len(p) : Append(l, Length[m])[i] = l[i]
    BY <1>2, <2>1
  <2> QED BY <2>1, <2>2 DEF l
<1> HIDE DEF a, b
<1>6. \A i \in 1 .. Len(p) + 1 : a[i] = b[i]
  <2> TAKE i \in 1 .. Len(p) + 1
  <2>1. CASE i = Len(p) + 1
    BY <1>1, <1>2, <1>3, <1>5, <2>1
  <2>2. CASE i \in 1 .. Len(p)
    BY <1>1, <1>2, <1>3, <1>5, <2>2, Zenon
  <2> QED BY <1>2, <2>1, <2>2
<1>7. a = b
  <2> DEFINE n == Len(p) + 1
  <2>1. n \in Nat /\ Len(a) = n /\ Len(b) = n /\ \A i \in 1 .. n : a[i] = b[i]
    BY <1>1, <1>2, <1>3, <1>5, <1>6
  <2> HIDE DEF n
  <2> QED BY <1>3, <1>5, <2>1, SameSequence
<1>8. SumFunction(Lens(p)) \in Nat /\ SumFunction(b) = SumFunction(Lens(p)) + Length[m]
  BY <1>2, <1>4, SumOfAppend DEF b
<1>9. Bytes(p) = SumFunction(Lens(p)) /\ Bytes(q) = SumFunction(a)
  BY <1>1, LensAreNumbers DEF a
<1> QED BY <1>7, <1>8, <1>9 DEF q

\* A message read takes its length with it.
LEMMA BytesOfTail ==
    ASSUME NEW p \in Seq(Message), p # << >>
    PROVE  /\ Head(p) \in Message /\ Length[Head(p)] \in Nat
           /\ Bytes(Tail(p)) \in Nat /\ Bytes(p) = Length[Head(p)] + Bytes(Tail(p))
<1> DEFINE q == Tail(p)
           s == Lens(p)
           a == Lens(q)
           b == Tail(s)
<1>1. Len(p) \in Nat /\ Len(p) # 0 /\ Head(p) = p[1] /\ p[1] \in Message
  OBVIOUS
<1>2. q \in Seq(Message) /\ Len(q) = Len(p) - 1 /\ \A i \in 1 .. Len(p) - 1 : q[i] = p[i + 1]
  OBVIOUS
<1> HIDE DEF q
<1>3. s \in Seq(Nat) /\ Len(s) = Len(p) /\ \A i \in 1 .. Len(p) : s[i] = Length[p[i]]
  BY LensAreNumbers
<1>4. a \in Seq(Nat) /\ Len(a) = Len(q) /\ \A i \in 1 .. Len(q) : a[i] = Length[q[i]]
  BY <1>2, LensAreNumbers
<1> HIDE DEF s, a
<1>5. s # << >>
  <2>1. Len(<< >>) = 0
    OBVIOUS
  <2> QED BY <1>1, <1>3, <2>1, Zenon
<1>6. Head(s) = s[1] /\ b \in Seq(Nat) /\ Len(b) = Len(s) - 1 /\ \A i \in 1 .. Len(s) - 1 : b[i] = s[i + 1]
  BY <1>3, <1>5
<1> HIDE DEF b
<1>7. a = b
  <2> DEFINE n == Len(p) - 1
  <2>1. n \in Nat /\ Len(a) = n /\ Len(b) = n
    BY <1>1, <1>2, <1>3, <1>4, <1>6
  <2>2. \A i \in 1 .. n : a[i] = b[i]
    <3> TAKE i \in 1 .. n
    <3>1. i + 1 \in 1 .. Len(p) /\ i \in 1 .. Len(p) - 1 /\ Len(s) = Len(p) /\ Len(q) = Len(p) - 1
      BY <1>1, <1>2, <1>3
    <3>2. a[i] = Length[p[i + 1]]
      BY <1>2, <1>4, <3>1
    <3>3. b[i] = Length[p[i + 1]]
      BY <1>3, <1>6, <3>1
    <3> QED BY <3>2, <3>3
  <2> HIDE DEF n
  <2> QED BY <1>4, <1>6, <2>1, <2>2, SameSequence
<1>8. Head(s) \in Nat /\ SumFunction(b) \in Nat /\ SumFunction(s) = Head(s) + SumFunction(b)
  BY <1>3, <1>5, SumOfTail DEF b
<1>9. Bytes(p) = SumFunction(s) /\ Bytes(q) = SumFunction(a)
  BY <1>2, LensAreNumbers DEF s, a
<1>10. Head(s) = Length[Head(p)]
  BY <1>1, <1>3, <1>6
<1> QED BY <1>1, <1>7, <1>8, <1>9, <1>10 DEF q

-----------------------------------------------------------------------------
(* The inductive invariant.  CountsAgree and WaitCountsTrue are not        *)
(* inductive as they stand: the one is settled before the replica is       *)
(* followed, when PSYNC reads the offset; the other when WAIT begins.      *)

Typed ==
    /\ offset \in Nat
    /\ following \subseteq Replicas
    /\ link \in [Replicas -> {"away", "agreed", "handed", "open", "dead"}]
    /\ pipe \in [Replicas -> Seq(Message)]
    /\ acks \in [Replicas -> Seq(Nat)]
    /\ position \in [Replicas -> Nat]
    /\ reached \in [Replicas -> Nat]
    /\ missed \in [Replicas -> Nat]
    /\ pc \in [Clients -> {"idle", "sent", "asking", "asked", "loop", "looking",
                        "counted", "parked"}]
    /\ passed \in [Clients -> Nat]
    /\ target \in [Clients -> Nat]
    /\ blur \in [Clients -> Nat]
    /\ due \in [Clients -> [Replicas -> Nat]]

\* Only between the two steps of a send is anything queued and not counted.
NothingOwed == \A c \in Clients : pc[c] \notin {"sent", "asked"} => passed[c] = 0

\* A replica that is not followed has nothing on its way in either direction.
Apart ==
    \A r \in Replicas :
        /\ link[r] \in {"open", "dead"} <=> r \in following
        /\ r \notin following => pipe[r] = << >> /\ acks[r] = << >> /\ reached[r] = 0

\* CountsAgree, from the moment PSYNC reads the offset.
Agree ==
    \A r \in Replicas : link[r] # "away" =>
        position[r] + Bytes(pipe[r]) + missed[r] = offset + Pending

\* ReportsAreTrue, in terms of pairs.
Reports(first, between, last) ==
    /\ first <= last
    /\ \A i \in 1 .. Len(between) : first <= between[i] /\ between[i] <= last
    /\ \A i \in 1 .. Len(between) : \A j \in 1 .. Len(between) :
           i < j => between[i] <= between[j]

InOrder == \A r \in Replicas : Reports(reached[r], acks[r], position[r])

\* What a WAIT is due was in the offset it read, or queued and not counted.
DueIsTold == \A c \in Clients : \A r \in Replicas : due[c][r] <= target[c] + blur[c]

IInv == Typed /\ NothingOwed /\ Apart /\ Agree /\ InOrder /\ DueIsTold

LEMMA PendingIsNat == Typed => Pending \in Nat
  BY ReplicationAssumption, SumIsNat DEF Typed, Pending

\* What a client has queued and not counted is part of what is pending.
LEMMA PendingChanges ==
    ASSUME Typed, NEW c \in Clients, NEW v \in Nat, passed' = [passed EXCEPT ![c] = v]
    PROVE  Pending \in Nat /\ passed[c] \in Nat /\ Pending' = Pending - passed[c] + v
<1>1. IsFiniteSet(Clients) /\ passed \in [Clients -> Nat]
  BY ReplicationAssumption DEF Typed
<1>2. SumFunction(passed) \in Nat /\ SumFunction([passed EXCEPT ![c] = v]) = SumFunction(passed) - passed[c] + v
  BY <1>1, SumChanges, Zenon
<1> QED BY <1>1, <1>2 DEF Pending

\* Nothing that the counts are about has changed.
LEMMA CountsUntouched ==
    IInv /\ UNCHANGED <<master, replica, passed>> => Apart' /\ Agree' /\ InOrder'
<1> SUFFICES ASSUME IInv, UNCHANGED <<master, replica, passed>> PROVE Apart' /\ Agree' /\ InOrder'
  OBVIOUS
<1> USE DEF IInv, master, replica
<1>1. Apart'
  BY DEF Apart
<1>2. Agree'
  <2>1. Pending' = Pending
    BY DEF Pending
  <2> QED BY <2>1 DEF Agree
<1>3. InOrder'
  BY DEF InOrder
<1> QED BY <1>1, <1>2, <1>3

LEMMA InitHolds == Init => IInv
<1> SUFFICES ASSUME Init PROVE IInv
  OBVIOUS
<1> USE DEF Init
<1>0. << >> \in Seq(Message) /\ << >> \in Seq(Nat) /\ Len(<< >>) = 0
  OBVIOUS
<1>1. Typed
  BY <1>0 DEF Typed
<1>2. NothingOwed
  BY DEF NothingOwed
<1>3. Apart
  BY DEF Apart
<1>4. Agree
  BY DEF Agree
<1>5. InOrder
  <2>1. \A r \in Replicas : reached[r] = 0 /\ acks[r] = << >> /\ position[r] = 0
    OBVIOUS
  <2>2. Reports(0, << >>, 0)
    BY <1>0 DEF Reports
  <2> QED BY <2>1, <2>2 DEF InOrder
<1>6. DueIsTold
  BY DEF DueIsTold
<1> QED BY <1>1, <1>2, <1>3, <1>4, <1>5, <1>6 DEF IInv

-----------------------------------------------------------------------------
(* Clients.                                                                *)

\* Replicas::send adds as much to what is yet to be counted as it adds to the
\* pipe of a replica that is followed, or to what one that is joining misses.
LEMMA SendKeeps ==
    ASSUME IInv, NEW c \in Clients, NEW message \in Message, passed[c] = 0,
           Send(c, message)
    PROVE  /\ passed' \in [Clients -> Nat] /\ \A d \in Clients : d # c => passed'[d] = passed[d]
           /\ pipe' \in [Replicas -> Seq(Message)] /\ missed' \in [Replicas -> Nat]
           /\ Apart' /\ Agree' /\ InOrder'
<1> DEFINE taken == IF following = {} THEN 0 ELSE Length[message]
<1> USE DEF IInv
<1>1. Length[message] \in Nat /\ taken \in Nat
  BY ReplicationAssumption DEF Message
<1> HIDE DEF taken
<1>2. Queue(c, message, taken)
  BY DEF Send, taken
<1>3. passed' = [passed EXCEPT ![c] = taken]
  BY <1>2 DEF Queue
<1>4. UNCHANGED <<offset, following, link, position, acks, reached>>
  BY <1>2 DEF Queue
<1>5. pipe' \in [Replicas -> Seq(Message)] /\ missed' \in [Replicas -> Nat]
  BY <1>1, <1>2 DEF Queue, Typed
<1>6. Pending' = Pending + taken /\ Pending \in Nat
  <2>1. Pending \in Nat /\ Pending' = Pending - passed[c] + taken
    BY <1>1, <1>3, PendingChanges, Zenon
  <2> QED BY <1>1, <2>1
<1>7. Apart'
  BY <1>2, <1>4 DEF Apart, Queue, Typed
<1>8. InOrder'
  BY <1>4 DEF InOrder
<1>9. Agree'
  <2> SUFFICES ASSUME NEW r \in Replicas, link[r] # "away"
               PROVE  position[r] + Bytes(pipe'[r]) + missed'[r] = offset + Pending'
    BY <1>4 DEF Agree
  <2>1. /\ position[r] \in Nat /\ missed[r] \in Nat /\ offset \in Nat /\ pipe[r] \in Seq(Message)
        /\ position[r] + Bytes(pipe[r]) + missed[r] = offset + Pending
    BY DEF Typed, Agree
  <2>2. Bytes(pipe[r]) \in Nat /\ Bytes(Append(pipe[r], message)) = Bytes(pipe[r]) + Length[message]
    BY <2>1, BytesOfAppend
  <2> DEFINE was == Bytes(pipe[r])
             is == Bytes(pipe'[r])
             owed == Pending
             owing == Pending'
  <2> SUFFICES position[r] + is + missed'[r] = offset + owing
    OBVIOUS
  <2>3. /\ position[r] \in Nat /\ missed[r] \in Nat /\ offset \in Nat /\ was \in Nat /\ owed \in Nat
        /\ taken \in Nat /\ owing = owed + taken /\ position[r] + was + missed[r] = offset + owed
    BY <1>1, <1>6, <2>1, <2>2
  <2>4. CASE r \in following
    <3>1. link[r] \notin {"agreed", "handed"}
      BY <2>4 DEF Apart, IInv
    <3>2. pipe'[r] = Append(pipe[r], message) /\ missed'[r] = missed[r]
      BY <1>2, <2>4, <3>1 DEF Queue
    <3>3. taken = Length[message]
      BY <2>4 DEF taken
    <3>4. is = was + taken
      BY <2>2, <3>2, <3>3, Zenon
    <3>5. missed'[r] = missed[r]
      BY <3>2
    <3> HIDE DEF is, was, owed, owing, IInv
    <3> QED BY <2>3, <3>4, <3>5
  <2>5. CASE r \notin following
    <3>1. link[r] \in {"agreed", "handed"}
      BY <2>5 DEF Apart, Typed, IInv
    <3>2. pipe'[r] = pipe[r] /\ missed'[r] = missed[r] + taken
      BY <1>2, <2>5, <3>1 DEF Queue
    <3>3. is = was
      BY <3>2, Zenon
    <3>4. missed'[r] = missed[r] + taken
      BY <3>2
    <3> HIDE DEF is, was, owed, owing, IInv
    <3> QED BY <2>3, <3>3, <3>4
  <2> QED BY <2>4, <2>5
<1> QED BY <1>1, <1>3, <1>5, <1>7, <1>8, <1>9 DEF Typed

LEMMA WriteKeeps == ASSUME IInv, NEW c \in Clients, Write(c) PROVE IInv'
<1> USE DEF IInv
<1>1. passed[c] = 0 /\ Send(c, "change") /\ "change" \in Message
  BY DEF Write, NothingOwed, Message
<1>2. /\ passed' \in [Clients -> Nat] /\ \A d \in Clients : d # c => passed'[d] = passed[d]
      /\ pipe' \in [Replicas -> Seq(Message)] /\ missed' \in [Replicas -> Nat]
      /\ Apart' /\ Agree' /\ InOrder'
  BY <1>1, SendKeeps
<1>3. UNCHANGED <<offset, following, link, position, acks, reached, target, due, blur>>
  BY <1>1 DEF Write, Send, Queue
<1>4. Typed'
  BY <1>2, <1>3, Zenon DEF Write, Goto, Typed
<1>5. NothingOwed'
  BY <1>2 DEF Write, Goto, NothingOwed, Typed
<1>6. DueIsTold'
  BY <1>3 DEF DueIsTold
<1> QED BY <1>2, <1>4, <1>5, <1>6

LEMMA AskKeeps == ASSUME IInv, NEW c \in Clients, Ask(c) PROVE IInv'
<1> USE DEF IInv
<1>1. passed[c] = 0 /\ Send(c, "ask") /\ "ask" \in Message
  BY DEF Ask, NothingOwed, Message
<1>2. /\ passed' \in [Clients -> Nat] /\ \A d \in Clients : d # c => passed'[d] = passed[d]
      /\ pipe' \in [Replicas -> Seq(Message)] /\ missed' \in [Replicas -> Nat]
      /\ Apart' /\ Agree' /\ InOrder'
  BY <1>1, SendKeeps
<1>3. UNCHANGED <<offset, following, link, position, acks, reached, target, due, blur>>
  BY <1>1 DEF Ask, Send, Queue
<1>4. Typed'
  BY <1>2, <1>3, Zenon DEF Ask, Goto, Typed
<1>5. NothingOwed'
  BY <1>2 DEF Ask, Goto, NothingOwed, Typed
<1>6. DueIsTold'
  BY <1>3 DEF DueIsTold
<1> QED BY <1>2, <1>4, <1>5, <1>6

\* Replication::advance moves bytes from one to the other of what it adds up.
LEMMA AdvanceKeeps ==
    ASSUME IInv, NEW c \in Clients, Advance(c), NEW there \in {"idle", "loop"}, Goto(c, there)
    PROVE  IInv'
<1> USE DEF IInv
<1>1. passed[c] \in Nat /\ offset \in Nat
  BY DEF Typed
<1>2. Pending' = Pending - passed[c] /\ Pending \in Nat /\ offset' = offset + passed[c]
  <2>1. passed' = [passed EXCEPT ![c] = 0] /\ 0 \in Nat
    BY DEF Advance
  <2>2. Pending \in Nat /\ Pending' = Pending - passed[c] + 0
    BY <2>1, PendingChanges, Zenon
  <2> QED BY <1>1, <2>2 DEF Advance
<1>3. offset' + Pending' = offset + Pending
  BY <1>1, <1>2
<1>4. UNCHANGED <<following, link, pipe, position, acks, reached, missed, target, due, blur>>
  BY DEF Advance, replica
<1>5. Typed'
  <2>1. offset' \in Nat
    BY <1>1, <1>2
  <2>2. passed' \in [Clients -> Nat]
    BY DEF Advance, Typed
  <2>3. pc' \in [Clients -> {"idle", "sent", "asking", "asked", "loop", "looking",
                           "counted", "parked"}]
    BY DEF Goto, Typed
  <2> QED BY <1>4, <2>1, <2>2, <2>3 DEF Typed
<1>6. NothingOwed'
  BY DEF Advance, Goto, NothingOwed, Typed
<1>7. Apart'
  BY <1>4 DEF Apart
<1>8. Agree'
  BY <1>3, <1>4 DEF Agree
<1>9. InOrder' /\ DueIsTold'
  BY <1>4 DEF InOrder, DueIsTold
<1> QED BY <1>5, <1>6, <1>7, <1>8, <1>9

\* What was queued before WAIT began is in the offset it reads, or pending.
LEMMA WaitKeeps ==
    ASSUME IInv, NEW c \in Clients, NEW n, Wait(c, n)
    PROVE  IInv'
<1> USE DEF IInv
<1> DEFINE queued == [r \in Replicas |-> IF r \in following THEN position[r] + Bytes(pipe[r]) ELSE 0]
<1>1. Pending \in Nat /\ offset \in Nat
  BY PendingIsNat DEF Typed
<1>2. ASSUME NEW r \in Replicas PROVE queued[r] \in Nat /\ queued[r] <= offset + Pending
  <2>1. CASE r \in following
    <3>1. /\ position[r] \in Nat /\ missed[r] \in Nat /\ pipe[r] \in Seq(Message)
          /\ position[r] + Bytes(pipe[r]) + missed[r] = offset + Pending
      BY <2>1, Zenon DEF Typed, Agree, Apart
    <3>2. Bytes(pipe[r]) \in Nat
      <4>1. "ask" \in Message
        BY DEF Message
      <4> QED BY <3>1, <4>1, BytesOfAppend
    <3> QED BY <1>1, <2>1, <3>1, <3>2
  <2>2. CASE r \notin following
    BY <1>1, <2>2
  <2> QED BY <2>1, <2>2
<1>3. queued \in [Replicas -> Nat]
  BY <1>2
<1>4. due' = [due EXCEPT ![c] = queued]
  BY DEF Wait
<1> HIDE DEF queued
<1>5. /\ target' = [target EXCEPT ![c] = offset] /\ blur' = [blur EXCEPT ![c] = Pending]
      /\ pc' = [pc EXCEPT ![c] = "asking"] /\ pc[c] = "idle"
      /\ UNCHANGED <<master, replica, passed>>
  BY DEF Wait, Goto
<1>6. Typed'
  BY <1>1, <1>3, <1>4, <1>5 DEF Typed, master, replica
<1>7. NothingOwed'
  BY <1>5 DEF NothingOwed, Typed
<1>8. DueIsTold'
  <2> SUFFICES ASSUME NEW d \in Clients, NEW r \in Replicas
               PROVE  due'[d][r] <= target'[d] + blur'[d]
    BY DEF DueIsTold
  <2>1. CASE d = c
    <3>1. due'[d] = queued /\ target'[d] = offset /\ blur'[d] = Pending
      BY <1>4, <1>5, <2>1 DEF Typed
    <3> QED BY <1>2, <3>1
  <2>2. CASE d # c
    <3>1. due'[d] = due[d] /\ target'[d] = target[d] /\ blur'[d] = blur[d]
      BY <1>4, <1>5, <2>2 DEF Typed
    <3> QED BY <3>1 DEF DueIsTold
  <2> QED BY <2>1, <2>2
<1> QED BY <1>5, <1>6, <1>7, <1>8, CountsUntouched

\* The steps of a WAIT that only look, and the answer.
LEMMA LookKeeps ==
    ASSUME IInv, NEW c \in Clients,
           MakeFuture(c) \/ Count(c) \/ Park(c) \/ Woken(c) \/ TimedOut(c)
    PROVE  IInv'
<1> USE DEF IInv
<1>1. UNCHANGED <<master, replica, passed>>
  BY DEF MakeFuture, Count, Park, Woken, TimedOut, Answer
<1>2. CASE \E there \in {"looking", "counted", "parked", "loop"} :
               Goto(c, there) /\ pc[c] \notin {"sent", "asked"} /\ UNCHANGED <<target, due, blur>>
  <2>1. Typed'
    BY <1>1, <1>2 DEF Typed, Goto, master, replica
  <2>2. NothingOwed'
    BY <1>1, <1>2 DEF NothingOwed, Goto, Typed
  <2>3. DueIsTold'
    BY <1>2 DEF DueIsTold
  <2> QED BY <1>1, <2>1, <2>2, <2>3, CountsUntouched
<1>3. CASE Answer(c) /\ pc[c] \notin {"sent", "asked"}
  <2> DEFINE none == [r \in Replicas |-> 0]
  <2>1. /\ pc' = [pc EXCEPT ![c] = "idle"] /\ target' = [target EXCEPT ![c] = 0]
        /\ blur' = [blur EXCEPT ![c] = 0] /\ due' = [due EXCEPT ![c] = none]
    BY <1>3 DEF Answer, Goto
  <2>2. none \in [Replicas -> Nat] /\ \A r \in Replicas : none[r] = 0
    OBVIOUS
  <2> HIDE DEF none
  <2>3. Typed'
    BY <1>1, <2>1, <2>2 DEF Typed, master, replica
  <2>4. NothingOwed'
    BY <1>1, <1>3, <2>1 DEF NothingOwed, Typed
  <2>5. DueIsTold'
    <3> SUFFICES ASSUME NEW d \in Clients, NEW r \in Replicas
                 PROVE  due'[d][r] <= target'[d] + blur'[d]
      BY DEF DueIsTold
    <3>1. CASE d = c
      BY <2>1, <2>2, <3>1 DEF Typed
    <3>2. CASE d # c
      <4>1. due'[d] = due[d] /\ target'[d] = target[d] /\ blur'[d] = blur[d]
        BY <2>1, <3>2 DEF Typed
      <4> QED BY <4>1 DEF DueIsTold
    <3> QED BY <3>1, <3>2
  <2> QED BY <1>1, <2>3, <2>4, <2>5, CountsUntouched
<1>4. MakeFuture(c) \/ Park(c) \/ Woken(c) =>
          \E there \in {"looking", "counted", "parked", "loop"} :
               Goto(c, there) /\ pc[c] \notin {"sent", "asked"} /\ UNCHANGED <<target, due, blur>>
  BY DEF MakeFuture, Park, Woken
<1>5. Count(c) => \/ Answer(c) /\ pc[c] \notin {"sent", "asked"}
                  \/ Goto(c, "counted") /\ pc[c] \notin {"sent", "asked"} /\ UNCHANGED <<target, due, blur>>
  BY DEF Count
<1>6. TimedOut(c) => Answer(c) /\ pc[c] \notin {"sent", "asked"}
  BY DEF TimedOut
<1> QED BY <1>2, <1>3, <1>4, <1>5, <1>6

-----------------------------------------------------------------------------
(* Replicas.                                                               *)

\* PSYNC: what is pending when the offset is read will be counted by the master
\* alone.
LEMMA PsyncKeeps == ASSUME IInv, NEW r \in Replicas, Psync(r) PROVE IInv'
<1> USE DEF IInv
<1>1. Pending \in Nat /\ offset \in Nat
  BY PendingIsNat DEF Typed
<1>2. /\ link[r] = "away" /\ link' = [link EXCEPT ![r] = "agreed"]
      /\ position' = [position EXCEPT ![r] = offset] /\ missed' = [missed EXCEPT ![r] = Pending]
      /\ UNCHANGED <<offset, following, pipe, acks, reached, pc, passed, target, due, blur>>
  BY DEF Psync, master, client
<1>3. r \notin following /\ pipe[r] = << >> /\ acks[r] = << >> /\ reached[r] = 0
  BY <1>2 DEF Apart
<1>4. Typed'
  BY <1>1, <1>2 DEF Typed
<1>5. NothingOwed' /\ DueIsTold'
  BY <1>2 DEF NothingOwed, DueIsTold
<1>6. Apart'
  BY <1>2, <1>3 DEF Apart, Typed
<1>7. Agree'
  <2>1. Pending' = Pending
    BY <1>2 DEF Pending
  <2> SUFFICES ASSUME NEW s \in Replicas, link'[s] # "away"
               PROVE  position'[s] + Bytes(pipe[s]) + missed'[s] = offset + Pending
    BY <1>2, <2>1 DEF Agree
  <2>2. CASE s = r
    <3>1. position'[s] = offset /\ missed'[s] = Pending
      BY <1>2, <2>2 DEF Typed
    <3>2. Bytes(pipe[s]) = 0
      BY <1>3, <2>2, BytesOfNone, Zenon
    <3> QED BY <1>1, <3>1, <3>2
  <2>3. CASE s # r
    BY <1>2, <2>3 DEF Agree, Typed
  <2> QED BY <2>2, <2>3
<1>8. InOrder'
  <2> SUFFICES ASSUME NEW s \in Replicas PROVE Reports(reached[s], acks[s], position'[s])
    BY <1>2 DEF InOrder
  <2>1. CASE s = r
    <3>1. position'[s] = offset
      BY <1>2, <2>1 DEF Typed
    <3>2. Len(<< >>) = 0
      OBVIOUS
    <3>3. Reports(0, << >>, offset)
      BY <1>1, <3>2 DEF Reports
    <3> QED BY <1>3, <2>1, <3>1, <3>3
  <2>2. CASE s # r
    BY <1>2, <2>2 DEF InOrder, Typed
  <2> QED BY <2>1, <2>2
<1> QED BY <1>4, <1>5, <1>6, <1>7, <1>8

\* A connection moves on, with nothing counted.
LEMMA LinkKeeps ==
    ASSUME IInv, NEW r \in Replicas, HandDataset(r) \/ Add(r) \/ Die(r)
    PROVE  IInv'
<1> USE DEF IInv
<1>1. UNCHANGED <<offset, pipe, position, acks, reached, missed, pc, passed, target, due, blur>>
  BY DEF HandDataset, Add, Die, master, client
<1>2. /\ link[r] # "away" /\ \A s \in Replicas : link'[s] = "away" <=> link[s] = "away"
      /\ link' \in [Replicas -> {"away", "agreed", "handed", "open", "dead"}]
  BY Zenon DEF HandDataset, Add, Die, Typed
<1>3. following' \subseteq Replicas /\ following \subseteq following'
  BY DEF HandDataset, Add, Die, master, Typed
<1>4. Typed'
  BY <1>1, <1>2, <1>3 DEF Typed
<1>5. NothingOwed' /\ DueIsTold' /\ InOrder'
  BY <1>1 DEF NothingOwed, DueIsTold, InOrder
<1>6. Apart'
  <2>1. \A s \in Replicas : link'[s] \in {"open", "dead"} <=> s \in following'
    BY DEF HandDataset, Add, Die, master, Typed, Apart
  <2> QED BY <1>1, <1>3, <2>1, Zenon DEF Apart
<1>7. Agree'
  <2>1. Pending' = Pending
    BY <1>1 DEF Pending
  <2> QED BY <1>1, <1>2, <2>1 DEF Agree
<1> QED BY <1>4, <1>5, <1>6, <1>7

\* keep_up: what is read leaves the pipe and joins the replica's count, and a
\* report is of the count so far.
LEMMA TakeKeeps == ASSUME IInv, NEW r \in Replicas, Take(r) PROVE IInv'
<1> USE DEF IInv
<1> DEFINE m == Head(pipe[r])
           n == Length[m]
<1>1. link[r] = "open" /\ pipe[r] # << >> /\ pipe[r] \in Seq(Message) /\ acks[r] \in Seq(Nat)
  BY DEF Take, Read, Typed
<1>2. n \in Nat /\ Bytes(Tail(pipe[r])) \in Nat /\ Bytes(pipe[r]) = n + Bytes(Tail(pipe[r]))
  BY <1>1, BytesOfTail
<1>3. /\ pipe' = [pipe EXCEPT ![r] = Tail(@)] /\ position' = [position EXCEPT ![r] = @ + n]
      /\ acks' = IF m = "ask" THEN [acks EXCEPT ![r] = Append(@, position[r])] ELSE acks
      /\ UNCHANGED <<offset, following, link, reached, missed, pc, passed, target, due, blur>>
  BY DEF Take, Read, master, client
<1> HIDE DEF m, n
<1>4. Tail(pipe[r]) \in Seq(Message) /\ position[r] \in Nat /\ Append(acks[r], position[r]) \in Seq(Nat)
  BY <1>1 DEF Typed
<1>5. Typed'
  <2>1. pipe' \in [Replicas -> Seq(Message)]
    BY <1>3, <1>4 DEF Typed
  <2>2. acks' \in [Replicas -> Seq(Nat)]
    BY <1>3, <1>4 DEF Typed
  <2>3. position' \in [Replicas -> Nat]
    BY <1>2, <1>3, <1>4 DEF Typed
  <2> QED BY <1>3, <2>1, <2>2, <2>3, Zenon DEF Typed
<1>6. NothingOwed' /\ DueIsTold'
  BY <1>3 DEF NothingOwed, DueIsTold
<1>7. Apart'
  <2>1. r \in following
    BY <1>1 DEF Apart
  <2> QED BY <1>3, <2>1 DEF Apart, Typed
<1>8. Agree'
  <2>1. Pending' = Pending
    BY <1>3 DEF Pending
  <2> SUFFICES ASSUME NEW s \in Replicas, link[s] # "away"
               PROVE  position'[s] + Bytes(pipe'[s]) + missed[s] = offset + Pending
    BY <1>3, <2>1 DEF Agree
  <2>2. position[s] + Bytes(pipe[s]) + missed[s] = offset + Pending
    BY DEF Agree
  <2>3. CASE s = r
    <3> DEFINE is == Bytes(pipe'[r])
               was == Bytes(pipe[r])
               total == offset + Pending
    <3>1. position'[r] = position[r] + n /\ position[r] \in Nat /\ missed[r] \in Nat
      BY <1>3 DEF Typed
    <3>2. pipe'[r] = Tail(pipe[r])
      BY <1>3 DEF Typed
    <3>3. n \in Nat /\ is \in Nat /\ was = n + is
      BY <1>2, <3>2, Zenon
    <3>4. position[r] + was + missed[r] = total
      BY <2>2, <2>3
    <3> HIDE DEF is, was, total, IInv
    <3>5. position'[r] + is + missed[r] = total
      BY <3>1, <3>3, <3>4
    <3> QED BY <2>3, <3>5 DEF is, total
  <2>4. CASE s # r
    BY <1>3, <2>2, <2>4 DEF Typed
  <2> QED BY <2>3, <2>4
<1>9. InOrder'
  <2> SUFFICES ASSUME NEW s \in Replicas PROVE Reports(reached[s], acks'[s], position'[s])
    BY <1>3 DEF InOrder
  <2>1. Reports(reached[s], acks[s], position[s])
    BY DEF InOrder
  <2>2. CASE s = r
    <3>1. position'[r] = position[r] + n /\ position[r] \in Nat /\ reached[r] \in Nat
      BY <1>3 DEF Typed
    <3> DEFINE a == acks[r]
               p == position[r]
    <3>2. a \in Seq(Nat) /\ p \in Nat /\ reached[r] \in Nat /\ Reports(reached[r], a, p)
      BY <1>1, <2>1, <2>2, <3>1
    <3> HIDE DEF a, p
    <3>3. Reports(reached[r], a, p + n)
      BY <1>2, <3>2 DEF Reports
    <3>4. Reports(reached[r], Append(a, p), p + n)
      <4> DEFINE b == Append(a, p)
      <4>1. Len(a) \in Nat /\ Len(b) = Len(a) + 1 /\ b[Len(a) + 1] = p /\ \A i \in 1 .. Len(a) : b[i] = a[i] /\ a[i] \in Nat
        BY <3>2
      <4> HIDE DEF b
      <4>2. ASSUME NEW i \in 1 .. Len(b)
            PROVE  b[i] \in Nat /\ reached[r] <= b[i] /\ b[i] <= p
        <5>1. CASE i = Len(a) + 1
          BY <3>2, <4>1, <5>1 DEF Reports
        <5>2. CASE i \in 1 .. Len(a)
          BY <3>2, <4>1, <5>2 DEF Reports
        <5> QED BY <4>1, <5>1, <5>2
      <4>3. ASSUME NEW i \in 1 .. Len(b), NEW j \in 1 .. Len(b), i < j PROVE b[i] <= b[j]
        <5>1. i \in 1 .. Len(a)
          BY <4>1, <4>3
        <5>2. CASE j = Len(a) + 1
          BY <4>1, <4>2, <5>2
        <5>3. CASE j \in 1 .. Len(a)
          BY <3>2, <4>1, <4>3, <5>1, <5>3 DEF Reports
        <5> QED BY <4>1, <5>2, <5>3
      <4>4. \A i \in 1 .. Len(b) : reached[r] <= b[i] /\ b[i] <= p + n
        BY <1>2, <3>2, <4>2
      <4>5. reached[r] <= p + n
        BY <3>3 DEF Reports
      <4>6. Reports(reached[r], b, p + n)
        BY <4>3, <4>4, <4>5 DEF Reports
      <4> QED BY <4>6 DEF b
    <3>5. acks'[r] = a \/ acks'[r] = Append(a, p)
      BY <1>3 DEF a, p, Typed
    <3>6. position'[r] = p + n
      BY <3>1 DEF p
    <3> QED BY <2>2, <3>3, <3>4, <3>5, <3>6, Zenon
  <2>3. CASE s # r
    BY <1>3, <2>1, <2>3 DEF Typed
  <2> QED BY <2>2, <2>3
<1> QED BY <1>5, <1>6, <1>7, <1>8, <1>9

\* Following::reached: reports are read in the order they were made.
LEMMA HearAckKeeps == ASSUME IInv, NEW r \in Replicas, HearAck(r) PROVE IInv'
<1> USE DEF IInv
<1> DEFINE a == acks[r]
<1>1. r \in following /\ a # << >> /\ a \in Seq(Nat)
  BY DEF HearAck, Note, Typed
<1>2. /\ reached' = [reached EXCEPT ![r] = Head(a)] /\ acks' = [acks EXCEPT ![r] = Tail(a)]
      /\ UNCHANGED <<offset, following, link, pipe, position, missed, pc, passed, target, due, blur>>
  BY Zenon DEF HearAck, Note, master
<1> HIDE DEF a
<1>3. /\ Head(a) = a[1] /\ Head(a) \in Nat /\ Tail(a) \in Seq(Nat) /\ Len(a) \in Nat /\ Len(a) # 0
      /\ Len(Tail(a)) = Len(a) - 1 /\ \A i \in 1 .. Len(a) - 1 : Tail(a)[i] = a[i + 1]
  BY <1>1
<1>4. Typed'
  BY <1>2, <1>3, Zenon DEF Typed
<1>5. NothingOwed' /\ DueIsTold'
  BY <1>2 DEF NothingOwed, DueIsTold
<1>6. Apart'
  BY <1>1, <1>2 DEF Apart, Typed
<1>7. Agree'
  <2>1. Pending' = Pending
    BY <1>2 DEF Pending
  <2> QED BY <1>2, <2>1 DEF Agree
<1>8. InOrder'
  <2> SUFFICES ASSUME NEW s \in Replicas PROVE Reports(reached'[s], acks'[s], position[s])
    BY <1>2 DEF InOrder
  <2>1. CASE s = r
    <3> DEFINE b == Tail(a)
               p == position[r]
               f == Head(a)
    <3>1. Reports(reached[r], a, p)
      BY DEF InOrder, a
    <3> HIDE DEF b, p, f
    <3>2. f <= p /\ 1 \in 1 .. Len(a)
      BY <1>3, <3>1 DEF Reports, f
    <3>3. ASSUME NEW i \in 1 .. Len(b) PROVE f <= b[i] /\ b[i] <= p
      <4>1. i + 1 \in 1 .. Len(a) /\ 1 < i + 1 /\ b[i] = a[i + 1] /\ f = a[1]
        BY <1>3 DEF b, f
      <4> QED BY <3>1, <3>2, <4>1 DEF Reports
    <3>4. ASSUME NEW i \in 1 .. Len(b), NEW j \in 1 .. Len(b), i < j PROVE b[i] <= b[j]
      <4>1. i + 1 \in 1 .. Len(a) /\ j + 1 \in 1 .. Len(a) /\ i + 1 < j + 1 /\ b[i] = a[i + 1] /\ b[j] = a[j + 1]
        BY <1>3, <3>4 DEF b
      <4> QED BY <3>1, <4>1 DEF Reports
    <3>5. Reports(f, b, p)
      BY <3>2, <3>3, <3>4 DEF Reports
    <3>6. reached'[r] = f /\ acks'[r] = b
      BY <1>2 DEF Typed, f, b
    <3> QED BY <2>1, <3>5, <3>6 DEF p
  <2>2. CASE s # r
    BY <1>2, <2>2 DEF InOrder, Typed
  <2> QED BY <2>1, <2>2
<1> QED BY <1>4, <1>5, <1>6, <1>7, <1>8

\* The connection is over: nothing is left of the replica.
LEMMA NoticedKeeps == ASSUME IInv, NEW r \in Replicas, Noticed(r) PROVE IInv'
<1> USE DEF IInv
<1>1. /\ link' = [link EXCEPT ![r] = "away"] /\ following' = following \ {r}
      /\ pipe' = [pipe EXCEPT ![r] = << >>] /\ acks' = [acks EXCEPT ![r] = << >>]
      /\ position' = [position EXCEPT ![r] = 0] /\ reached' = [reached EXCEPT ![r] = 0]
      /\ missed' = [missed EXCEPT ![r] = 0]
      /\ due' = [c \in Clients |-> [due[c] EXCEPT ![r] = 0]]
      /\ UNCHANGED <<offset, pc, passed, target, blur>>
  BY DEF Noticed
<1>2. << >> \in Seq(Message) /\ << >> \in Seq(Nat) /\ Len(<< >>) = 0
  OBVIOUS
<1>3. Typed'
  <2>1. due' \in [Clients -> [Replicas -> Nat]]
    BY <1>1 DEF Typed
  <2>2. pipe' \in [Replicas -> Seq(Message)] /\ acks' \in [Replicas -> Seq(Nat)]
    BY <1>1, <1>2 DEF Typed
  <2>3. /\ position' \in [Replicas -> Nat] /\ reached' \in [Replicas -> Nat] /\ missed' \in [Replicas -> Nat]
        /\ link' \in [Replicas -> {"away", "agreed", "handed", "open", "dead"}]
        /\ following' \subseteq Replicas
    BY <1>1 DEF Typed
  <2> QED BY <1>1, <2>1, <2>2, <2>3 DEF Typed
<1>4. NothingOwed'
  BY <1>1 DEF NothingOwed
<1>5. DueIsTold'
  <2> SUFFICES ASSUME NEW c \in Clients, NEW s \in Replicas PROVE due'[c][s] <= target[c] + blur[c]
    BY <1>1 DEF DueIsTold
  <2>1. due'[c][s] = IF s = r THEN 0 ELSE due[c][s]
    BY <1>1 DEF Typed
  <2>2. target[c] \in Nat /\ blur[c] \in Nat /\ due[c][s] <= target[c] + blur[c]
    BY DEF Typed, DueIsTold
  <2> QED BY <2>1, <2>2
<1>6. Apart'
  BY <1>1 DEF Apart, Typed
<1>7. Agree'
  <2>1. Pending' = Pending
    BY <1>1 DEF Pending
  <2> SUFFICES ASSUME NEW s \in Replicas, link'[s] # "away"
               PROVE  position'[s] + Bytes(pipe'[s]) + missed'[s] = offset + Pending
    BY <1>1, <2>1 DEF Agree
  <2>2. s # r
    BY <1>1 DEF Typed
  <2> QED BY <1>1, <2>2 DEF Agree, Typed
<1>8. InOrder'
  <2> SUFFICES ASSUME NEW s \in Replicas PROVE Reports(reached'[s], acks'[s], position'[s])
    BY DEF InOrder
  <2>1. CASE s = r
    <3>1. reached'[s] = 0 /\ acks'[s] = << >> /\ position'[s] = 0
      BY <1>1, <2>1 DEF Typed
    <3>2. Reports(0, << >>, 0)
      BY <1>2 DEF Reports
    <3> QED BY <3>1, <3>2
  <2>2. CASE s # r
    BY <1>1, <2>2 DEF InOrder, Typed
  <2> QED BY <2>1, <2>2
<1> QED BY <1>3, <1>4, <1>5, <1>6, <1>7, <1>8

LEMMA StutterKeeps == IInv /\ UNCHANGED vars => IInv'
<1> SUFFICES ASSUME IInv, UNCHANGED vars PROVE IInv'
  OBVIOUS
<1>1. UNCHANGED <<master, replica, passed>> /\ UNCHANGED <<pc, target, blur, due>>
  BY DEF vars, client
<1>2. Typed' /\ NothingOwed' /\ DueIsTold'
  BY <1>1 DEF IInv, Typed, NothingOwed, DueIsTold, master, replica
<1> QED BY <1>1, <1>2, CountsUntouched DEF IInv

LEMMA Invariant == Spec => []IInv
<1>1. IInv /\ [Next]_vars => IInv'
  <2> SUFFICES ASSUME IInv, [Next]_vars PROVE IInv'
    OBVIOUS
  <2>1. ASSUME NEW c \in Clients, ClientStep(c) PROVE IInv'
    <3>1. CASE Written(c)
      <4>1. Advance(c) /\ Goto(c, "idle")
        BY <3>1 DEF Written
      <4> QED BY <4>1, AdvanceKeeps
    <3>2. CASE Ask(c)
      BY <3>2, AskKeeps
    <3>3. CASE Asked(c)
      <4>1. Advance(c) /\ Goto(c, "loop")
        BY <3>3 DEF Asked
      <4> QED BY <4>1, AdvanceKeeps
    <3>4. CASE MakeFuture(c) \/ Count(c) \/ Park(c) \/ Woken(c) \/ TimedOut(c)
      BY <3>4, LookKeeps
    <3> QED BY <2>1, <3>1, <3>2, <3>3, <3>4 DEF ClientStep
  <2>2. ASSUME NEW c \in Clients, Write(c) PROVE IInv'
    BY <2>2, WriteKeeps
  <2>3. ASSUME NEW c \in Clients, NEW n \in 0 .. Cardinality(Replicas), Wait(c, n) PROVE IInv'
    BY <2>3, WaitKeeps
  <2>4. ASSUME NEW r \in Replicas, Psync(r) PROVE IInv'
    BY <2>4, PsyncKeeps
  <2>5. ASSUME NEW r \in Replicas, Connection(r) \/ Die(r) PROVE IInv'
    <3>1. CASE HandDataset(r) \/ Add(r) \/ Die(r)
      BY <3>1, LinkKeeps
    <3>2. CASE HearAck(r)
      BY <3>2, HearAckKeeps
    <3>3. CASE Noticed(r)
      BY <3>3, NoticedKeeps
    <3> QED BY <2>5, <3>1, <3>2, <3>3 DEF Connection
  <2>6. ASSUME NEW r \in Replicas, Take(r) PROVE IInv'
    BY <2>6, TakeKeeps
  <2>7. CASE UNCHANGED vars
    BY <2>7, StutterKeeps
  <2> QED BY <2>1, <2>2, <2>3, <2>4, <2>5, <2>6, <2>7 DEF Next
<1> QED BY <1>1, InitHolds, PTL DEF Spec

-----------------------------------------------------------------------------
\* However sends, advances, reads and acknowledgements interleave, the two
\* counts of the stream differ by what the replica missed while it joined.
THEOREM CountsAgreeAlways == Spec => []CountsAgree
<1>1. IInv => CountsAgree
  <2> SUFFICES ASSUME IInv, NEW r \in following
               PROVE  position[r] + Bytes(pipe[r]) + missed[r] = offset + Pending
    BY DEF CountsAgree
  <2>1. r \in Replicas /\ link[r] # "away"
    BY Zenon DEF IInv, Typed, Apart
  <2> QED BY <2>1 DEF IInv, Agree
<1> QED BY <1>1, Invariant, PTL

\* What the master has been told of a replica is never more than the replica
\* has counted, and reports come in order (Following::reached, keep_up).
THEOREM ReportsAreTrueAlways == Spec => []ReportsAreTrue
<1>1. IInv => ReportsAreTrue
  <2> SUFFICES ASSUME IInv, NEW r \in following,
                      NEW i \in 1 .. Len(<<reached[r]>> \o acks[r] \o <<position[r]>>) - 1
               PROVE  (<<reached[r]>> \o acks[r] \o <<position[r]>>)[i]
                        <= (<<reached[r]>> \o acks[r] \o <<position[r]>>)[i + 1]
    BY Zenon DEF ReportsAreTrue
  <2> DEFINE f == reached[r]
             a == acks[r]
             p == position[r]
             w == <<f>> \o a \o <<p>>
  <2>1. f \in Nat /\ a \in Seq(Nat) /\ p \in Nat /\ Reports(f, a, p)
    BY DEF IInv, Typed, InOrder
  <2> HIDE DEF f, a, p
  <2>2. /\ Len(a) \in Nat /\ Len(w) = Len(a) + 2 /\ w[1] = f /\ w[Len(a) + 2] = p
        /\ \A k \in 1 .. Len(a) : w[k + 1] = a[k]
    BY <2>1
  <2> SUFFICES w[i] <= w[i + 1]
    BY Zenon DEF f, a, p
  <2>3. i \in 1 .. Len(a) + 1
    <3>1. i \in 1 .. Len(w) - 1
      BY DEF f, a, p
    <3> HIDE DEF w
    <3> QED BY <2>2, <3>1
  <2> HIDE DEF w
  <2>4. CASE i = 1 /\ Len(a) = 0
    BY <2>1, <2>2, <2>4 DEF Reports
  <2>5. CASE i = 1 /\ Len(a) # 0
    <3>1. 1 \in 1 .. Len(a) /\ w[1 + 1] = a[1]
      BY <2>2, <2>5
    <3> QED BY <2>1, <2>2, <2>5, <3>1 DEF Reports
  <2>6. CASE i # 1 /\ i = Len(a) + 1
    <3>1. i - 1 \in 1 .. Len(a) /\ (i - 1) + 1 = i /\ i + 1 = Len(a) + 2
      BY <2>2, <2>3, <2>6
    <3>2. w[i] = a[i - 1] /\ w[i + 1] = p
      BY <2>2, <3>1
    <3> QED BY <2>1, <3>1, <3>2 DEF Reports
  <2>7. CASE i # 1 /\ i # Len(a) + 1
    <3>1. i - 1 \in 1 .. Len(a) /\ i \in 1 .. Len(a) /\ (i - 1) + 1 = i /\ i - 1 < i
      BY <2>2, <2>3, <2>7
    <3>2. w[i] = a[i - 1] /\ w[i + 1] = a[i]
      BY <2>2, <3>1
    <3> QED BY <2>1, <3>1, <3>2 DEF Reports
  <2> QED BY <2>4, <2>5, <2>6, <2>7
<1> QED BY <1>1, Invariant, PTL

\* WAIT counts a replica only if it has taken in all that was queued for it
\* when WAIT began, short of what was then not in the offset yet.
THEOREM WaitCountsTrueAlways == Spec => []WaitCountsTrue
<1>1. IInv => WaitCountsTrue
  <2> SUFFICES ASSUME IInv, NEW c \in Clients, NEW r \in CaughtUp(c)
               PROVE  position[r] + blur[c] >= due[c][r]
    BY DEF WaitCountsTrue
  <2>1. r \in Replicas /\ reached[r] >= target[c]
    BY DEF IInv, Typed, CaughtUp
  <2>2. reached[r] <= position[r] /\ due[c][r] <= target[c] + blur[c]
    BY <2>1 DEF IInv, InOrder, Reports, DueIsTold
  <2>3. reached[r] \in Nat /\ position[r] \in Nat /\ target[c] \in Nat /\ blur[c] \in Nat /\ due[c][r] \in Nat
    BY <2>1 DEF IInv, Typed
  <2> QED BY <2>1, <2>2, <2>3
<1> QED BY <1>1, Invariant, PTL
=============================================================================
