---------------------------- MODULE ValuesProofs ----------------------------
(***************************************************************************)
(* Proofs about the values of the store that keep an order.  Streams, for  *)
(* any number of clients, keys and ids: they are logs, XRANGE finds what   *)
(* it should, nothing slips past a blocked XREAD, `$' misses nothing, and  *)
(* wakers do not pile up.  SortedSets and Places, for any number of        *)
(* members, scores and places: the vector is the map of the scores that    *)
(* were given, in order.                                                   *)
(*                                                                         *)
(* The few lemmas about numbers and steps that this module shares with     *)
(* CountingProofs are here again, to keep the lemmas about sums out of it. *)
(***************************************************************************)
EXTENDS Streams, FiniteSetTheorems, TLAPS

\* More time for a step than the provers take by themselves.
USE SMTT(20), ZenonT(20)

\* TypeOK with the shape of the two functions it only bounds.
Typed ==
    /\ TypeOK
    /\ after \in [Clients -> UNION {[ks -> Ids] : ks \in SUBSET Keys}]
    /\ dollar \in [Clients -> SUBSET Keys]

\* What `$' became is at most where the stream ends now, or was the start of an
\* empty one.
Dollars ==
    \A c \in Clients : \A k \in dollar[c] :
        \/ after[c][k] = Zero
        \/ stream[k] # << >> /\ ~ Less(Top(k), after[c][k])

\* The inductive invariant.
IInv == Typed /\ StreamsAreLogs /\ NothingSlipsPast /\ Dollars /\ WakersBounded

-----------------------------------------------------------------------------
(* Ids and what an XADD makes of them. *)

\* Less is a strict order of ids, with nothing between two that it does not tell
\* apart.
LEMMA LessIsAnOrder ==
    ASSUME NEW a \in Ids, NEW b \in Ids, NEW c \in Ids
    PROVE  /\ ~ Less(a, a)
           /\ Less(a, b) /\ Less(b, c) => Less(a, c)
           /\ Less(a, b) \/ Less(b, a) \/ a = b
<1>1. /\ a = <<a[1], a[2]>> /\ a[1] \in Int /\ a[2] \in Int
      /\ b = <<b[1], b[2]>> /\ b[1] \in Int /\ b[2] \in Int
      /\ c = <<c[1], c[2]>> /\ c[1] \in Int /\ c[2] \in Int
  BY DEF Ids
<1>2. Less(a, b) \/ Less(b, a) \/ a = b
  <2>1. CASE a[1] = b[1] /\ a[2] = b[2]
    BY <1>1, <2>1
  <2>2. CASE ~ (a[1] = b[1] /\ a[2] = b[2])
    BY <1>1, <2>2 DEF Less
  <2> QED BY <2>1, <2>2
<1>3. ~ Less(a, a) /\ (Less(a, b) /\ Less(b, c) => Less(a, c))
  BY <1>1 DEF Less
<1> QED BY <1>2, <1>3

\* An id that XADD accepts is an id, above zero, and above the top of the stream.
LEMMA AcceptedIsAbove ==
    ASSUME Typed, StreamsAreLogs, NEW k \in Keys, NEW request \in Requests,
           NEW id \in Accepted(request, k)
    PROVE  /\ id \in Ids /\ Less(Zero, id)
           /\ stream[k] # << >> => Top(k) \in Ids /\ Less(Top(k), id)
<1>1. id \in Resolve(request, k) /\ (request.form = "explicit" => Less(Zero, id))
  BY DEF Accepted
<1>2. stream[k] # << >> => Less(Top(k), id)
  BY DEF Accepted
<1>3. stream[k] \in Seq(Ids)
  BY DEF Typed, TypeOK
<1>4. stream[k] # << >> => Top(k) \in Ids /\ Less(Zero, Top(k))
  BY <1>3 DEF Top, StreamsAreLogs
<1>5. MaxMs \in Nat /\ MaxSeq \in Nat /\ MaxSeq >= 1
  BY StreamsAssumption
<1>6. request.ms \in 0 .. MaxMs /\ (request.form = "explicit" => request.seq \in 0 .. MaxSeq)
  BY DEF Requests
<1>7. id \in Ids
  BY <1>1, <1>4, <1>5, <1>6 DEF Resolve, Ids
<1>8. Less(Zero, id)
  <2>1. CASE request.form = "explicit"
    BY <1>1, <2>1
  <2>2. CASE stream[k] # << >>
    BY <1>2, <1>4, <1>7, <2>2, LessIsAnOrder, <1>5 DEF Zero, Ids
  <2>3. CASE request.form # "explicit" /\ stream[k] = << >>
    BY <1>1, <1>5, <1>6, <2>3 DEF Resolve, Less, Zero
  <2> QED BY <2>1, <2>2, <2>3
<1> QED BY <1>2, <1>4, <1>7, <1>8

-----------------------------------------------------------------------------
(* The invariant is kept: one lemma per action. *)

\* Clients are so many, and a set of them is no larger.
LEMMA SetsOfClients ==
    /\ Cardinality(Clients) \in Nat
    /\ \A cs \in SUBSET Clients : Cardinality(cs) \in Nat /\ Cardinality(cs) <= Cardinality(Clients)
BY StreamsAssumption, FS_CardinalityType, FS_Subset

\* Init establishes the invariant.
LEMMA InitHolds == Init => IInv
<1> SUFFICES ASSUME Init PROVE IInv
  OBVIOUS
<1>1. NoReads \in [{} -> Ids]
  BY DEF NoReads
<1>2. Typed
  <2>1. NoReads \in UNION {[ks -> Ids] : ks \in SUBSET Keys}
    BY <1>1
  <2>2. DOMAIN NoReads = {}
    BY DEF NoReads
  <2>3. TypeOK
    BY <2>2 DEF Init, TypeOK
  <2> QED BY <2>1, <2>3 DEF Init, Typed
<1>3. StreamsAreLogs /\ NothingSlipsPast /\ Dollars
  BY DEF Init, StreamsAreLogs, NothingSlipsPast, Dollars
<1>4. WakersBounded
  BY SetsOfClients, FS_EmptySet DEF Init, WakersBounded
<1> QED BY <1>2, <1>3, <1>4 DEF IInv

\* XADD wakes who is registered, and grows the stream at its end.
LEMMA XaddKeeps ==
    ASSUME IInv, NEW k \in Keys, NEW request \in Requests, Xadd(request, k)
    PROVE  IInv'
<1>1. PICK id \in Accepted(request, k) : stream' = [stream EXCEPT ![k] = Append(@, id)]
  BY Zenon DEF Xadd, AddEntry
<1>2. /\ kind' = [kind EXCEPT ![k] = "stream"]
      /\ woken' = woken \cup watchers[k]
      /\ watchers' = [watchers EXCEPT ![k] = {}]
      /\ stale' = [stale EXCEPT ![k] = 0]
      /\ UNCHANGED <<pc, wait, after, late, dollar>>
      /\ kind[k] # "string"
  BY DEF Xadd, AddEntry
<1>3. id \in Ids /\ Less(Zero, id) /\ (stream[k] # << >> => Top(k) \in Ids /\ Less(Top(k), id))
  BY AcceptedIsAbove DEF IInv
<1>4. stream \in [Keys -> Seq(Ids)]
  BY DEF IInv, Typed, TypeOK
<1>5. /\ stream'[k] \in Seq(Ids) /\ Len(stream'[k]) = Len(stream[k]) + 1
      /\ \A i \in DOMAIN stream[k] : stream'[k][i] = stream[k][i]
      /\ stream'[k][Len(stream[k]) + 1] = id
      /\ \A l \in Keys \ {k} : stream'[l] = stream[l]
  BY <1>1, <1>3, <1>4
<1>6. Typed'
  BY <1>2, <1>1, <1>3 DEF IInv, Typed, TypeOK
<1>7. StreamsAreLogs'
  <2>1. ASSUME NEW i \in DOMAIN stream[k] PROVE Less(stream[k][i], id) /\ Less(Zero, stream[k][i])
    <3>1. stream[k][i] \in Ids /\ stream[k] # << >> /\ Len(stream[k]) \in DOMAIN stream[k]
      BY <1>4
    <3>2. i = Len(stream[k]) \/ Less(stream[k][i], Top(k))
      BY <1>4, <3>1 DEF IInv, StreamsAreLogs, Top
    <3>3. Less(stream[k][i], id)
      BY <1>3, <3>1, <3>2, LessIsAnOrder DEF Top
    <3> QED BY <3>3 DEF IInv, StreamsAreLogs
  <2>2. \A i \in DOMAIN stream'[k] : i \in DOMAIN stream[k] \/ i = Len(stream[k]) + 1
    BY <1>4, <1>5
  <2>3. stream'[k] # << >> /\ kind'[k] = "stream"
    BY <1>2, <1>4, <1>5 DEF IInv, Typed, TypeOK
  <2>4. \A i \in DOMAIN stream'[k] : Less(Zero, stream'[k][i])
    BY <1>3, <1>5, <2>1, <2>2
  <2>5. \A i, j \in DOMAIN stream'[k] : i < j => Less(stream'[k][i], stream'[k][j])
    <3> SUFFICES ASSUME NEW i \in DOMAIN stream'[k], NEW j \in DOMAIN stream'[k], i < j
                 PROVE  Less(stream'[k][i], stream'[k][j])
      OBVIOUS
    <3>1. i \in DOMAIN stream[k]
      BY <1>4, <1>5
    <3>2. CASE j \in DOMAIN stream[k]
      BY <1>5, <3>1, <3>2 DEF IInv, StreamsAreLogs
    <3>3. CASE j = Len(stream[k]) + 1
      BY <1>5, <2>1, <3>1, <3>3
    <3> QED BY <2>2, <3>2, <3>3
  <2>6. ASSUME NEW l \in Keys \ {k} PROVE kind'[l] = kind[l] /\ stream'[l] = stream[l]
    BY <1>2, <1>5 DEF IInv, Typed, TypeOK
  <2> QED BY <2>3, <2>4, <2>5, <2>6 DEF IInv, StreamsAreLogs
<1>8. NothingSlipsPast'
  <2> SUFFICES ASSUME NEW c \in Clients, pc[c] \in {"watching", "parked"}, c \notin woken'
               PROVE  Readable(c)' = {} /\ \A l \in DOMAIN after[c] : c \in watchers'[l]
    BY <1>2 DEF NothingSlipsPast
  <2>1. c \notin woken /\ c \notin watchers[k]
    BY <1>2
  <2>2. Readable(c) = {} /\ \A l \in DOMAIN after[c] : c \in watchers[l]
    BY <2>1 DEF IInv, NothingSlipsPast
  <2>3. \A l \in DOMAIN after[c] : l \in Keys /\ l # k
    BY <2>1, <2>2 DEF IInv, Typed, TypeOK
  <2> QED BY <1>2, <1>5, <2>2, <2>3 DEF Readable, IInv, Typed, TypeOK
<1>9. Dollars'
  <2> SUFFICES ASSUME NEW c \in Clients, NEW l \in dollar[c], after[c][l] # Zero
               PROVE  stream'[l] # << >> /\ ~ Less(Top(l)', after[c][l])
    BY <1>2 DEF Dollars
  <2>1. stream[l] # << >> /\ ~ Less(Top(l), after[c][l])
    BY DEF IInv, Dollars
  <2>2. l \in Keys /\ after[c][l] \in Ids
    BY DEF IInv, Typed, TypeOK
  <2>3. CASE l = k
    <3>1. Top(k)' = id /\ stream'[k] # << >>
      BY <1>4, <1>5 DEF Top
    <3> QED BY <1>3, <2>1, <2>2, <2>3, <3>1, LessIsAnOrder
  <2>4. CASE l # k
    BY <1>5, <2>1, <2>2, <2>4 DEF Top
  <2> QED BY <2>3, <2>4
<1>10. WakersBounded'
  <2>1. watchers'[k] = {} /\ stale'[k] = 0
    BY <1>2 DEF IInv, Typed, TypeOK
  <2>2. \A l \in Keys \ {k} : watchers'[l] = watchers[l] /\ stale'[l] = stale[l]
    BY <1>2 DEF IInv, Typed, TypeOK
  <2> QED BY <2>1, <2>2, SetsOfClients, FS_EmptySet DEF IInv, WakersBounded
<1> QED BY <1>6, <1>7, <1>8, <1>9, <1>10 DEF IInv

\* SET empties the stream and takes `$' off it.
LEMMA SetKeeps ==
    ASSUME IInv, NEW k \in Keys, Set(k)
    PROVE  IInv'
<1>1. /\ kind' = [kind EXCEPT ![k] = "string"]
      /\ stream' = [stream EXCEPT ![k] = << >>]
      /\ dollar' = [c \in Clients |-> dollar[c] \ {k}]
      /\ UNCHANGED <<watchers, stale, pc, wait, after, late, woken>>
  BY DEF Set, registry
<1>2. /\ kind'[k] = "string" /\ stream'[k] = << >>
      /\ \A l \in Keys \ {k} : kind'[l] = kind[l] /\ stream'[l] = stream[l]
  BY <1>1 DEF IInv, Typed, TypeOK
<1>3. Typed'
  BY <1>1 DEF IInv, Typed, TypeOK
<1>4. StreamsAreLogs'
  BY <1>2 DEF IInv, StreamsAreLogs
<1>5. NothingSlipsPast'
  <2>1. ASSUME NEW c \in Clients PROVE Readable(c)' \subseteq Readable(c)
    BY <1>1, <1>2 DEF Readable, IInv, Typed, TypeOK
  <2> QED BY <1>1, <2>1 DEF IInv, NothingSlipsPast
<1>6. Dollars'
  BY <1>1, <1>2 DEF IInv, Dollars, Typed, TypeOK, Top
<1>7. WakersBounded'
  BY <1>1 DEF IInv, WakersBounded
<1> QED BY <1>3, <1>4, <1>5, <1>6, <1>7 DEF IInv

\* A string that expires was no stream.
LEMMA ExpireKeeps ==
    ASSUME IInv, NEW k \in Keys, Expire(k)
    PROVE  IInv'
<1>1. /\ kind[k] = "string" /\ kind' = [kind EXCEPT ![k] = "none"]
      /\ UNCHANGED <<stream, watchers, stale, pc, wait, after, late, woken, dollar>>
  BY DEF Expire, registry
<1>2. Typed'
  BY <1>1 DEF IInv, Typed, TypeOK
<1>3. StreamsAreLogs'
  BY <1>1 DEF IInv, StreamsAreLogs, Typed, TypeOK
<1>4. NothingSlipsPast' /\ Dollars' /\ WakersBounded'
  BY <1>1 DEF IInv, NothingSlipsPast, Readable, Dollars, Top, WakersBounded
<1> QED BY <1>2, <1>3, <1>4 DEF IInv

\* XREAD begins: `$' becomes the top of each stream, or zero.
LEMMA XreadKeeps ==
    ASSUME IInv, NEW c \in Clients, NEW call \in Calls[c], Xread(c, call.reads, call.wait)
    PROVE  IInv'
<1> DEFINE asked == call.reads
           ids == [k \in DOMAIN asked |-> IF asked[k] # Dollar THEN asked[k]
                                          ELSE IF stream[k] = << >> THEN Zero ELSE Top(k)]
           new == {k \in DOMAIN asked : asked[k] = Dollar}
<1>1. /\ after' = [after EXCEPT ![c] = ids]
      /\ dollar' = [dollar EXCEPT ![c] = new]
      /\ wait' = [wait EXCEPT ![c] = call.wait]
      /\ pc' = [pc EXCEPT ![c] = "reading"]
      /\ UNCHANGED <<kind, stream, watchers, stale, late, woken>>
  BY DEF Xread, store, registry
<1>2. /\ DOMAIN asked \subseteq Keys
      /\ \A k \in DOMAIN asked : asked[k] \in Ids \cup {Dollar}
      /\ call.wait \in {"now", "until", "forever"}
  BY StreamsAssumption
<1>3. Zero \in Ids
  BY StreamsAssumption DEF Zero, Ids
<1>4. ASSUME NEW k \in DOMAIN asked PROVE ids[k] \in Ids
  <2>1. stream[k] # << >> => Top(k) \in Ids
    BY <1>2 DEF IInv, Typed, TypeOK, Top
  <2> QED BY <1>2, <1>3, <2>1
<1>5. ids \in [DOMAIN asked -> Ids] /\ new \subseteq DOMAIN ids
  BY <1>4, Zenon
<1>6. ASSUME NEW k \in new
      PROVE  ids[k] = Zero \/ (stream[k] # << >> /\ ~ Less(Top(k), ids[k]))
  <2>1. stream[k] # << >> => Top(k) \in Ids
    BY <1>2 DEF IInv, Typed, TypeOK, Top
  <2> QED BY <2>1, LessIsAnOrder
<1> HIDE DEF ids, new
<1>7. Typed'
  <2>1. ids \in UNION {[ks -> Ids] : ks \in SUBSET Keys}
    BY <1>2, <1>5
  <2>2. DOMAIN ids \subseteq Keys /\ (\A k \in DOMAIN ids : ids[k] \in Ids) /\ new \subseteq DOMAIN ids
    BY <1>2, <1>5
  <2>3. /\ after' \in [Clients -> UNION {[ks -> Ids] : ks \in SUBSET Keys}]
        /\ dollar' \in [Clients -> SUBSET Keys]
    BY <1>1, <2>1, <2>2 DEF IInv, Typed
  <2>4. ASSUME NEW d \in Clients
        PROVE  /\ DOMAIN after'[d] \subseteq Keys
               /\ \A k \in DOMAIN after'[d] : after'[d][k] \in Ids
               /\ dollar'[d] \subseteq DOMAIN after'[d]
    <3>1. CASE d = c
      BY <1>1, <2>2, <3>1 DEF IInv, Typed
    <3>2. CASE d # c
      BY <1>1, <3>2 DEF IInv, Typed, TypeOK
    <3> QED BY <3>1, <3>2
  <2> QED BY <1>1, <1>2, <2>3, <2>4 DEF IInv, Typed, TypeOK
<1>8. NothingSlipsPast'
  <2>1. pc'[c] = "reading" /\ \A d \in Clients \ {c} : pc'[d] = pc[d] /\ after'[d] = after[d]
    BY <1>1 DEF IInv, Typed, TypeOK
  <2> QED BY <1>1, <2>1 DEF IInv, NothingSlipsPast, Readable
<1>9. Dollars'
  <2>1. /\ after'[c] = ids /\ dollar'[c] = new
        /\ \A d \in Clients \ {c} : after'[d] = after[d] /\ dollar'[d] = dollar[d]
    BY <1>1 DEF IInv, Typed
  <2> QED BY <1>1, <1>6, <2>1 DEF IInv, Dollars, Top
<1>10. StreamsAreLogs' /\ WakersBounded'
  BY <1>1 DEF IInv, StreamsAreLogs, WakersBounded
<1> QED BY <1>7, <1>8, <1>9, <1>10 DEF IInv

\* A client gives up its waker: where it was still registered, it is counted
\* among those that nobody holds.
LEMMA DropWakerKeeps ==
    ASSUME IInv, NEW c \in Clients, DropWaker(c)
    PROVE  /\ watchers' \in [Keys -> SUBSET Clients] /\ stale' \in [Keys -> Nat]
           /\ woken' \subseteq Clients
           /\ WakersBounded'
           /\ \A d \in Clients \ {c} : /\ d \in woken' <=> d \in woken
                                       /\ \A k \in Keys : d \in watchers'[k] <=> d \in watchers[k]
<1>1. /\ watchers \in [Keys -> SUBSET Clients] /\ stale \in [Keys -> Nat] /\ woken \subseteq Clients
      /\ watchers' = [k \in Keys |-> watchers[k] \ {c}]
      /\ stale' = [k \in Keys |-> IF c \in watchers[k] THEN stale[k] + 1 ELSE stale[k]]
      /\ woken' = woken \ {c}
  BY DEF DropWaker, IInv, Typed, TypeOK
<1>2. watchers' \in [Keys -> SUBSET Clients] /\ stale' \in [Keys -> Nat] /\ woken' \subseteq Clients
  BY <1>1
<1>3. WakersBounded'
  <2> SUFFICES ASSUME NEW k \in Keys
               PROVE  Cardinality(watchers'[k]) + stale'[k] <= Cardinality(Clients)
    BY DEF WakersBounded
  <2>1. IsFiniteSet(watchers[k]) /\ Cardinality(watchers[k]) \in Nat
    BY <1>1, StreamsAssumption, FS_Subset, FS_CardinalityType
  <2>2. Cardinality(watchers[k] \ {c}) =
            IF c \in watchers[k] THEN Cardinality(watchers[k]) - 1 ELSE Cardinality(watchers[k])
    BY <2>1, FS_RemoveElement, Zenon
  <2>3. Cardinality(watchers[k]) + stale[k] <= Cardinality(Clients) /\ stale[k] \in Nat
    BY <1>1 DEF IInv, WakersBounded
  <2>4. watchers'[k] = watchers[k] \ {c}
        /\ stale'[k] = IF c \in watchers[k] THEN stale[k] + 1 ELSE stale[k]
    BY <1>1
  <2> QED BY <2>1, <2>2, <2>3, <2>4, SetsOfClients
<1>4. \A d \in Clients \ {c} : /\ d \in woken' <=> d \in woken
                               /\ \A k \in Keys : d \in watchers'[k] <=> d \in watchers[k]
  BY <1>1
<1> QED BY <1>2, <1>3, <1>4

\* A client is answered, for whatever reason.
LEMMA AnswerKeeps ==
    ASSUME IInv, NEW c \in Clients, Answer(c)
    PROVE  IInv'
<1>1. /\ pc' = [pc EXCEPT ![c] = "idle"]
      /\ wait' = [wait EXCEPT ![c] = "now"]
      /\ after' = [after EXCEPT ![c] = NoReads]
      /\ dollar' = [dollar EXCEPT ![c] = {}]
      /\ late' = late \ {c}
      /\ DropWaker(c)
      /\ UNCHANGED <<kind, stream>>
  BY DEF Answer, store
<1>2. NoReads \in UNION {[ks -> Ids] : ks \in SUBSET Keys} /\ DOMAIN NoReads = {}
  <2>1. NoReads \in [{} -> Ids]
    BY DEF NoReads
  <2> QED BY <2>1
<1>3. Typed'
  <2>1. /\ after' \in [Clients -> UNION {[ks -> Ids] : ks \in SUBSET Keys}]
        /\ dollar' \in [Clients -> SUBSET Keys]
    BY <1>1, <1>2, Zenon DEF IInv, Typed
  <2>2. ASSUME NEW d \in Clients
        PROVE  /\ DOMAIN after'[d] \subseteq Keys
               /\ \A k \in DOMAIN after'[d] : after'[d][k] \in Ids
               /\ dollar'[d] \subseteq DOMAIN after'[d]
    <3>1. CASE d = c
      BY <1>1, <1>2, <3>1 DEF IInv, Typed
    <3>2. CASE d # c
      BY <1>1, <3>2 DEF IInv, Typed, TypeOK
    <3> QED BY <3>1, <3>2
  <2> QED BY <1>1, <2>1, <2>2, DropWakerKeeps DEF IInv, Typed, TypeOK
<1>4. NothingSlipsPast'
  <2>1. pc'[c] = "idle" /\ \A d \in Clients \ {c} : pc'[d] = pc[d] /\ after'[d] = after[d]
    BY <1>1 DEF IInv, Typed, TypeOK
  <2>2. \A d \in Clients : DOMAIN after[d] \subseteq Keys
    BY DEF IInv, Typed, TypeOK
  <2> QED BY <1>1, <2>1, <2>2, DropWakerKeeps DEF IInv, NothingSlipsPast, Readable
<1>5. Dollars'
  <2>1. /\ dollar'[c] = {}
        /\ \A d \in Clients \ {c} : after'[d] = after[d] /\ dollar'[d] = dollar[d]
    BY <1>1 DEF IInv, Typed
  <2> QED BY <1>1, <2>1 DEF IInv, Dollars, Top
<1>6. StreamsAreLogs' /\ WakersBounded'
  BY <1>1, DropWakerKeeps DEF IInv, StreamsAreLogs
<1> QED BY <1>3, <1>4, <1>5, <1>6 DEF IInv

\* A permit is used up: the client goes back to reading.
LEMMA WokenKeeps ==
    ASSUME IInv, NEW c \in Clients, Woken(c)
    PROVE  IInv'
<1>1. /\ pc' = [pc EXCEPT ![c] = "reading"]
      /\ DropWaker(c)
      /\ UNCHANGED <<kind, stream, wait, after, late, dollar>>
  BY DEF Woken, store
<1>2. Typed'
  BY <1>1, DropWakerKeeps DEF IInv, Typed, TypeOK
<1>3. NothingSlipsPast'
  <2>1. pc'[c] = "reading" /\ \A d \in Clients \ {c} : pc'[d] = pc[d]
    BY <1>1 DEF IInv, Typed, TypeOK
  <2>2. \A d \in Clients : DOMAIN after[d] \subseteq Keys
    BY DEF IInv, Typed, TypeOK
  <2> QED BY <1>1, <2>1, <2>2, DropWakerKeeps DEF IInv, NothingSlipsPast, Readable
<1>4. StreamsAreLogs' /\ Dollars' /\ WakersBounded'
  BY <1>1, DropWakerKeeps DEF IInv, StreamsAreLogs, Dollars, Top
<1> QED BY <1>2, <1>3, <1>4 DEF IInv

\* A client that finds nothing leaves its waker under every key it reads, before
\* anything can be added to them.
LEMMA ReadWatchesKeeps ==
    ASSUME IInv, NEW c \in Clients, ReadWatches(c)
    PROVE  IInv'
<1> DEFINE ks == DOMAIN after[c]
<1>1. /\ Readable(c) = {}
      /\ watchers' = [k \in Keys |-> IF k \in ks THEN watchers[k] \cup {c} ELSE watchers[k]]
      /\ stale' = [k \in Keys |-> IF k \in ks THEN 0 ELSE stale[k]]
      /\ pc' = [pc EXCEPT ![c] = "watching"]
      /\ UNCHANGED <<kind, stream, wait, after, late, woken, dollar>>
  BY DEF ReadWatches, Register, store
<1>2. Typed'
  BY <1>1 DEF IInv, Typed, TypeOK
<1>3. NothingSlipsPast'
  <2>1. /\ \A d \in Clients \ {c} : pc'[d] = pc[d]
        /\ \A d \in Clients : DOMAIN after[d] \subseteq Keys
    BY <1>1 DEF IInv, Typed, TypeOK
  <2>2. \A d \in Clients : \A k \in Keys : d \in watchers[k] => d \in watchers'[k]
    BY <1>1
  <2>3. \A k \in DOMAIN after[c] : c \in watchers'[k]
    BY <1>1, <2>1
  <2> QED BY <1>1, <2>1, <2>2, <2>3 DEF IInv, NothingSlipsPast, Readable
<1>4. WakersBounded'
  <2> SUFFICES ASSUME NEW k \in Keys
               PROVE  Cardinality(watchers'[k]) + stale'[k] <= Cardinality(Clients)
    BY DEF WakersBounded
  <2>1. CASE k \in ks
    <3>1. stale'[k] = 0 /\ watchers'[k] \in SUBSET Clients
      BY <1>1, <2>1 DEF IInv, Typed, TypeOK
    <3> QED BY <3>1, SetsOfClients
  <2>2. CASE k \notin ks
    BY <1>1, <2>2 DEF IInv, WakersBounded
  <2> QED BY <2>1, <2>2
<1>5. StreamsAreLogs' /\ Dollars'
  BY <1>1 DEF IInv, StreamsAreLogs, Dollars, Top
<1> QED BY <1>2, <1>3, <1>4, <1>5 DEF IInv

\* Waiting begins, and the time runs out.
LEMMA ParkKeeps ==
    ASSUME IInv, NEW c \in Clients, Park(c)
    PROVE  IInv'
<1>1. /\ pc[c] = "watching" /\ pc' = [pc EXCEPT ![c] = "parked"]
      /\ UNCHANGED <<kind, stream, watchers, stale, wait, after, late, woken, dollar>>
  BY DEF Park, store, registry
<1>2. Typed'
  BY <1>1 DEF IInv, Typed, TypeOK
<1>3. NothingSlipsPast'
  <2>1. \A d \in Clients : pc'[d] \in {"watching", "parked"} => pc[d] \in {"watching", "parked"}
    BY <1>1 DEF IInv, Typed, TypeOK
  <2> QED BY <1>1, <2>1 DEF IInv, NothingSlipsPast, Readable
<1>4. StreamsAreLogs' /\ Dollars' /\ WakersBounded'
  BY <1>1 DEF IInv, StreamsAreLogs, Dollars, Top, WakersBounded
<1> QED BY <1>2, <1>3, <1>4 DEF IInv

LEMMA DeadlinePassesKeeps ==
    ASSUME IInv, NEW c \in Clients, DeadlinePasses(c)
    PROVE  IInv'
<1>1. /\ late' = late \cup {c}
      /\ UNCHANGED <<kind, stream, watchers, stale, pc, wait, after, woken, dollar>>
  BY DEF DeadlinePasses, store, registry
<1>2. Typed'
  BY <1>1 DEF IInv, Typed, TypeOK
<1>3. StreamsAreLogs' /\ NothingSlipsPast' /\ Dollars' /\ WakersBounded'
  BY <1>1 DEF IInv, StreamsAreLogs, NothingSlipsPast, Readable, Dollars, Top, WakersBounded
<1> QED BY <1>2, <1>3 DEF IInv

LEMMA StutterKeeps ==
    ASSUME IInv, UNCHANGED vars
    PROVE  IInv'
<1>1. UNCHANGED <<kind, stream, watchers, stale, pc, wait, after, late, woken, dollar>>
  BY DEF vars
<1>2. Typed'
  BY <1>1 DEF IInv, Typed, TypeOK
<1>3. StreamsAreLogs' /\ WakersBounded'
  BY <1>1 DEF IInv, StreamsAreLogs, WakersBounded
<1>4. NothingSlipsPast' /\ Dollars'
  BY <1>1 DEF IInv, NothingSlipsPast, Readable, Dollars, Top
<1> QED BY <1>2, <1>3, <1>4 DEF IInv

\* Every step keeps the invariant, so it always holds.
LEMMA Invariant == Spec => []IInv
<1>1. IInv /\ [Next]_vars => IInv'
  <2> SUFFICES ASSUME IInv, [Next]_vars PROVE IInv'
    OBVIOUS
  <2>1. ASSUME NEW k \in Keys, NEW request \in Requests, Xadd(request, k) PROVE IInv'
    BY <2>1, XaddKeeps
  <2>2. ASSUME NEW k \in Keys, Set(k) \/ Expire(k) PROVE IInv'
    BY <2>2, SetKeeps, ExpireKeeps
  <2>3. ASSUME NEW c \in Clients, NEW call \in Calls[c], Xread(c, call.reads, call.wait) PROVE IInv'
    BY <2>3, XreadKeeps
  <2>4. ASSUME NEW c \in Clients, Task(c) PROVE IInv'
    BY <2>4, AnswerKeeps, ReadWatchesKeeps, ParkKeeps, WokenKeeps
       DEF Task, ReadAnswers, TooLate, TimedOut
  <2>5. ASSUME NEW c \in Clients, DeadlinePasses(c) PROVE IInv'
    BY <2>5, DeadlinePassesKeeps
  <2>6. CASE UNCHANGED vars
    BY <2>6, StutterKeeps
  <2> QED BY <2>1, <2>2, <2>3, <2>4, <2>5, <2>6 DEF Next
<1> QED BY InitHolds, <1>1, PTL DEF Spec

-----------------------------------------------------------------------------
(* The theorems. *)

\* The streams, the wakers and the reads under way are always of their types.
THEOREM TypeAlways == Spec => []TypeOK
<1>1. IInv => TypeOK
  BY DEF IInv, Typed
<1> QED BY Invariant, <1>1, PTL

\* Streams are logs whatever ids XADD is given and however the clock jumps.
THEOREM StreamsAreLogsAlways == Spec => []StreamsAreLogs
<1>1. IInv => StreamsAreLogs
  BY DEF IInv
<1> QED BY Invariant, <1>1, PTL

\* A blocking XREAD misses no entry between its read and its wait, however many
\* clients read and add meanwhile.
THEOREM NothingSlipsPastAlways == Spec => []NothingSlipsPast
<1>1. IInv => NothingSlipsPast
  BY DEF IInv
<1> QED BY Invariant, <1>1, PTL

\* There are never more wakers under a key than clients.
THEOREM WakersBoundedAlways == Spec => []WakersBounded
<1>1. IInv => WakersBounded
  BY DEF IInv
<1> QED BY Invariant, <1>1, PTL

\* Whoever reads from `$' is told of everything added after that: its id is past
\* the one `$' became.
THEOREM DollarSeesAllAlways == Spec => DollarSeesAll
<1> DEFINE SeesAll == \A c \in Clients : \A k \in dollar[c] :
               Len(stream'[k]) > Len(stream[k]) => Less(after[c][k], stream'[k][Len(stream'[k])])
<1>1. ASSUME IInv, [Next]_vars PROVE SeesAll
  <2>0. stream \in [Keys -> Seq(Ids)]
    BY <1>1 DEF IInv, Typed, TypeOK
  <2>1. CASE UNCHANGED stream
    <3>1. \A c \in Clients : \A k \in dollar[c] : k \in Keys
      BY <1>1 DEF IInv, Typed
    <3>2. \A k \in Keys : Len(stream[k]) \in Nat
      BY <2>0
    <3> QED BY <2>1, <3>1, <3>2
  <2>2. ASSUME NEW k \in Keys, Set(k) PROVE SeesAll
    <3>1. \A l \in Keys : Len(stream'[l]) <= Len(stream[l])
      BY <2>0, <2>2 DEF Set
    <3>2. \A c \in Clients : \A l \in dollar[c] : l \in Keys
      BY <1>1 DEF IInv, Typed
    <3>3. \A l \in Keys : Len(stream[l]) \in Nat /\ Len(stream'[l]) \in Nat
      BY <2>0, <2>2 DEF Set
    <3> QED BY <3>1, <3>2, <3>3
  <2>3. ASSUME NEW k \in Keys, NEW request \in Requests, Xadd(request, k) PROVE SeesAll
    <3>1. PICK id \in Accepted(request, k) : stream' = [stream EXCEPT ![k] = Append(@, id)]
      BY <2>3, Zenon DEF Xadd, AddEntry
    <3>2. id \in Ids /\ Less(Zero, id) /\ (stream[k] # << >> => Top(k) \in Ids /\ Less(Top(k), id))
      BY <1>1, AcceptedIsAbove DEF IInv
    <3> SUFFICES ASSUME NEW c \in Clients, NEW l \in dollar[c], Len(stream'[l]) > Len(stream[l])
                 PROVE  Less(after[c][l], stream'[l][Len(stream'[l])])
      OBVIOUS
    <3>3. l \in Keys /\ after[c][l] \in Ids
      BY <1>1 DEF IInv, Typed, TypeOK
    <3>4. l = k /\ stream'[l][Len(stream'[l])] = id
      <4>1. l = k
        BY <2>0, <3>1, <3>3
      <4>2. stream'[k] = Append(stream[k], id) /\ stream[k] \in Seq(Ids)
        BY <2>0, <3>1
      <4> QED BY <3>2, <4>1, <4>2
    <3>5. after[c][l] = Zero \/ (stream[l] # << >> /\ ~ Less(Top(l), after[c][l]))
      BY <1>1 DEF IInv, Dollars
    <3>6. CASE after[c][l] = Zero
      BY <3>2, <3>4, <3>6
    <3>7. CASE stream[l] # << >> /\ ~ Less(Top(l), after[c][l])
      <4>1. Top(k) \in Ids /\ Less(Top(k), id) /\ (after[c][k] = Top(k) \/ Less(after[c][k], Top(k)))
        BY <3>2, <3>3, <3>4, <3>7, LessIsAnOrder
      <4>2. Less(after[c][k], id)
        BY <3>2, <3>3, <3>4, <4>1, LessIsAnOrder
      <4> QED BY <3>4, <4>2
    <3> QED BY <3>5, <3>6, <3>7
  <2>4. CASE \E c \in Clients : \/ Task(c) \/ DeadlinePasses(c)
                                \/ \E call \in Calls[c] : Xread(c, call.reads, call.wait)
    <3>1. UNCHANGED stream
      BY <2>4, Zenon DEF Task, ReadAnswers, ReadWatches, Register, Park, TooLate, Woken, TimedOut, Answer,
                  DeadlinePasses, Xread, store
    <3> QED BY <2>1, <3>1
  <2>5. ASSUME NEW k \in Keys, Expire(k) PROVE SeesAll
    BY <2>1, <2>5 DEF Expire
  <2>6. CASE UNCHANGED vars
    BY <2>1, <2>6 DEF vars
  <2> QED BY <1>1, <2>2, <2>3, <2>4, <2>5, <2>6 DEF Next
<1>2. IInv /\ [Next]_vars => [SeesAll]_vars
  BY <1>1
<1> QED BY Invariant, <1>2, PTL DEF Spec, DollarSeesAll

-----------------------------------------------------------------------------
(* XRANGE. *)

\* A set of naturals that is not empty has a least element.
LEMMA Least ==
    ASSUME NEW T \in SUBSET Nat, T # {}
    PROVE  \E n \in T : \A m \in T : n <= m
<1> DEFINE R == {p \in Nat \X Nat : p[1] < p[2]}
<1>1. IsWellFoundedOn(R, Nat)
  BY NatLessThanWellFounded DEF OpToRel
<1>2. \A m, n \in Nat : m < n => <<m, n>> \in R
  OBVIOUS
<1> HIDE DEF R
<1>3. PICK n \in T : \A m \in T : ~ (<<m, n>> \in R)
  BY <1>1, WFMin, Zenon
<1>4. ASSUME NEW m \in T PROVE n <= m
  <2>1. m \in Nat /\ n \in Nat
    OBVIOUS
  <2>2. ~ (m < n)
    BY <1>2, <1>3, <2>1, Zenon
  <2> QED BY <2>1, <2>2
<1> QED BY <1>4

\* Positions up to some point are as many as the last of them says.
LEMMA CountedUpTo ==
    ASSUME NEW n \in Nat, NEW Q \in SUBSET (1 .. n), \A i \in Q : \A j \in 1 .. i : j \in Q
    PROVE  Cardinality(Q) \in Nat /\ Q = 1 .. Cardinality(Q)
<1> DEFINE T == {i \in Nat : i + 1 \notin Q}
<1>1. n \in T
  OBVIOUS
<1>2. PICK m \in T : \A i \in T : m <= i
  BY <1>1, Least, Zenon
<1>3. m \in Nat /\ m + 1 \notin Q
  OBVIOUS
<1>4. ASSUME NEW j \in 1 .. m PROVE j \in Q
  <2>1. j - 1 \in Nat /\ ~ (m <= j - 1)
    BY <1>3
  <2>2. (j - 1) + 1 = j
    OBVIOUS
  <2> QED BY <1>2, <2>1, <2>2
<1>5. ASSUME NEW j \in Q PROVE j \in 1 .. m
  <2>1. j \in Nat /\ 1 <= j
    OBVIOUS
  <2>2. CASE m < j
    <3>1. m + 1 \in 1 .. j
      BY <1>3, <2>1, <2>2
    <3> QED BY <1>3, <3>1
  <2> QED BY <1>3, <2>1, <2>2
<1>6. Q = 1 .. m
  BY <1>4, <1>5, Zenon
<1>7. Cardinality(1 .. m) = m
  BY <1>3, FS_Interval
<1> QED BY <1>3, <1>6, <1>7

\* What the binary searches find in a stream that is a log: the entries that come
\* before an id are the first so many, and so are those that do not come after.
LEMMA SearchesAreExact ==
    ASSUME IInv, NEW k \in Keys, NEW id \in Ids
    PROVE  /\ Before(k, id) \in Nat /\ UpTo(k, id) \in Nat
           /\ \A i \in DOMAIN stream[k] : Less(stream[k][i], id) <=> i <= Before(k, id)
           /\ \A i \in DOMAIN stream[k] : ~ Less(id, stream[k][i]) <=> i <= UpTo(k, id)
           /\ Before(k, id) <= Len(stream[k]) /\ UpTo(k, id) <= Len(stream[k])
<1> DEFINE s == stream[k]
           B == {i \in DOMAIN s : Less(s[i], id)}
           U == {i \in DOMAIN s : ~ Less(id, s[i])}
<1>1. s \in Seq(Ids) /\ Len(s) \in Nat /\ DOMAIN s = 1 .. Len(s)
  BY DEF IInv, Typed, TypeOK
<1>2. ASSUME NEW i \in DOMAIN s, NEW j \in DOMAIN s, j < i
      PROVE  Less(s[j], s[i]) /\ s[i] \in Ids /\ s[j] \in Ids
  BY <1>1, <1>2 DEF IInv, StreamsAreLogs
<1>3. ASSUME NEW i \in DOMAIN s, NEW j \in 1 .. i
      PROVE  j \in DOMAIN s /\ (i \in B => j \in B) /\ (i \in U => j \in U)
  <2>1. j \in DOMAIN s
    BY <1>1
  <2>2. CASE j = i
    BY <2>1, <2>2
  <2>3. CASE j < i
    <3>1. Less(s[j], s[i]) /\ s[i] \in Ids /\ s[j] \in Ids
      BY <1>2, <2>1, <2>3
    <3>2. (Less(s[i], id) => Less(s[j], id)) /\ (Less(id, s[j]) => Less(id, s[i]))
      BY <3>1, LessIsAnOrder
    <3> QED BY <2>1, <3>2
  <2> QED BY <1>1, <2>1, <2>2, <2>3
<1>4. Cardinality(B) \in Nat /\ B = 1 .. Cardinality(B)
  <2>1. B \in SUBSET (1 .. Len(s)) /\ \A i \in B : \A j \in 1 .. i : j \in B
    BY <1>1, <1>3
  <2> HIDE DEF B
  <2> QED BY <1>1, <2>1, CountedUpTo, Zenon
<1>5. Cardinality(U) \in Nat /\ U = 1 .. Cardinality(U)
  <2>1. U \in SUBSET (1 .. Len(s)) /\ \A i \in U : \A j \in 1 .. i : j \in U
    BY <1>1, <1>3
  <2> HIDE DEF U
  <2> QED BY <1>1, <2>1, CountedUpTo, Zenon
<1>6. Before(k, id) = Cardinality(B) /\ UpTo(k, id) = Cardinality(U)
  BY DEF Before, UpTo
<1>7. /\ \A i \in DOMAIN s : i \in B <=> i <= Cardinality(B)
      /\ \A i \in DOMAIN s : i \in U <=> i <= Cardinality(U)
  <2> HIDE DEF B, U
  <2> QED BY <1>1, <1>4, <1>5
<1>8. Cardinality(B) <= Len(s) /\ Cardinality(U) <= Len(s)
  <2>1. B \subseteq 1 .. Len(s) /\ U \subseteq 1 .. Len(s)
    BY <1>1
  <2> HIDE DEF B, U
  <2> QED BY <1>1, <1>4, <1>5, <2>1
<1> QED BY <1>4, <1>5, <1>6, <1>7, <1>8

\* XRANGE finds exactly the entries between its bounds, in order.
THEOREM RangeIsExactAlways == Spec => []RangeIsExact
<1>1. ASSUME IInv PROVE RangeIsExact
  <2> SUFFICES ASSUME NEW k \in Keys, NEW start \in Ids, NEW end \in Ids
               PROVE  LET found == Xrange(k, start, end)
                          between == {i \in DOMAIN stream[k] :
                                         ~ Less(stream[k][i], start) /\ ~ Less(end, stream[k][i])}
                      IN  /\ {found[i] : i \in DOMAIN found} = {stream[k][i] : i \in between}
                          /\ \A i, j \in DOMAIN found : i < j => Less(found[i], found[j])
    BY DEF RangeIsExact
  <2> DEFINE s == stream[k]
             b == Before(k, start)
             u == UpTo(k, end)
             found == SubSeq(s, b + 1, u)
             between == {i \in DOMAIN s : ~ Less(s[i], start) /\ ~ Less(end, s[i])}
  <2>1. s \in Seq(Ids) /\ Len(s) \in Nat /\ DOMAIN s = 1 .. Len(s)
    BY <1>1 DEF IInv, Typed, TypeOK
  <2>2. b \in Nat /\ u \in Nat /\ b <= Len(s) /\ u <= Len(s)
    BY <1>1, SearchesAreExact
  <2>3. between = {i \in DOMAIN s : b < i /\ i <= u}
    <3>1. \A i \in DOMAIN s : (Less(s[i], start) <=> i <= b) /\ (~ Less(end, s[i]) <=> i <= u)
      BY <1>1, SearchesAreExact
    <3>2. \A i \in DOMAIN s : ~ (i <= b) <=> b < i
      BY <2>1, <2>2
    <3> HIDE DEF s, b, u
    <3> QED BY <3>1, <3>2
  <2>4. \A i, j \in DOMAIN s : i < j => Less(s[i], s[j])
    BY <1>1 DEF IInv, StreamsAreLogs
  <2> HIDE DEF s, b, u, between
  <2>5. /\ DOMAIN found = 1 .. (IF b + 1 <= u THEN u - b ELSE 0)
        /\ \A i \in DOMAIN found : found[i] = s[b + i]
    BY <2>1, <2>2
  <2> HIDE DEF found
  <2>6. \A i \in DOMAIN found : b + i \in DOMAIN s /\ b < b + i /\ b + i <= u
    BY <2>1, <2>2, <2>5
  <2>7. \A i \in between : i - b \in DOMAIN found /\ b + (i - b) = i
    BY <2>1, <2>2, <2>3, <2>5
  <2>8. {found[i] : i \in DOMAIN found} = {s[i] : i \in between}
    BY <2>3, <2>5, <2>6, <2>7
  <2>9. \A i, j \in DOMAIN found : i < j => Less(found[i], found[j])
    BY <2>2, <2>4, <2>5, <2>6
  <2> QED BY <2>8, <2>9, Zenon DEF Xrange, found, between, s, b, u
<1> QED BY Invariant, <1>1, PTL

-----------------------------------------------------------------------------
(* Steps, one after another. *)

\* So a set of them that has zero, and with every number the next, is all of them.
LEMMA AllNaturals ==
    ASSUME NEW T \in SUBSET Nat, 0 \in T, \A n \in T : n + 1 \in T
    PROVE  T = Nat
<1> DEFINE U == Nat \ T
<1> SUFFICES ASSUME U # {} PROVE FALSE
  BY Zenon
<1>1. PICK n \in U : \A m \in U : n <= m
  BY Least, Zenon
<1>2. n \in Nat /\ n # 0 /\ n \notin T
  OBVIOUS
<1>3. n - 1 \in Nat /\ ~ (n <= n - 1) /\ (n - 1) + 1 = n
  BY <1>2
<1>4. n - 1 \in T
  BY <1>1, <1>3
<1>5. (n - 1) + 1 \in T
  BY <1>4
<1> QED BY <1>2, <1>3, <1>5

\* f tells what n steps come to, from a on.
Steps(f, a, n, step) == f[0] = a /\ \A i \in 1 .. n : f[i] = step[i][f[i - 1]]

\* What is done in steps comes to something after each.
LEMMA StepsExist ==
    ASSUME NEW X, NEW a \in X, NEW n \in Nat, NEW step \in [1 .. n -> [X -> X]]
    PROVE  \E f \in [0 .. n -> X] : Steps(f, a, n, step)
<1> DEFINE Upto(m, f) == /\ f \in [0 .. m -> X]
                         /\ f[0] = a /\ \A i \in 1 .. m : f[i] = step[i][f[i - 1]]
           T == {m \in Nat : m <= n => \E f : Upto(m, f)}
<1>1. 0 \in T
  <2> DEFINE g == [i \in 0 .. 0 |-> a]
  <2>1. Upto(0, g)
    OBVIOUS
  <2> QED BY <2>1, Zenon
<1>2. ASSUME NEW m \in T PROVE m + 1 \in T
  <2>0. m \in Nat
    OBVIOUS
  <2> SUFFICES ASSUME m + 1 <= n PROVE \E f : Upto(m + 1, f)
    <3> HIDE DEF Upto
    <3> QED BY <2>0
  <2>1. PICK f : Upto(m, f)
    <3> HIDE DEF Upto
    <3>1. m <= n
      BY <2>0
    <3> QED BY <3>1
  <2>2. PICK y \in X : y = step[m + 1][f[m]]
    <3>1. m + 1 \in 1 .. n /\ m \in 0 .. m
      BY <2>0
    <3>2. step[m + 1] \in [X -> X] /\ f[m] \in X
      BY <2>1, <3>1, Zenon
    <3> QED BY <3>2, Zenon
  <2> DEFINE g == [i \in 0 .. m + 1 |-> IF i <= m THEN f[i] ELSE y]
  <2>3. g \in [0 .. m + 1 -> X] /\ g[0] = a
    BY <2>0, <2>1, <2>2
  <2>4. ASSUME NEW i \in 1 .. m + 1 PROVE g[i] = step[i][g[i - 1]]
    <3>1. CASE i <= m
      <4>1. i \in 1 .. m /\ i \in 0 .. m + 1 /\ i - 1 \in 0 .. m + 1 /\ i - 1 <= m
        BY <2>0, <3>1
      <4>2. g[i] = f[i] /\ g[i - 1] = f[i - 1]
        BY <3>1, <4>1
      <4> QED BY <2>1, <4>1, <4>2, Zenon
    <3>2. CASE i = m + 1
      <4>1. m + 1 \in 0 .. m + 1 /\ m \in 0 .. m + 1 /\ m <= m /\ ~ (m + 1 <= m) /\ i - 1 = m
        BY <2>0, <3>2
      <4>2. g[m + 1] = y /\ g[m] = f[m]
        BY <4>1, Zenon
      <4> QED BY <2>2, <3>2, <4>1, <4>2, Zenon
    <3> QED BY <2>0, <3>1, <3>2
  <2>5. Upto(m + 1, g)
    <3> HIDE DEF g
    <3> QED BY <2>3, <2>4
  <2> QED BY <2>5, Zenon
<1>3. T = Nat
  <2>1. T \in SUBSET Nat
    OBVIOUS
  <2> HIDE DEF T
  <2> QED BY <1>1, <1>2, <2>1, AllNaturals
<1>4. PICK f : Upto(n, f)
  <2> HIDE DEF T, Upto
  <2>1. n \in T /\ n <= n
    BY <1>3
  <2> QED BY <2>1 DEF T
<1> QED BY <1>4, Zenon DEF Steps

-----------------------------------------------------------------------------
(* A sorted set is its map from names to scores, in order (SortedSets).    *)

CONSTANT Names

Z == INSTANCE SortedSets

\* The same count by either name.
LEMMA SameCount ==
    ASSUME NEW s
    PROVE  Z!Cardinality(s) = Cardinality(s)
  BY Zenon DEF Z!Cardinality, Cardinality, Z!IsFiniteSet, IsFiniteSet

Members == [score : Int, name : Names]

\* The vector is in order, with each name once.
InOrder(s) ==
    /\ s \in Seq(Members)
    /\ \A i, j \in 1 .. Len(s) : i < j => Z!Precedes(s[i], s[j])
    /\ \A i, j \in 1 .. Len(s) : s[i].name = s[j].name => i = j

\* It is the map f from names to scores.
IsMap(s, f) ==
    /\ InOrder(s)
    /\ f \in [DOMAIN f -> Int] /\ DOMAIN f \subseteq Names
    /\ \A i \in 1 .. Len(s) : s[i].name \in DOMAIN f /\ s[i].score = f[s[i].name]
    /\ \A n \in DOMAIN f : \E i \in 1 .. Len(s) : s[i].name = n

LEMMA MemberTypes ==
    ASSUME NEW s \in Seq(Members), NEW i \in 1 .. Len(s)
    PROVE  /\ s[i] \in Members /\ s[i].score \in Int /\ s[i].name \in Names
           /\ s[i] = [score |-> s[i].score, name |-> s[i].name]
<1>1. s[i] \in Members
  OBVIOUS
<1> QED BY <1>1 DEF Members

\* The names are numbers in the order of their bytes.
LEMMA OrderIsTotal ==
    ASSUME Names \subseteq Int, NEW a \in Members, NEW b \in Members, NEW c \in Members
    PROVE  /\ a.name # b.name => Z!Precedes(a, b) \/ Z!Precedes(b, a)
           /\ Z!Precedes(a, b) /\ Z!Precedes(b, c) => Z!Precedes(a, c)
           /\ ~ (Z!Precedes(a, b) /\ Z!Precedes(b, a))
<1>1. /\ a.score \in Int /\ b.score \in Int /\ c.score \in Int
      /\ a.name \in Int /\ b.name \in Int /\ c.name \in Int
  BY Zenon DEF Members
<1> QED BY <1>1 DEF Z!Precedes

\* A member is found where it is.
LEMMA AtIs ==
    ASSUME NEW s, InOrder(s), NEW name
    PROVE  /\ \A i \in 1 .. Len(s) : s[i].name = name => Z!At(s, name) = i
           /\ (\A i \in 1 .. Len(s) : s[i].name # name) => Z!At(s, name) = 0
           /\ Z!Holds(s, name) <=> \E i \in 1 .. Len(s) : s[i].name = name
<1>1. DOMAIN s = 1 .. Len(s) /\ \A i, j \in 1 .. Len(s) : s[i].name = s[j].name => i = j
  BY DEF InOrder
<1>2. ASSUME NEW i \in 1 .. Len(s), s[i].name = name
      PROVE  Z!At(s, name) = i
  BY <1>1, <1>2 DEF Z!At
<1>3. ASSUME \A i \in 1 .. Len(s) : s[i].name # name
      PROVE  Z!At(s, name) = 0
  BY <1>1, <1>3 DEF Z!At
<1>4. \A i \in 1 .. Len(s) : i # 0
  BY DEF InOrder
<1> QED BY <1>2, <1>3, <1>4 DEF Z!Holds

\* The positions other than k, in order.
Skip(k, i) == IF i < k THEN i ELSE i + 1

LEMMA SkipIs ==
    ASSUME NEW n \in Nat, NEW k \in 1 .. n
    PROVE  /\ \A i \in 1 .. n - 1 : Skip(k, i) \in 1 .. n /\ Skip(k, i) # k
           /\ \A i, j \in 1 .. n - 1 : Skip(k, i) < Skip(k, j) => i < j
           /\ \A i, j \in 1 .. n - 1 : i < j => Skip(k, i) < Skip(k, j)
           /\ \A i, j \in 1 .. n - 1 : Skip(k, i) = Skip(k, j) => i = j
           /\ \A i \in 1 .. n - 1 : (Skip(k, i) < k => i < k) /\ (k < Skip(k, i) => ~ (i < k))
           /\ \A j \in 1 .. n : j = k \/ \E i \in 1 .. n - 1 : j = Skip(k, i)
<1>1. ASSUME NEW j \in 1 .. n, j # k
      PROVE  \E i \in 1 .. n - 1 : j = Skip(k, i)
  <2>1. CASE j < k
    <3>1. j \in 1 .. n - 1 /\ j = Skip(k, j)
      BY <2>1 DEF Skip
    <3> QED BY <3>1
  <2>2. CASE k < j
    <3>1. j - 1 \in 1 .. n - 1 /\ j = Skip(k, j - 1)
      BY <2>2 DEF Skip
    <3> QED BY <3>1
  <2>3. j < k \/ k < j
    BY <1>1
  <2> QED BY <2>1, <2>2, <2>3
<1>2. \A i \in 1 .. n - 1 : Skip(k, i) \in 1 .. n /\ Skip(k, i) # k
  BY DEF Skip
<1>3. \A i, j \in 1 .. n - 1 : Skip(k, i) < Skip(k, j) => i < j
  BY DEF Skip
<1>4. \A i, j \in 1 .. n - 1 : i < j => Skip(k, i) < Skip(k, j)
  BY DEF Skip
<1>5. \A i, j \in 1 .. n - 1 : Skip(k, i) = Skip(k, j) => i = j
  BY DEF Skip
<1>6. \A i \in 1 .. n - 1 : (Skip(k, i) < k => i < k) /\ (k < Skip(k, i) => ~ (i < k))
  BY DEF Skip
<1> QED BY <1>1, <1>2, <1>3, <1>4, <1>5, <1>6

\* One sequence after another.
LEMMA Joined ==
    ASSUME NEW X, NEW a \in Seq(X), NEW b \in Seq(X)
    PROVE  /\ a \o b \in Seq(X) /\ Len(a \o b) = Len(a) + Len(b)
           /\ \A i \in 1 .. Len(a) + Len(b) :
                  (a \o b)[i] = IF i <= Len(a) THEN a[i] ELSE b[i - Len(a)]
  OBVIOUS

\* One element taken out, and one put in, by position.
LEMMA RemoveAtIs ==
    ASSUME NEW X, NEW s \in Seq(X), NEW k \in 1 .. Len(s)
    PROVE  /\ Z!VecRemove(s, k) \in Seq(X) /\ Len(Z!VecRemove(s, k)) = Len(s) - 1
           /\ \A i \in 1 .. Len(s) - 1 : Z!VecRemove(s, k)[i] = s[Skip(k, i)]
<1> DEFINE a == SubSeq(s, 1, k - 1)
           b == SubSeq(s, k + 1, Len(s))
<1>1. Len(s) \in Nat /\ k \in Nat /\ 1 <= k /\ k <= Len(s)
  OBVIOUS
<1>2. a \in Seq(X) /\ Len(a) = k - 1 /\ \A i \in 1 .. k - 1 : a[i] = s[i]
  BY <1>1
<1>3. b \in Seq(X) /\ Len(b) = Len(s) - k /\ \A i \in 1 .. Len(s) - k : b[i] = s[i + k]
  BY <1>1
<1>4. Z!VecRemove(s, k) = a \o b
  BY DEF Z!VecRemove
<1> HIDE DEF a, b
<1>5. /\ a \o b \in Seq(X) /\ Len(a \o b) = Len(a) + Len(b)
      /\ \A i \in 1 .. Len(a) + Len(b) : (a \o b)[i] = IF i <= Len(a) THEN a[i] ELSE b[i - Len(a)]
  BY <1>2, <1>3, Joined, Zenon
<1>6. Len(a) + Len(b) = Len(s) - 1
  BY <1>1, <1>2, <1>3
<1>7. ASSUME NEW i \in 1 .. Len(s) - 1
      PROVE  (a \o b)[i] = s[Skip(k, i)]
  <2>1. CASE i < k
    <3>1. i \in 1 .. k - 1 /\ i <= Len(a) /\ Skip(k, i) = i
      BY <1>1, <1>2, <2>1 DEF Skip
    <3> QED BY <1>2, <1>5, <1>6, <3>1
  <2>2. CASE ~ (i < k)
    <3>1. /\ i - Len(a) \in 1 .. Len(s) - k /\ (i - Len(a)) + k = Skip(k, i) /\ ~ (i <= Len(a))
      BY <1>1, <1>2, <2>2 DEF Skip
    <3> QED BY <1>3, <1>5, <1>6, <3>1
  <2> QED BY <2>1, <2>2, Zenon
<1> QED BY <1>4, <1>5, <1>6, <1>7

LEMMA InsertAtIs ==
    ASSUME NEW X, NEW s \in Seq(X), NEW e \in X, NEW k \in 1 .. Len(s) + 1
    PROVE  /\ Z!VecInsert(s, k - 1, e) \in Seq(X) /\ Len(Z!VecInsert(s, k - 1, e)) = Len(s) + 1
           /\ Z!VecInsert(s, k - 1, e)[k] = e
           /\ \A i \in 1 .. Len(s) : Z!VecInsert(s, k - 1, e)[Skip(k, i)] = s[i]
<1> DEFINE a == SubSeq(s, 1, k - 1)
           b == SubSeq(s, (k - 1) + 1, Len(s))
<1>1. Len(s) \in Nat /\ k \in Nat /\ 1 <= k /\ k <= Len(s) + 1
  OBVIOUS
<1>2. a \in Seq(X) /\ Len(a) = k - 1 /\ \A i \in 1 .. k - 1 : a[i] = s[i]
  BY <1>1
<1>3. b \in Seq(X) /\ Len(b) = Len(s) + 1 - k /\ \A i \in 1 .. Len(s) + 1 - k : b[i] = s[i + k - 1]
  BY <1>1
<1>4. Z!VecInsert(s, k - 1, e) = (a \o <<e>>) \o b
  BY DEF Z!VecInsert
<1> HIDE DEF a, b
<1> DEFINE c == a \o <<e>>
<1>5. c \in Seq(X) /\ Len(c) = k /\ c[k] = e /\ \A i \in 1 .. k - 1 : c[i] = s[i]
  BY <1>1, <1>2
<1> HIDE DEF c
<1>6. /\ c \o b \in Seq(X) /\ Len(c \o b) = Len(c) + Len(b)
      /\ \A i \in 1 .. Len(c) + Len(b) : (c \o b)[i] = IF i <= Len(c) THEN c[i] ELSE b[i - Len(c)]
  BY <1>3, <1>5, Joined, Zenon
<1>7. Len(c) + Len(b) = Len(s) + 1
  BY <1>1, <1>3, <1>5
<1>8. (c \o b)[k] = e
  BY <1>1, <1>5, <1>6, <1>7
<1>9. ASSUME NEW i \in 1 .. Len(s)
      PROVE  (c \o b)[Skip(k, i)] = s[i]
  <2>1. CASE i < k
    <3>1. i \in 1 .. k - 1 /\ i <= Len(c) /\ Skip(k, i) = i /\ i \in 1 .. Len(c) + Len(b)
      BY <1>1, <1>5, <1>7, <2>1 DEF Skip
    <3> QED BY <1>5, <1>6, <3>1
  <2>2. CASE ~ (i < k)
    <3>1. /\ Skip(k, i) = i + 1 /\ i + 1 \in 1 .. Len(c) + Len(b) /\ ~ (i + 1 <= Len(c))
          /\ (i + 1) - Len(c) \in 1 .. Len(s) + 1 - k /\ ((i + 1) - Len(c)) + k - 1 = i
      BY <1>1, <1>5, <1>7, <2>2 DEF Skip
    <3> QED BY <1>3, <1>6, <3>1
  <2> QED BY <2>1, <2>2, Zenon
<1> QED BY <1>4, <1>6, <1>7, <1>8, <1>9, Zenon DEF c

\* Maps with one name more, at a score, and with some names less.
With(f, name, score) == [n \in DOMAIN f \cup {name} |-> IF n = name THEN score ELSE f[n]]
Without(f, names) == [n \in DOMAIN f \ names |-> f[n]]

\* SortedSet::take: the map without the name.
LEMMA TakeIs ==
    ASSUME NEW s, NEW f, IsMap(s, f), NEW name
    PROVE  IsMap(Z!Take(s, name), Without(f, {name}))
<1> DEFINE t == Z!Take(s, name)
           g == Without(f, {name})
<1>1. /\ InOrder(s) /\ s \in Seq(Members) /\ Len(s) \in Nat
      /\ f \in [DOMAIN f -> Int] /\ DOMAIN f \subseteq Names
      /\ \A i \in 1 .. Len(s) : s[i].name \in DOMAIN f /\ s[i].score = f[s[i].name]
      /\ \A n \in DOMAIN f : \E i \in 1 .. Len(s) : s[i].name = n
      /\ \A i, j \in 1 .. Len(s) : s[i].name = s[j].name => i = j
      /\ \A i, j \in 1 .. Len(s) : i < j => Z!Precedes(s[i], s[j])
  BY DEF IsMap, InOrder
<1>2. /\ DOMAIN g = DOMAIN f \ {name} /\ g \in [DOMAIN g -> Int] /\ DOMAIN g \subseteq Names
      /\ \A n \in DOMAIN f : n # name => n \in DOMAIN g /\ g[n] = f[n]
  BY <1>1 DEF Without
<1>3. CASE ~ Z!Holds(s, name)
  <2>1. t = s /\ \A i \in 1 .. Len(s) : s[i].name # name
    BY <1>1, <1>3, AtIs DEF Z!Take
  <2>2. name \notin DOMAIN f
    BY <1>1, <2>1, Zenon
  <2>3. g = f
    <3>1. DOMAIN f \ {name} = DOMAIN f
      BY <2>2
    <3>2. f = [n \in DOMAIN f |-> f[n]]
      BY <1>1
    <3> QED BY <3>1, <3>2, Zenon DEF Without
  <2> QED BY <2>1, <2>3
<1>4. CASE Z!Holds(s, name)
  <2>1. PICK k \in 1 .. Len(s) : s[k].name = name
    BY <1>1, <1>4, AtIs
  <2>2. t = Z!VecRemove(s, k)
    <3>1. Z!At(s, name) = k
      BY <1>1, <2>1, AtIs
    <3> QED BY <1>4, <3>1 DEF Z!Take
  <2> HIDE DEF t, g
  <2>3. /\ t \in Seq(Members) /\ Len(t) = Len(s) - 1
        /\ \A i \in 1 .. Len(s) - 1 : t[i] = s[Skip(k, i)]
    <3>1. s \in Seq(Members)
      BY <1>1
    <3> QED BY <2>2, <3>1, RemoveAtIs
  <2>4. \A i \in 1 .. Len(t) : t[i] = s[Skip(k, i)] /\ Skip(k, i) \in 1 .. Len(s) /\ Skip(k, i) # k
    BY <1>1, <2>3, SkipIs, Zenon
  <2>5. /\ \A i, j \in 1 .. Len(t) : i < j => Skip(k, i) < Skip(k, j)
        /\ \A i, j \in 1 .. Len(t) : Skip(k, i) = Skip(k, j) => i = j
        /\ \A j \in 1 .. Len(s) : j = k \/ \E i \in 1 .. Len(t) : j = Skip(k, i)
    <3>1. Len(s) \in Nat
      BY <1>1
    <3>2. \A i, j \in 1 .. Len(s) - 1 : i < j => Skip(k, i) < Skip(k, j)
      BY <3>1, SkipIs
    <3>3. \A i, j \in 1 .. Len(s) - 1 : Skip(k, i) = Skip(k, j) => i = j
      BY <3>1, SkipIs
    <3>4. \A j \in 1 .. Len(s) : j = k \/ \E i \in 1 .. Len(s) - 1 : j = Skip(k, i)
      BY <3>1, SkipIs
    <3>5. Len(t) = Len(s) - 1
      BY <2>3
    <3> QED BY <3>2, <3>3, <3>4, <3>5, Zenon
  <2>6. InOrder(t)
    <3>1. \A i, j \in 1 .. Len(s) : i < j => Z!Precedes(s[i], s[j])
      BY <1>1, Zenon
    <3>2. ASSUME NEW i \in 1 .. Len(t), NEW j \in 1 .. Len(t), i < j
          PROVE  Z!Precedes(t[i], t[j])
      <4>1. Skip(k, i) < Skip(k, j)
        BY <2>5, <3>2
      <4> QED BY <2>4, <3>1, <4>1
    <3>3. \A i, j \in 1 .. Len(s) : s[i].name = s[j].name => i = j
      BY <1>1, Zenon
    <3>4. ASSUME NEW i \in 1 .. Len(t), NEW j \in 1 .. Len(t), t[i].name = t[j].name
          PROVE  i = j
      <4>1. Skip(k, i) = Skip(k, j)
        BY <2>4, <3>3, <3>4
      <4> QED BY <2>5, <4>1
    <3> QED BY <2>3, <3>2, <3>4 DEF InOrder
  <2>8. ASSUME NEW i \in 1 .. Len(t)
        PROVE  t[i].name \in DOMAIN g /\ t[i].score = g[t[i].name]
    <3> DEFINE j == Skip(k, i)
    <3>1. j \in 1 .. Len(s) /\ j # k /\ t[i] = s[j]
      BY <2>4
    <3> HIDE DEF j
    <3>2. s[j].name # name
      BY <1>1, <2>1, <3>1, Zenon
    <3>3. s[j].name \in DOMAIN f /\ s[j].score = f[s[j].name]
      BY <1>1, <3>1, Zenon
    <3> QED BY <1>2, <3>1, <3>2, <3>3
  <2>7. ASSUME NEW n \in DOMAIN g
        PROVE  \E i \in 1 .. Len(t) : t[i].name = n
    <3>1. n \in DOMAIN f /\ n # name
      BY <1>2
    <3>2. PICK j \in 1 .. Len(s) : s[j].name = n
      BY <1>1, <3>1
    <3>3. j # k
      BY <2>1, <3>1, <3>2
    <3>4. PICK i \in 1 .. Len(t) : j = Skip(k, i)
      BY <2>5, <3>3
    <3> QED BY <2>4, <3>2, <3>4
  <2> QED BY <1>2, <2>6, <2>7, <2>8, Zenon DEF IsMap, t, g
<1> QED BY <1>3, <1>4

\* slice::partition_point, on a vector that is in order.
LEMMA PartitionPointIs ==
    ASSUME Names \subseteq Int, NEW s, InOrder(s), NEW m \in Members,
           \A i \in 1 .. Len(s) : s[i].name # m.name
    PROVE  /\ Z!PartitionPoint(s, m) \in 0 .. Len(s)
           /\ \A i \in 1 .. Len(s) : IF i <= Z!PartitionPoint(s, m) THEN Z!Precedes(s[i], m)
                                     ELSE Z!Precedes(m, s[i])
<1> DEFINE before == {i \in DOMAIN s : Z!Precedes(s[i], m)}
           p == Z!PartitionPoint(s, m)
<1>1. /\ s \in Seq(Members) /\ Len(s) \in Nat /\ DOMAIN s = 1 .. Len(s)
      /\ \A i \in 1 .. Len(s) : s[i] \in Members
      /\ \A i, j \in 1 .. Len(s) : i < j => Z!Precedes(s[i], s[j])
  BY DEF InOrder
<1>2. before \in SUBSET (1 .. Len(s))
  BY <1>1
<1>3. ASSUME NEW i \in before, NEW j \in 1 .. i
      PROVE  j \in before
  <2>1. i \in 1 .. Len(s) /\ j \in 1 .. Len(s) /\ (j < i \/ j = i)
    BY <1>1
  <2>2. CASE j = i
    BY <2>2
  <2>3. CASE j < i
    <3>1. Z!Precedes(s[j], s[i]) /\ Z!Precedes(s[i], m) /\ s[j] \in Members /\ s[i] \in Members
      BY <1>1, <2>1, <2>3
    <3>2. Z!Precedes(s[j], m)
      BY <3>1, OrderIsTotal
    <3> QED BY <1>1, <2>1, <3>2
  <2> QED BY <2>1, <2>2, <2>3
<1>4. p = Cardinality(before)
  BY SameCount DEF Z!PartitionPoint
<1>5. Cardinality(before) \in Nat /\ before = 1 .. Cardinality(before)
  <2> HIDE DEF before
  <2>1. Len(s) \in Nat
    BY <1>1
  <2> QED BY <1>2, <1>3, <2>1, CountedUpTo, Zenon
<1>6. p \in Nat /\ before = 1 .. p
  BY <1>4, <1>5
<1>7. p \in 0 .. Len(s)
  <2>1. p = 0 \/ p \in before
    BY <1>6
  <2> QED BY <1>1, <1>2, <1>6, <2>1
<1>8. ASSUME NEW i \in 1 .. Len(s)
      PROVE  IF i <= p THEN Z!Precedes(s[i], m) ELSE Z!Precedes(m, s[i])
  <2>1. CASE i <= p
    <3>1. i \in before
      BY <1>1, <1>6, <2>1
    <3> QED BY <2>1, <3>1
  <2>2. CASE ~ (i <= p)
    <3>1. i \notin before
      BY <1>6, <2>2
    <3>2. ~ Z!Precedes(s[i], m)
      BY <1>1, <3>1
    <3>3. Z!Precedes(m, s[i])
      BY <1>1, <3>2, OrderIsTotal
    <3> QED BY <2>2, <3>3
  <2> QED BY <2>1, <2>2
<1> QED BY <1>7, <1>8

\* SortedSet::add: the map with the name at its new score.
LEMMA AddIs ==
    ASSUME Names \subseteq Int, NEW s, NEW f, IsMap(s, f), NEW score \in Int, NEW name \in Names
    PROVE  IsMap(Z!Add(s, score, name), With(f, name, score))
<1> DEFINE m == [score |-> score, name |-> name]
           rest == Z!Take(s, name)
           g == Without(f, {name})
           p == Z!PartitionPoint(rest, m)
           k == p + 1
           t == Z!Add(s, score, name)
           h == With(f, name, score)
<1>1. IsMap(rest, g)
  BY TakeIs
<1>2. t = Z!VecInsert(rest, p, m)
  BY DEF Z!Add
<1>3. /\ m \in Members /\ m.score = score /\ m.name = name
      /\ DOMAIN f \subseteq Names /\ f \in [DOMAIN f -> Int]
  BY DEF IsMap, Members
<1>4. /\ DOMAIN h = DOMAIN f \cup {name} /\ h \in [DOMAIN h -> Int] /\ DOMAIN h \subseteq Names
      /\ h[name] = score
      /\ DOMAIN g = DOMAIN f \ {name} /\ \A n \in DOMAIN g : n \in DOMAIN h /\ h[n] = g[n]
      /\ \A n \in DOMAIN h : n = name \/ n \in DOMAIN g
  BY <1>3 DEF With, Without
<1> HIDE DEF m, rest, g, t, h, p
<1>5. InOrder(rest) /\ rest \in Seq(Members) /\ Len(rest) \in Nat
  BY <1>1 DEF IsMap, InOrder
<1>6. /\ \A i \in 1 .. Len(rest) : rest[i].name \in DOMAIN g /\ rest[i].score = g[rest[i].name]
      /\ \A n \in DOMAIN g : \E i \in 1 .. Len(rest) : rest[i].name = n
  BY <1>1 DEF IsMap
<1>7. \A i \in 1 .. Len(rest) : rest[i].name # name
  BY <1>4, <1>6
<1>8. /\ p \in 0 .. Len(rest)
      /\ \A i \in 1 .. Len(rest) : IF i <= p THEN Z!Precedes(rest[i], m) ELSE Z!Precedes(m, rest[i])
  BY <1>3, <1>5, <1>7, PartitionPointIs DEF p
<1>9. k \in 1 .. Len(rest) + 1 /\ k - 1 = p /\ Len(rest) + 1 \in Nat /\ (Len(rest) + 1) - 1 = Len(rest)
  BY <1>5, <1>8
<1>10. /\ \A i \in 1 .. Len(rest) : i < k => Z!Precedes(rest[i], m)
       /\ \A i \in 1 .. Len(rest) : ~ (i < k) => Z!Precedes(m, rest[i])
  BY <1>8
<1> HIDE DEF k
<1>11. /\ t \in Seq(Members) /\ Len(t) = Len(rest) + 1 /\ t[k] = m
       /\ \A i \in 1 .. Len(rest) : t[Skip(k, i)] = rest[i]
  <2>1. t = Z!VecInsert(rest, k - 1, m)
    BY <1>2, <1>9
  <2>2. rest \in Seq(Members) /\ m \in Members /\ k \in 1 .. Len(rest) + 1
    BY <1>3, <1>5, <1>9
  <2>3. /\ Z!VecInsert(rest, k - 1, m) \in Seq(Members)
        /\ Len(Z!VecInsert(rest, k - 1, m)) = Len(rest) + 1
        /\ Z!VecInsert(rest, k - 1, m)[k] = m
        /\ \A i \in 1 .. Len(rest) : Z!VecInsert(rest, k - 1, m)[Skip(k, i)] = rest[i]
    BY <2>2, InsertAtIs
  <2> QED BY <2>1, <2>3
<1>12. \A j \in 1 .. Len(t) : j = k \/ \E i \in 1 .. Len(rest) : j = Skip(k, i)
  BY <1>9, <1>11, SkipIs
<1>13. /\ \A i, j \in 1 .. Len(rest) : Skip(k, i) < Skip(k, j) => i < j
       /\ \A i \in 1 .. Len(rest) : Skip(k, i) \in 1 .. Len(t)
  BY <1>9, <1>11, SkipIs
<1>14. \A i \in 1 .. Len(rest) : (Skip(k, i) < k => i < k) /\ (k < Skip(k, i) => ~ (i < k))
  BY <1>9, SkipIs
<1>15. ASSUME NEW a \in 1 .. Len(t), NEW b \in 1 .. Len(t), a < b
       PROVE  Z!Precedes(t[a], t[b])
  <2>1. ~ (a = k /\ b = k)
    BY <1>9, <1>11, <1>15
  <2>2. CASE a = k
    <3>1. PICK j \in 1 .. Len(rest) : b = Skip(k, j)
      BY <1>12, <2>1, <2>2
    <3>2. ~ (j < k)
      BY <1>14, <1>15, <2>2, <3>1
    <3> QED BY <1>10, <1>11, <2>2, <3>1, <3>2
  <2>3. CASE b = k
    <3>1. PICK i \in 1 .. Len(rest) : a = Skip(k, i)
      BY <1>12, <2>1, <2>3
    <3>2. i < k
      BY <1>14, <1>15, <2>3, <3>1
    <3> QED BY <1>10, <1>11, <2>3, <3>1, <3>2
  <2>4. CASE a # k /\ b # k
    <3>1. PICK i \in 1 .. Len(rest) : a = Skip(k, i)
      BY <1>12, <2>4
    <3>2. PICK j \in 1 .. Len(rest) : b = Skip(k, j)
      BY <1>12, <2>4
    <3>3. i < j
      BY <1>13, <1>15, <3>1, <3>2
    <3>4. Z!Precedes(rest[i], rest[j])
      BY <1>5, <3>3 DEF InOrder
    <3> QED BY <1>11, <3>1, <3>2, <3>4
  <2> QED BY <2>2, <2>3, <2>4
<1>16. ASSUME NEW a \in 1 .. Len(t), NEW b \in 1 .. Len(t), t[a].name = t[b].name
       PROVE  a = b
  <2>1. \A i \in 1 .. Len(rest) : t[Skip(k, i)].name # t[k].name
    BY <1>3, <1>7, <1>11
  <2>2. a = k <=> b = k
    BY <1>12, <1>16, <2>1
  <2>3. CASE a # k /\ b # k
    <3>1. PICK i \in 1 .. Len(rest) : a = Skip(k, i)
      BY <1>12, <2>3
    <3>2. PICK j \in 1 .. Len(rest) : b = Skip(k, j)
      BY <1>12, <2>3
    <3>3. rest[i].name = rest[j].name
      BY <1>11, <1>16, <3>1, <3>2
    <3>4. i = j
      BY <1>5, <3>3 DEF InOrder
    <3> QED BY <3>1, <3>2, <3>4
  <2> QED BY <2>2, <2>3
<1>17. InOrder(t)
  BY <1>11, <1>15, <1>16 DEF InOrder
<1>18. ASSUME NEW a \in 1 .. Len(t)
       PROVE  t[a].name \in DOMAIN h /\ t[a].score = h[t[a].name]
  <2>1. CASE a = k
    BY <1>3, <1>4, <1>11, <2>1
  <2>2. CASE a # k
    <3>1. PICK i \in 1 .. Len(rest) : a = Skip(k, i)
      BY <1>12, <2>2
    <3>2. t[a] = rest[i]
      BY <1>11, <3>1
    <3> QED BY <1>4, <1>6, <3>2
  <2> QED BY <2>1, <2>2
<1>19. ASSUME NEW n \in DOMAIN h
       PROVE  \E a \in 1 .. Len(t) : t[a].name = n
  <2>1. CASE n = name
    <3>1. k \in 1 .. Len(t)
      BY <1>9, <1>11
    <3> QED BY <1>3, <1>11, <2>1, <3>1
  <2>2. CASE n # name
    <3>1. PICK i \in 1 .. Len(rest) : rest[i].name = n
      BY <1>4, <1>6, <2>2
    <3>2. Skip(k, i) \in 1 .. Len(t) /\ t[Skip(k, i)] = rest[i]
      BY <1>11, <1>13
    <3> QED BY <3>1, <3>2
  <2> QED BY <2>1, <2>2
<1> QED BY <1>4, <1>17, <1>18, <1>19, Zenon DEF IsMap, t, h

\* A vector in order is some map.
LEMMA InOrderIsMap ==
    ASSUME NEW s, InOrder(s)
    PROVE  \E f : IsMap(s, f)
<1> DEFINE names == {s[i].name : i \in 1 .. Len(s)}
           f == [n \in names |-> s[Z!At(s, n)].score]
<1>1. s \in Seq(Members) /\ names \subseteq Names
  <2>1. s \in Seq(Members)
    BY DEF InOrder
  <2>2. \A i \in 1 .. Len(s) : s[i].name \in Names
    BY <2>1, MemberTypes, Zenon
  <2> QED BY <2>1, <2>2
<1>2. \A i \in 1 .. Len(s) : Z!At(s, s[i].name) = i
  BY AtIs
<1>3. \A i \in 1 .. Len(s) : s[i].score \in Int
  BY <1>1, MemberTypes, Zenon
<1>4. f \in [names -> Int]
  BY <1>2, <1>3
<1>5. \A i \in 1 .. Len(s) : s[i].name \in names /\ s[i].score = f[s[i].name]
  BY <1>2
<1>6. IsMap(s, f)
  BY <1>1, <1>4, <1>5 DEF IsMap
<1> QED BY <1>6

Vectors == {s \in Seq(Members) : InOrder(s)}

LEMMA MapInOrder ==
    ASSUME NEW s, NEW f, IsMap(s, f)
    PROVE  s \in Vectors
  BY DEF IsMap, InOrder, Vectors

\* g is what f comes to when the first k of the members are given to it, the
\* last of each name standing.
IsLatest(g, f, ms, k) ==
    /\ DOMAIN g = DOMAIN f \cup {ms[i].name : i \in 1 .. k}
    /\ \A n \in DOMAIN f : (\A i \in 1 .. k : ms[i].name # n) => g[n] = f[n]
    /\ \A i \in 1 .. k : (\A j \in 1 .. k : i < j => ms[j].name # ms[i].name) =>
           g[ms[i].name] = ms[i].score

\* The members added in turn.
LEMMA AddAllStepwise ==
    ASSUME Names \subseteq Int, NEW s \in Vectors, NEW ms, NEW n \in Nat, Len(ms) = n,
           \A i \in 1 .. n : ms[i].score \in Int /\ ms[i].name \in Names
    PROVE  \E h : /\ h[0] = s /\ \A i \in 1 .. n : h[i] = Z!Add(h[i - 1], ms[i].score, ms[i].name)
                  /\ Z!AddAll(s, ms) = h[n]
<1> DEFINE step == [i \in 1 .. n |-> [v \in Vectors |-> Z!Add(v, ms[i].score, ms[i].name)]]
<1>1. ASSUME NEW i \in 1 .. n
      PROVE  [v \in Vectors |-> Z!Add(v, ms[i].score, ms[i].name)] \in [Vectors -> Vectors]
  <2>1. ASSUME NEW v \in Vectors
        PROVE  Z!Add(v, ms[i].score, ms[i].name) \in Vectors
    <3>1. PICK f : IsMap(v, f)
      BY InOrderIsMap DEF Vectors
    <3>2. ms[i].score \in Int /\ ms[i].name \in Names
      OBVIOUS
    <3>3. \E g : IsMap(Z!Add(v, ms[i].score, ms[i].name), g)
      BY <3>1, <3>2, AddIs, Zenon
    <3> QED BY <3>3, MapInOrder, Zenon
  <2> QED BY <2>1, Zenon
<1>2. step \in [1 .. n -> [Vectors -> Vectors]]
  BY <1>1, Zenon
<1>3. \A i \in 1 .. n : \A v \in Vectors : step[i][v] = Z!Add(v, ms[i].score, ms[i].name)
  BY Zenon
<1> HIDE DEF step
<1>4. PICK f \in [0 .. n -> Vectors] : Steps(f, s, n, step)
  <2>1. n \in Nat /\ s \in Vectors
    OBVIOUS
  <2> QED BY <1>2, <2>1, StepsExist, Zenon
<1>5. \A i \in 1 .. n : f[i] = Z!Add(f[i - 1], ms[i].score, ms[i].name)
  <2> TAKE i \in 1 .. n
  <2>1. i - 1 \in 0 .. n
    OBVIOUS
  <2> QED BY <1>3, <1>4, <2>1, Zenon DEF Steps
<1> DEFINE upto == CHOOSE h : h = [i \in 0 .. n |-> IF i = 0 THEN s
                                         ELSE Z!Add(h[i - 1], ms[i].score, ms[i].name)]
<1>6. \A i \in 0 .. n : i = 0 \/ i \in 1 .. n
  OBVIOUS
<1>7. f = [i \in 0 .. n |-> IF i = 0 THEN s ELSE Z!Add(f[i - 1], ms[i].score, ms[i].name)]
  BY <1>4, <1>5, <1>6, Zenon DEF Steps
<1>8. upto = [i \in 0 .. n |-> IF i = 0 THEN s ELSE Z!Add(upto[i - 1], ms[i].score, ms[i].name)]
  BY <1>7, Zenon
<1>9. Z!AddAll(s, ms) = upto[n]
  BY DEF Z!AddAll
<1> HIDE DEF upto
<1>10. upto[0] = s /\ \A i \in 1 .. n : upto[i] = Z!Add(upto[i - 1], ms[i].score, ms[i].name)
  <2>1. 0 \in 0 .. n /\ \A i \in 1 .. n : i \in 0 .. n /\ i # 0
    OBVIOUS
  <2> QED BY <1>8, <2>1, Zenon
<1> QED BY <1>9, <1>10

\* ZADD: the map with every name at the score last given to it.
LEMMA AddAllIs ==
    ASSUME Names \subseteq Int, NEW s, NEW f, IsMap(s, f), NEW ms, NEW n \in Nat, Len(ms) = n,
           \A i \in 1 .. n : ms[i].score \in Int /\ ms[i].name \in Names
    PROVE  \E g : IsMap(Z!AddAll(s, ms), g) /\ IsLatest(g, f, ms, n)
<1>1. s \in Vectors
  BY MapInOrder
<1>2. PICK h : /\ h[0] = s /\ \A i \in 1 .. n : h[i] = Z!Add(h[i - 1], ms[i].score, ms[i].name)
               /\ Z!AddAll(s, ms) = h[n]
  BY <1>1, AddAllStepwise
<1> DEFINE T == {k \in Nat : k <= n => \E g : IsMap(h[k], g) /\ IsLatest(g, f, ms, k)}
<1>3. 0 \in T
  <2>1. IsLatest(f, f, ms, 0)
    <3>1. {ms[i].name : i \in 1 .. 0} = {} /\ 1 .. 0 = {}
      OBVIOUS
    <3> QED BY <3>1, Zenon DEF IsLatest
  <2> QED BY <1>2, <2>1
<1>4. ASSUME NEW k \in T PROVE k + 1 \in T
  <2>1. k \in Nat
    OBVIOUS
  <2> SUFFICES ASSUME k + 1 <= n
               PROVE  \E g : IsMap(h[k + 1], g) /\ IsLatest(g, f, ms, k + 1)
    BY <2>1
  <2>2. PICK g : IsMap(h[k], g) /\ IsLatest(g, f, ms, k)
    BY <2>1
  <2> DEFINE name == ms[k + 1].name
             score == ms[k + 1].score
             e == With(g, name, score)
  <2>3. k + 1 \in 1 .. n /\ (k + 1) - 1 = k /\ score \in Int /\ name \in Names
    BY <2>1
  <2>4. h[k + 1] = Z!Add(h[k], score, name)
    BY <1>2, <2>3
  <2>5. IsMap(h[k + 1], e)
    <3>1. IsMap(h[k], g) /\ score \in Int /\ name \in Names
      BY <2>2, <2>3
    <3>2. IsMap(Z!Add(h[k], score, name), e)
      <4> HIDE DEF name, score
      <4> QED BY <3>1, AddIs, Zenon
    <3> QED BY <2>4, <3>2
  <2>6. IsLatest(e, f, ms, k + 1)
    <3> USE DEF With
    <3>1. 1 .. k + 1 = (1 .. k) \cup {k + 1} /\ \A i \in 1 .. k : i < k + 1 /\ i # k + 1
      BY <2>1
    <3>2. {ms[i].name : i \in 1 .. k + 1} = {ms[i].name : i \in 1 .. k} \cup {name}
      BY <3>1
    <3>3. DOMAIN e = DOMAIN f \cup {ms[i].name : i \in 1 .. k + 1}
      BY <2>2, <3>2 DEF IsLatest
    <3>4. ASSUME NEW m \in DOMAIN f, \A i \in 1 .. k + 1 : ms[i].name # m
          PROVE  e[m] = f[m]
      <4>1. m # name /\ \A i \in 1 .. k : ms[i].name # m
        BY <3>1, <3>4
      <4> QED BY <2>2, <4>1 DEF IsLatest
    <3>5. ASSUME NEW i \in 1 .. k + 1, \A j \in 1 .. k + 1 : i < j => ms[j].name # ms[i].name
          PROVE  e[ms[i].name] = ms[i].score
      <4>1. CASE i = k + 1
        BY <4>1
      <4>2. CASE i \in 1 .. k
        <5>1. ms[i].name # name /\ \A j \in 1 .. k : i < j => ms[j].name # ms[i].name
          BY <3>1, <3>5, <4>2
        <5>2. ms[i].name \in DOMAIN g /\ g[ms[i].name] = ms[i].score
          BY <2>2, <4>2, <5>1 DEF IsLatest
        <5> QED BY <5>1, <5>2
      <4> QED BY <3>1, <4>1, <4>2
    <3> QED BY <3>3, <3>4, <3>5, Zenon DEF IsLatest
  <2> QED BY <2>5, <2>6
<1>5. T = Nat
  <2>1. T \in SUBSET Nat
    OBVIOUS
  <2> HIDE DEF T
  <2> QED BY <1>3, <1>4, <2>1, AllNaturals
<1>6. n \in T /\ n <= n
  <2> HIDE DEF T
  <2> QED BY <1>5
<1> QED BY <1>2, <1>6

FirstOf(names, n) == {names[i] : i \in 1 .. n}

\* ZREM, one name after another: the map without them.
LEMMA TakeAllIs ==
    ASSUME NEW s, NEW f, IsMap(s, f), NEW names, NEW n \in Nat, Len(names) = n
    PROVE  IsMap(Z!TakeAll(s, names), Without(f, FirstOf(names, n)))
<1> DEFINE step == [i \in 1 .. n |-> [v \in Vectors |-> Z!Take(v, names[i])]]
           Rest(k) == Without(f, {names[i] : i \in 1 .. k})
<1>1. s \in Vectors
  BY MapInOrder
<1>2. ASSUME NEW i \in 1 .. n
      PROVE  [v \in Vectors |-> Z!Take(v, names[i])] \in [Vectors -> Vectors]
  <2>1. ASSUME NEW v \in Vectors
        PROVE  Z!Take(v, names[i]) \in Vectors
    <3>1. PICK g : IsMap(v, g)
      BY InOrderIsMap DEF Vectors
    <3>2. \E e : IsMap(Z!Take(v, names[i]), e)
      BY <3>1, TakeIs, Zenon
    <3> QED BY <3>2, MapInOrder, Zenon
  <2> QED BY <2>1, Zenon
<1>3. step \in [1 .. n -> [Vectors -> Vectors]]
  BY <1>2, Zenon
<1>4. \A i \in 1 .. n : \A v \in Vectors : step[i][v] = Z!Take(v, names[i])
  BY Zenon
<1> HIDE DEF step
<1>5. PICK h \in [0 .. n -> Vectors] : Steps(h, s, n, step)
  <2>1. n \in Nat
    OBVIOUS
  <2> QED BY <1>1, <1>3, <2>1, StepsExist, Zenon
<1>6. \A i \in 1 .. n : h[i] = Z!Take(h[i - 1], names[i])
  <2> TAKE i \in 1 .. n
  <2>1. i - 1 \in 0 .. n
    OBVIOUS
  <2> QED BY <1>4, <1>5, <2>1, Zenon DEF Steps
<1> DEFINE upto == CHOOSE a : a = [i \in 0 .. n |-> IF i = 0 THEN s ELSE Z!Take(a[i - 1], names[i])]
<1>7. \A i \in 0 .. n : i = 0 \/ i \in 1 .. n
  OBVIOUS
<1>8. h = [i \in 0 .. n |-> IF i = 0 THEN s ELSE Z!Take(h[i - 1], names[i])]
  BY <1>5, <1>6, <1>7, Zenon DEF Steps
<1>9. upto = [i \in 0 .. n |-> IF i = 0 THEN s ELSE Z!Take(upto[i - 1], names[i])]
  BY <1>8, Zenon
<1>10. Z!TakeAll(s, names) = upto[n]
  BY DEF Z!TakeAll
<1> HIDE DEF upto
<1>11. upto[0] = s /\ \A i \in 1 .. n : upto[i] = Z!Take(upto[i - 1], names[i])
  <2>1. 0 \in 0 .. n /\ \A i \in 1 .. n : i \in 0 .. n /\ i # 0
    OBVIOUS
  <2> QED BY <1>9, <2>1, Zenon
<1> DEFINE T == {k \in Nat : k <= n => IsMap(upto[k], Rest(k))}
<1>12. 0 \in T
  <2>1. {names[i] : i \in 1 .. 0} = {}
    OBVIOUS
  <2>2. DOMAIN f \ {names[i] : i \in 1 .. 0} = DOMAIN f
    BY <2>1, Zenon
  <2>3. f = [m \in DOMAIN f |-> f[m]]
    <3>1. f \in [DOMAIN f -> Int]
      BY DEF IsMap
    <3> QED BY <3>1
  <2>4. Rest(0) = f
    BY <2>2, <2>3, Zenon DEF Without
  <2> QED BY <1>11, <2>4
<1>13. ASSUME NEW k \in T PROVE k + 1 \in T
  <2>1. k \in Nat
    OBVIOUS
  <2> SUFFICES ASSUME k + 1 <= n
               PROVE  IsMap(upto[k + 1], Rest(k + 1))
    BY <2>1
  <2>2. IsMap(upto[k], Rest(k)) /\ k + 1 \in 1 .. n /\ (k + 1) - 1 = k
    BY <2>1
  <2>3. upto[k + 1] = Z!Take(upto[k], names[k + 1])
    BY <1>11, <2>2
  <2>4. Rest(k + 1) = Without(Rest(k), {names[k + 1]})
    <3>1. 1 .. k + 1 = (1 .. k) \cup {k + 1}
      BY <2>1
    <3>2. DOMAIN f \ {names[i] : i \in 1 .. k + 1}
              = (DOMAIN f \ {names[i] : i \in 1 .. k}) \ {names[k + 1]}
      BY <3>1
    <3> QED BY <3>2 DEF Without
  <2> HIDE DEF Rest
  <2>5. IsMap(Z!Take(upto[k], names[k + 1]), Rest(k + 1))
    <3>1. IsMap(upto[k], Rest(k))
      BY <2>2
    <3>2. IsMap(Z!Take(upto[k], names[k + 1]), Without(Rest(k), {names[k + 1]}))
      BY <3>1, TakeIs, Zenon
    <3> QED BY <2>4, <3>2, Zenon
  <2> QED BY <2>3, <2>5
<1>14. T = Nat
  <2>1. T \in SUBSET Nat
    OBVIOUS
  <2> HIDE DEF T
  <2> QED BY <1>12, <1>13, <2>1, AllNaturals
<1>15. n \in T /\ n <= n
  <2> HIDE DEF T
  <2> QED BY <1>14
<1> QED BY <1>10, <1>15 DEF FirstOf

\* The names of the first k members are k names.
LEMMA NamesCounted ==
    ASSUME NEW s, InOrder(s), NEW k \in 0 .. Len(s)
    PROVE  Cardinality({s[j].name : j \in 1 .. k}) = k
<1> DEFINE names == {s[j].name : j \in 1 .. k}
           b == [j \in 1 .. k |-> s[j].name]
<1>1. Len(s) \in Nat /\ k \in Nat /\ \A j \in 1 .. k : j \in 1 .. Len(s)
  BY DEF InOrder
<1>2. b \in [1 .. k -> names]
  OBVIOUS
<1>3. \A i, j \in 1 .. k : b[i] = b[j] => i = j
  BY <1>1 DEF InOrder
<1>4. \A n \in names : \E j \in 1 .. k : b[j] = n
  OBVIOUS
<1> HIDE DEF b, names
<1>5. b \in Bijection(1 .. k, names)
  BY <1>2, <1>3, <1>4 DEF Bijection, Injection, Surjection, IsInjective
<1>6. ExistsBijection(1 .. k, names)
  BY <1>5 DEF ExistsBijection
<1>7. IsFiniteSet(1 .. k) /\ Cardinality(1 .. k) = k
  BY <1>1, FS_Interval
<1> QED BY <1>6, <1>7, FS_Bijection DEF names

\* Which names come before this one.
Below(f, n) == {m \in DOMAIN f : f[m] < f[n] \/ (f[m] = f[n] /\ m < n)}

\* A member is at the place its score and its name earn it.
LEMMA RankIs ==
    ASSUME Names \subseteq Int, NEW s, NEW f, IsMap(s, f)
    PROVE  /\ Cardinality(DOMAIN f) = Len(s)
           /\ \A i \in 1 .. Len(s) : Cardinality(Below(f, s[i].name)) = i - 1
<1>1. /\ InOrder(s) /\ s \in Seq(Members) /\ Len(s) \in Nat
      /\ \A i, j \in 1 .. Len(s) : i < j => Z!Precedes(s[i], s[j])
  BY DEF IsMap, InOrder
<1>2. /\ \A i \in 1 .. Len(s) : s[i].name \in DOMAIN f /\ s[i].score = f[s[i].name]
      /\ \A n \in DOMAIN f : \E i \in 1 .. Len(s) : s[i].name = n
  BY DEF IsMap
<1>3. Cardinality(DOMAIN f) = Len(s)
  <2>1. DOMAIN f = {s[j].name : j \in 1 .. Len(s)}
    BY <1>2
  <2> QED BY <1>1, <2>1, NamesCounted
<1>4. ASSUME NEW i \in 1 .. Len(s)
      PROVE  Cardinality(Below(f, s[i].name)) = i - 1
  <2>1. ASSUME NEW j \in 1 .. Len(s)
        PROVE  s[j].name \in Below(f, s[i].name) <=> j \in 1 .. i - 1
    <3>1. s[i] \in Members /\ s[j] \in Members
      BY <1>1, MemberTypes
    <3>2. s[j].name \in Below(f, s[i].name) <=> Z!Precedes(s[j], s[i])
      BY <1>2, Zenon DEF Below, Z!Precedes
    <3>3. CASE j < i
      BY <1>1, <3>2, <3>3
    <3>4. CASE i < j
      <4>1. Z!Precedes(s[i], s[j])
        BY <1>1, <3>4
      <4>2. ~ Z!Precedes(s[j], s[i])
        BY <3>1, <4>1, OrderIsTotal
      <4> QED BY <3>2, <3>4, <4>2
    <3>5. CASE i = j
      <4>1. ~ Z!Precedes(s[j], s[i])
        BY <3>1, <3>5, OrderIsTotal
      <4> QED BY <3>2, <3>5, <4>1
    <3> QED BY <1>1, <3>3, <3>4, <3>5
  <2>2. i - 1 \in 0 .. Len(s) /\ \A j \in 1 .. i - 1 : j \in 1 .. Len(s)
    BY <1>1
  <2>3. Below(f, s[i].name) \subseteq DOMAIN f
    BY DEF Below
  <2>4. Below(f, s[i].name) = {s[j].name : j \in 1 .. i - 1}
    <3>1. ASSUME NEW n \in Below(f, s[i].name)
          PROVE  n \in {s[j].name : j \in 1 .. i - 1}
      <4>1. PICK j \in 1 .. Len(s) : s[j].name = n
        BY <1>2, <2>3
      <4> QED BY <2>1, <4>1
    <3>2. ASSUME NEW j \in 1 .. i - 1
          PROVE  s[j].name \in Below(f, s[i].name)
      BY <2>1, <2>2
    <3> QED BY <3>1, <3>2
  <2> QED BY <1>1, <2>2, <2>4, NamesCounted
<1> QED BY <1>3, <1>4

LEMMA SliceIs ==
    ASSUME NEW X, NEW s \in Seq(X), NEW a \in Nat, NEW b \in Nat, a < b, b <= Len(s)
    PROVE  /\ DOMAIN SubSeq(s, a + 1, b) = 1 .. b - a
           /\ \A i \in 1 .. b - a : SubSeq(s, a + 1, b)[i] = s[i + a]
<1>1. Len(s) \in Nat
  OBVIOUS
<1>2. SubSeq(s, a + 1, b) \in Seq(X) /\ Len(SubSeq(s, a + 1, b)) = b - a
  BY <1>1
<1>3. DOMAIN SubSeq(s, a + 1, b) = 1 .. b - a
  BY <1>2
<1>4. \A i \in 1 .. b - a : SubSeq(s, a + 1, b)[i] = s[i + a]
  BY <1>1
<1> QED BY <1>3, <1>4

\* w is what s has from one place to another, counted from 0.
IsWindow(w, s, from, last) ==
    /\ \A i \in DOMAIN w : \E j \in 1 .. Len(s) : w[i] = s[j] /\ j - 1 \in from .. last
    /\ \A j \in 1 .. Len(s) : j - 1 \in from .. last => \E i \in DOMAIN w : w[i] = s[j]

\* ZRANGE reads what its window says, by place.
LEMMA WindowIs ==
    ASSUME NEW s \in Seq(Members), NEW start \in Int, NEW stop \in Int,
           NEW from, from = Z!ResolveIndex(start, Len(s)),
           NEW last, last = Z!ResolveIndex(stop, Len(s)),
           NEW w, w = Z!Window(s, start, stop)
    PROVE  IsWindow(w, s, from, last)
<1> USE DEF IsWindow
<1> DEFINE end == IF last < Len(s) THEN last + 1 ELSE Len(s)
<1>1. Len(s) \in Nat /\ from \in Nat /\ last \in Nat
  BY DEF Z!ResolveIndex
<1>2. w = IF from > last \/ from >= Len(s) THEN << >> ELSE SubSeq(s, from + 1, end)
  BY DEF Z!Window
<1>3. CASE from > last \/ from >= Len(s)
  <2>1. w = << >> /\ \A j \in 1 .. Len(s) : ~ (j - 1 \in from .. last)
    BY <1>1, <1>2, <1>3
  <2> QED BY <2>1
<1>4. CASE ~ (from > last \/ from >= Len(s))
  <2>1. end \in Nat /\ from + 1 \in 1 .. Len(s) /\ end \in 1 .. Len(s) /\ from + 1 <= end /\ from < end /\ end <= Len(s)
    BY <1>1, <1>4
  <2>2. \A j \in 1 .. Len(s) : j - 1 \in from .. last <=> j \in from + 1 .. end
    BY <1>1, <1>4
  <2> HIDE DEF end
  <2>3. w = SubSeq(s, from + 1, end)
    BY <1>2, <1>4, Zenon
  <2>4. DOMAIN w = 1 .. end - from /\ \A i \in 1 .. end - from : w[i] = s[i + from]
    <3>1. /\ DOMAIN SubSeq(s, from + 1, end) = 1 .. end - from
          /\ \A i \in 1 .. end - from : SubSeq(s, from + 1, end)[i] = s[i + from]
      BY <1>1, <2>1, SliceIs, Zenon
    <3> QED BY <2>3, <3>1, Zenon
  <2>5. ASSUME NEW i \in DOMAIN w
        PROVE  \E j \in 1 .. Len(s) : w[i] = s[j] /\ j - 1 \in from .. last
    <3>1. i + from \in 1 .. Len(s) /\ i + from \in from + 1 .. end
      BY <1>1, <2>1, <2>4
    <3>2. w[i] = s[i + from] /\ (i + from) - 1 \in from .. last
      BY <2>2, <2>4, <3>1
    <3> QED BY <3>1, <3>2
  <2>6. ASSUME NEW j \in 1 .. Len(s), j - 1 \in from .. last
        PROVE  \E i \in DOMAIN w : w[i] = s[j]
    <3>1. j \in from + 1 .. end
      BY <2>2, <2>6
    <3>2. j - from \in 1 .. end - from /\ (j - from) + from = j
      BY <1>1, <2>1, <3>1
    <3> QED BY <2>4, <3>2
  <2> QED BY <2>5, <2>6
<1> QED BY <1>3, <1>4

LEMMA Greatest ==
    ASSUME NEW n \in Nat, NEW G \in SUBSET (1 .. n), G # {}
    PROVE  \E x \in G : \A y \in G : y <= x
<1> DEFINE T == {n - x : x \in G}
<1>1. T \in SUBSET Nat /\ T # {}
  <2>1. \A x \in G : n - x \in Nat
    OBVIOUS
  <2>2. T \in SUBSET Nat
    BY <2>1, Zenon
  <2>3. T # {}
    BY Zenon
  <2> QED BY <2>2, <2>3
<1>2. PICK t \in T : \A u \in T : t <= u
  <2> HIDE DEF T
  <2> QED BY <1>1, Least
<1>3. PICK x \in G : t = n - x
  OBVIOUS
<1>4. ASSUME NEW y \in G PROVE y <= x
  <2>1. n - x <= n - y
    BY <1>2, <1>3, Zenon
  <2> QED BY <2>1
<1> QED BY <1>4

\* The places of a name among the members, and the last of them.
GivenAt(ms, k, n) == {i \in 1 .. k : ms[i].name = n}
LastOf(G) == CHOOSE x \in G : \A y \in G : y <= x

\* h has every name at the score last given to it, worked out name by name.
StandsLast(h, f, ms, k) ==
    /\ h \in [DOMAIN f \cup {ms[i].name : i \in 1 .. k} -> Int]
    /\ \A n \in DOMAIN h : h[n] = IF GivenAt(ms, k, n) = {} THEN f[n]
                                  ELSE ms[LastOf(GivenAt(ms, k, n))].score

\* The score that stands for a name is the one given to it last.
LEMMA LatestIs ==
    ASSUME NEW f, NEW g, NEW ms, NEW k \in Nat, IsLatest(g, f, ms, k), g \in [DOMAIN g -> Int],
           NEW h, StandsLast(h, f, ms, k)
    PROVE  g = h
<1>1. DOMAIN g = DOMAIN h /\ h \in [DOMAIN h -> Int]
  BY DEF IsLatest, StandsLast
<1>2. ASSUME NEW n \in DOMAIN h PROVE g[n] = h[n]
  <2> DEFINE G == GivenAt(ms, k, n)
             x == LastOf(G)
  <2>1. G \in SUBSET (1 .. k) /\ \A i \in 1 .. k : i \in G <=> ms[i].name = n
    BY DEF GivenAt
  <2>2. h[n] = IF G = {} THEN f[n] ELSE ms[x].score
    BY DEF StandsLast
  <2> HIDE DEF G
  <2>3. CASE G = {}
    <3>1. \A i \in 1 .. k : ms[i].name # n
      BY <2>1, <2>3
    <3>2. n \in DOMAIN f
      BY <3>1 DEF StandsLast
    <3> QED BY <2>2, <2>3, <3>1, <3>2 DEF IsLatest
  <2>4. CASE G # {}
    <3>1. x \in G /\ \A y \in G : y <= x
      <4>1. \E z \in G : \A y \in G : y <= z
        BY <2>1, <2>4, Greatest
      <4> QED BY <4>1 DEF LastOf
    <3> HIDE DEF x
    <3>2. x \in 1 .. k /\ ms[x].name = n
      BY <2>1, <3>1
    <3>3. \A j \in 1 .. k : x < j => ms[j].name # ms[x].name
      <4> TAKE j \in 1 .. k
      <4>1. j \in G => j <= x
        BY <3>1
      <4> QED BY <2>1, <3>2, <4>1
    <3> QED BY <2>2, <2>4, <3>2, <3>3 DEF IsLatest
  <2> QED BY <2>3, <2>4
<1> QED BY <1>1, <1>2

LEMMA EmptyMaps ==
    ASSUME NEW s, NEW f
    PROVE  /\ IsMap(s, f) => (s = << >> <=> DOMAIN f = {})
           /\ f \in [{} -> Int] => IsMap(<< >>, f)
<1>1. ASSUME IsMap(s, f) PROVE s = << >> <=> DOMAIN f = {}
  <2>1. /\ s \in Seq(Members) /\ Len(s) \in Nat
        /\ \A i \in 1 .. Len(s) : s[i].name \in DOMAIN f
        /\ \A n \in DOMAIN f : \E i \in 1 .. Len(s) : s[i].name = n
    BY <1>1 DEF IsMap, InOrder
  <2>2. ASSUME s = << >> PROVE DOMAIN f = {}
    <3>1. 1 .. Len(s) = {}
      BY <2>2
    <3> QED BY <2>1, <3>1, Zenon
  <2>3. ASSUME s # << >> PROVE DOMAIN f # {}
    <3>1. 1 \in 1 .. Len(s)
      BY <2>1, <2>3
    <3> QED BY <2>1, <3>1
  <2> QED BY <2>2, <2>3
<1>2. ASSUME f \in [{} -> Int] PROVE IsMap(<< >>, f)
  <2>1. << >> \in Seq(Members) /\ 1 .. Len(<< >>) = {}
    OBVIOUS
  <2>2. InOrder(<< >>)
    BY <2>1, Zenon DEF InOrder
  <2>3. DOMAIN f = {} /\ f \in [DOMAIN f -> Int] /\ DOMAIN f \subseteq Names
    BY <1>2
  <2> QED BY <2>1, <2>2, <2>3, Zenon DEF IsMap
<1> QED BY <1>1, <1>2

-----------------------------------------------------------------------------
(* The key that holds a sorted set, and who reads it (Places).             *)

CONSTANTS BITS, Scores, Points, Asked, MaxBatch, MaxMeanwhile, NotANumber, NotHeld, WrongType

VARIABLES held, set, reader, meant, since

P == INSTANCE Places WITH kind <- held

\* Places does with the vectors what SortedSets does.
LEMMA SameSets ==
    ASSUME NEW s, NEW x, NEW y
    PROVE  /\ P!Cardinality(x) = Cardinality(x)
           /\ P!At(s, x) = Z!At(s, x) /\ P!Holds(s, x) = Z!Holds(s, x)
           /\ P!Score(s, x) = Z!Score(s, x) /\ P!Window(s, x, y) = Z!Window(s, x, y)
<1>1. P!Cardinality(x) = Cardinality(x)
  BY Zenon DEF P!Cardinality, Cardinality, P!IsFiniteSet, IsFiniteSet
<1>2. P!At(s, x) = Z!At(s, x)
  BY Zenon DEF P!At, Z!At
<1>3. P!Holds(s, x) = Z!Holds(s, x) /\ P!Score(s, x) = Z!Score(s, x)
  BY <1>2, Zenon DEF P!Holds, Z!Holds, P!Score, Z!Score
<1>4. P!Window(s, x, y) = Z!Window(s, x, y)
  BY Zenon DEF P!Window, Z!Window, P!ResolveIndex, Z!ResolveIndex
<1> QED BY <1>1, <1>2, <1>3, <1>4

LEMMA SameTakeAll ==
    ASSUME NEW s, NEW x
    PROVE  P!TakeAll(s, x) = Z!TakeAll(s, x)
  BY Zenon DEF P!TakeAll, Z!TakeAll, P!Take, Z!Take, P!VecRemove, Z!VecRemove,
               P!Holds, Z!Holds, P!At, Z!At

LEMMA SameAddAll ==
    ASSUME NEW s, NEW x
    PROVE  P!AddAll(s, x) = Z!AddAll(s, x)
  BY Zenon DEF P!AddAll, Z!AddAll, P!Add, Z!Add, P!VecInsert, Z!VecInsert,
               P!PartitionPoint, Z!PartitionPoint, P!Precedes, Z!Precedes,
               P!Cardinality, Z!Cardinality, P!IsFiniteSet, Z!IsFiniteSet,
               P!Take, Z!Take, P!VecRemove, Z!VecRemove, P!Holds, Z!Holds, P!At, Z!At

\* What a command is taken to mean: a score that is a number, or a place on the
\* earth.
Fits(meaning) ==
    /\ meaning \in P!Meanings
    /\ IF meaning.by = "score" THEN meaning.is # NotANumber ELSE P!OnEarth(meaning.is)

ScoreMap == [n \in DOMAIN meant |-> P!ScoreMeant(meant[n])]

\* The vector is the map of the scores meant, and the key holds a set just
\* while there are any.
KeptInOrder ==
    /\ held = "set" <=> DOMAIN meant # {}
    /\ \A n \in DOMAIN meant : Fits(meant[n])
    /\ IsMap(set, ScoreMap)

LEMMA ScoresMeant ==
    ASSUME P!ConstantsFit, P!WeavingIsExact, NEW meaning, Fits(meaning)
    PROVE  /\ P!ScoreMeant(meaning) \in Int
           /\ P!ScoreMeant(meaning) =
                  IF meaning.by = "score" THEN meaning.is
                  ELSE P!AsDouble(P!Woven(meaning.is.north \div 4, meaning.is.east \div 4))
<1>1. CASE meaning \in [by : {"score"}, is : Scores]
  <2>1. meaning.by = "score" /\ meaning.is \in Scores
    BY <1>1
  <2>2. meaning.is \in Int
    BY <2>1, Zenon DEF Fits, P!ConstantsFit
  <2> QED BY <2>1, <2>2 DEF P!ScoreMeant
<1>2. CASE meaning \in [by : {"place"}, is : Points]
  <2>1. meaning.by = "place" /\ "place" # "score" /\ meaning.is \in Points
    BY <1>2
  <2>2. meaning.is \in {p \in Points : P!OnEarth(p)}
    BY <2>1 DEF Fits
  <2>3. /\ P!ScoreOf(meaning.is) \in Int
        /\ P!ScoreOf(meaning.is)
               = P!AsDouble(P!Woven(meaning.is.north \div 4, meaning.is.east \div 4))
    BY <2>2, Zenon DEF P!WeavingIsExact
  <2> QED BY <2>1, <2>3, Zenon DEF P!ScoreMeant
<1> QED BY <1>1, <1>2 DEF Fits, P!Meanings

LEMMA InitInOrder ==
    ASSUME P!Init
    PROVE  KeptInOrder
<1>1. held = "none" /\ set = << >> /\ meant = << >> /\ DOMAIN << >> = {}
  BY DEF P!Init
<1>2. DOMAIN meant = {} /\ held # "set"
  BY <1>1
<1>3. ScoreMap \in [{} -> Int]
  BY <1>2 DEF ScoreMap
<1>4. IsMap(set, ScoreMap)
  BY <1>1, <1>3, EmptyMaps, Zenon
<1> QED BY <1>2, <1>4 DEF KeptInOrder

\* A step that leaves the set alone may drop what was stale.
LEMMA SetLeftAlone ==
    ASSUME KeptInOrder, UNCHANGED <<set, meant>>, held' = "set" <=> held = "set"
    PROVE  KeptInOrder'
<1>1. ScoreMap' = ScoreMap
  BY DEF ScoreMap
<1>2. set' = set /\ meant' = meant
  OBVIOUS
<1>3. IsMap(set', ScoreMap')
  BY <1>1, <1>2, Zenon DEF KeptInOrder
<1> QED BY <1>2, <1>3 DEF KeptInOrder

\* A batch brings the members that its items mean.
LEMMA BatchIs ==
    ASSUME P!ConstantsFit, P!WeavingIsExact,
           NEW items, items \in {P!Scored, P!Located}, NEW batch \in P!Batches(items),
           \A i \in DOMAIN batch : P!Readable(batch[i]),
           NEW ms, ms = [i \in DOMAIN batch |->
                            [name |-> batch[i].name, score |-> P!ScoreMeant(batch[i].means)]]
    PROVE  \E k \in Nat : /\ 1 <= k /\ DOMAIN batch = 1 .. k /\ Len(ms) = k
                          /\ \A i \in 1 .. k : /\ ms[i].score \in Int /\ ms[i].name \in Names
                                               /\ ms[i].name = batch[i].name
                                               /\ ms[i].score = P!ScoreMeant(batch[i].means)
                                               /\ Fits(batch[i].means)
<1>1. PICK k \in Nat : 1 <= k /\ batch \in [1 .. k -> items]
  BY DEF P!Batches, P!ConstantsFit
<1>2. ASSUME NEW i \in 1 .. k
      PROVE  batch[i].name \in Names /\ Fits(batch[i].means)
  <2>1. batch[i] \in items /\ P!Readable(batch[i])
    BY <1>1
  <2>2. batch[i].name \in Names /\ batch[i].means \in P!Meanings
    <3>1. CASE items = P!Scored
      <4>1. batch[i] \in [name : Names, means : [by : {"score"}, is : Scores]]
        BY <2>1, <3>1, Zenon DEF P!Scored
      <4>2. batch[i].name \in Names /\ batch[i].means \in [by : {"score"}, is : Scores]
        BY <4>1
      <4> QED BY <4>2, Zenon DEF P!Meanings
    <3>2. CASE items = P!Located
      <4>1. batch[i] \in [name : Names, means : [by : {"place"}, is : Points]]
        BY <2>1, <3>2, Zenon DEF P!Located
      <4>2. batch[i].name \in Names /\ batch[i].means \in [by : {"place"}, is : Points]
        BY <4>1
      <4> QED BY <4>2, Zenon DEF P!Meanings
    <3> QED BY <3>1, <3>2, Zenon
  <2> QED BY <2>1, <2>2, Zenon DEF Fits, P!Readable
<1>3. DOMAIN batch = 1 .. k
  BY <1>1
<1>4. ASSUME NEW i \in 1 .. k
      PROVE  /\ ms[i] = [name |-> batch[i].name, score |-> P!ScoreMeant(batch[i].means)]
             /\ P!ScoreMeant(batch[i].means) \in Int
  <2>1. Fits(batch[i].means)
    BY <1>2
  <2> QED BY <1>3, <2>1, ScoresMeant, Zenon
<1>5. ASSUME NEW i \in 1 .. k
      PROVE  /\ ms[i].score \in Int /\ ms[i].name \in Names /\ ms[i].name = batch[i].name
             /\ ms[i].score = P!ScoreMeant(batch[i].means) /\ ms[i] \in [name : Names, score : Int]
  <2> DEFINE n == batch[i].name
             v == P!ScoreMeant(batch[i].means)
  <2>1. ms[i] = [name |-> n, score |-> v] /\ n \in Names /\ v \in Int
    BY <1>2, <1>4, Zenon
  <2> HIDE DEF n, v
  <2>2. ms[i].name = n /\ ms[i].score = v /\ ms[i] \in [name : Names, score : Int]
    BY <2>1
  <2> QED BY <2>1, <2>2, Zenon DEF n, v
<1>6. Len(ms) = k
  <2>1. ms \in [1 .. k -> [name : Names, score : Int]]
    BY <1>3, <1>5, Zenon
  <2> QED BY <2>1
<1> QED BY <1>1, <1>2, <1>3, <1>5, <1>6

LEMMA AddInOrder ==
    ASSUME P!ConstantsFit, P!WeavingIsExact, KeptInOrder,
           NEW items, items \in {P!Scored, P!Located}, NEW batch \in P!Batches(items),
           P!AddCommand(batch)
    PROVE  KeptInOrder'
<1>1. CASE ~ (held # "string" /\ \A i \in DOMAIN batch : P!Readable(batch[i]))
  <2>1. UNCHANGED <<held, set, meant>>
    BY <1>1 DEF P!AddCommand
  <2> QED BY <2>1, SetLeftAlone
<1>2. CASE held # "string" /\ \A i \in DOMAIN batch : P!Readable(batch[i])
  <2> DEFINE ms == [i \in DOMAIN batch |->
                       [name |-> batch[i].name, score |-> P!ScoreMeant(batch[i].means)]]
  <2>1. P!Zadd(batch)
    BY <1>2 DEF P!AddCommand
  <2>2. held' = "set" /\ set' = P!AddAll(set, ms)
    BY <2>1 DEF P!Zadd
  <2>3. PICK k \in Nat : /\ 1 <= k /\ DOMAIN batch = 1 .. k /\ Len(ms) = k
                         /\ \A i \in 1 .. k : /\ ms[i].score \in Int /\ ms[i].name \in Names
                                              /\ ms[i].name = batch[i].name
                                              /\ ms[i].score = P!ScoreMeant(batch[i].means)
                                              /\ Fits(batch[i].means)
    <3>1. \A i \in DOMAIN batch : P!Readable(batch[i])
      BY <1>2
    <3> QED BY <3>1, BatchIs, Zenon
  <2> DEFINE Given(n) == {i \in DOMAIN batch : batch[i].name = n}
  <2>4. meant' = [n \in DOMAIN meant \cup {batch[i].name : i \in DOMAIN batch} |->
                     IF Given(n) = {} THEN meant[n] ELSE batch[LastOf(Given(n))].means]
    BY <2>1, Zenon DEF P!Zadd, P!LastOf, LastOf
  <2> HIDE DEF ms
  <2> DEFINE names == {ms[i].name : i \in 1 .. k}
  <2>5. {batch[i].name : i \in DOMAIN batch} = names
    BY <2>3
  <2>6. ASSUME NEW n
        PROVE  Given(n) = GivenAt(ms, k, n)
    BY <2>3 DEF GivenAt
  <2> HIDE DEF Given, names
  <2>7. /\ DOMAIN meant' = DOMAIN meant \cup names
        /\ \A n \in DOMAIN meant' :
               meant'[n] = IF GivenAt(ms, k, n) = {} THEN meant[n]
                           ELSE batch[LastOf(GivenAt(ms, k, n))].means
    BY <2>4, <2>5, <2>6, Zenon
  <2>8. PICK g : IsMap(set', g) /\ IsLatest(g, ScoreMap, ms, k)
    <3>1. Names \subseteq Int /\ IsMap(set, ScoreMap)
      BY DEF P!ConstantsFit, KeptInOrder
    <3>2. k \in Nat /\ Len(ms) = k /\ \A i \in 1 .. k : ms[i].score \in Int /\ ms[i].name \in Names
      BY <2>3
    <3>3. \E g : IsMap(Z!AddAll(set, ms), g) /\ IsLatest(g, ScoreMap, ms, k)
      BY <3>1, <3>2, AddAllIs, Zenon
    <3>4. set' = Z!AddAll(set, ms)
      BY <2>2, SameAddAll, Zenon
    <3> QED BY <3>3, <3>4, Zenon
  <2>9. ASSUME NEW n \in DOMAIN meant'
        PROVE  \/ /\ GivenAt(ms, k, n) = {} /\ n \in DOMAIN meant /\ meant'[n] = meant[n]
               \/ /\ GivenAt(ms, k, n) # {}
                  /\ LastOf(GivenAt(ms, k, n)) \in 1 .. k
                  /\ meant'[n] = batch[LastOf(GivenAt(ms, k, n))].means
    <3> DEFINE G == GivenAt(ms, k, n)
    <3>1. G \in SUBSET (1 .. k) /\ \A i \in 1 .. k : i \in G <=> ms[i].name = n
      BY DEF GivenAt
    <3>2. meant'[n] = IF G = {} THEN meant[n] ELSE batch[LastOf(G)].means
      BY <2>7, Zenon
    <3> HIDE DEF G
    <3>3. CASE G = {}
      <4>1. n \notin names
        BY <3>1, <3>3 DEF names
      <4>2. n \in DOMAIN meant
        BY <2>7, <4>1, Zenon
      <4> QED BY <3>2, <3>3, <4>2, Zenon DEF G
    <3>4. CASE G # {}
      <4>1. \E x \in G : \A y \in G : y <= x
        BY <2>3, <3>1, <3>4, Greatest, Zenon
      <4>2. LastOf(G) \in G
        BY <4>1, Zenon DEF LastOf
      <4>3. LastOf(G) \in 1 .. k
        BY <3>1, <4>2, Zenon
      <4> QED BY <3>2, <3>4, <4>3, Zenon DEF G
    <3> QED BY <3>3, <3>4
  <2>10. ASSUME NEW n \in DOMAIN meant'
         PROVE  Fits(meant'[n])
    BY <2>3, <2>9, Zenon DEF KeptInOrder
  <2>11. ScoreMap' = g
    <3> DEFINE f == ScoreMap
               h == [n \in DOMAIN meant' |-> P!ScoreMeant(meant'[n])]
    <3>1. DOMAIN f = DOMAIN meant /\ \A n \in DOMAIN meant : f[n] = P!ScoreMeant(meant[n])
      BY Zenon DEF ScoreMap
    <3>2. h \in [DOMAIN f \cup names -> Int]
      <4>1. \A n \in DOMAIN meant' : P!ScoreMeant(meant'[n]) \in Int
        BY <2>10, ScoresMeant, Zenon
      <4>2. DOMAIN meant' = DOMAIN f \cup names
        BY <2>7, <3>1, Zenon
      <4>3. h \in [DOMAIN meant' -> Int]
        BY <4>1, Zenon
      <4> QED BY <4>2, <4>3, Zenon
    <3>3. DOMAIN h = DOMAIN meant' /\ \A n \in DOMAIN meant' : h[n] = P!ScoreMeant(meant'[n])
      BY Zenon
    <3>4. h = ScoreMap'
      BY Zenon DEF ScoreMap
    <3> HIDE DEF f, h
    <3>5. ASSUME NEW n \in DOMAIN h
          PROVE  h[n] = IF GivenAt(ms, k, n) = {} THEN f[n]
                        ELSE ms[LastOf(GivenAt(ms, k, n))].score
      <4>1. n \in DOMAIN meant' /\ h[n] = P!ScoreMeant(meant'[n])
        BY <3>3, Zenon
      <4>2. CASE GivenAt(ms, k, n) = {} /\ n \in DOMAIN meant /\ meant'[n] = meant[n]
        BY <3>1, <4>1, <4>2, Zenon
      <4>3. CASE /\ GivenAt(ms, k, n) # {} /\ LastOf(GivenAt(ms, k, n)) \in 1 .. k
                 /\ meant'[n] = batch[LastOf(GivenAt(ms, k, n))].means
        BY <2>3, <4>1, <4>3, Zenon
      <4> QED BY <2>9, <4>1, <4>2, <4>3, Zenon
    <3>6. g \in [DOMAIN g -> Int] /\ IsLatest(g, f, ms, k)
      BY <2>8, Zenon DEF IsMap, f
    <3>7. g = h
      <4>1. k \in Nat /\ h \in [DOMAIN f \cup {ms[i].name : i \in 1 .. k} -> Int]
        BY <3>2 DEF names
      <4>2. StandsLast(h, f, ms, k)
        BY <3>5, <4>1, Zenon DEF StandsLast
      <4> QED BY <3>6, <4>1, <4>2, LatestIs, Zenon
    <3> QED BY <3>4, <3>7
  <2>12. DOMAIN meant' # {}
    <3>1. 1 \in 1 .. k
      BY <2>3
    <3>2. ms[1].name \in names
      BY <3>1, Zenon DEF names
    <3> QED BY <2>7, <3>2, Zenon
  <2>13. IsMap(set', ScoreMap')
    BY <2>8, <2>11, Zenon
  <2> QED BY <2>2, <2>10, <2>12, <2>13, Zenon DEF KeptInOrder
<1> QED BY <1>1, <1>2

LEMMA TakeInOrder ==
    ASSUME P!ConstantsFit, KeptInOrder, NEW names \in Asked, P!Zrem(names)
    PROVE  KeptInOrder'
<1> DEFINE gone == {names[i] : i \in 1 .. Len(names)}
<1>1. names \in Seq(Names) /\ Len(names) \in Nat /\ DOMAIN names = 1 .. Len(names)
  BY DEF P!ConstantsFit
<1>2. /\ set' = P!TakeAll(set, names)
      /\ held' = CASE held = "set" /\ set' = << >> -> "none"
                   [] held = "stale" -> "none"
                   [] OTHER -> held
      /\ meant' = [n \in DOMAIN meant \ P!Range(names) |-> meant[n]]
  BY Zenon DEF P!Zrem
<1>3. P!Range(names) = gone
  BY <1>1, Zenon DEF P!Range
<1> HIDE DEF gone
<1>4. /\ DOMAIN meant' = DOMAIN meant \ gone
      /\ \A n \in DOMAIN meant' : n \in DOMAIN meant /\ meant'[n] = meant[n]
  BY <1>2, <1>3, Zenon
<1>5. ScoreMap' = Without(ScoreMap, gone)
  <2>1. DOMAIN ScoreMap = DOMAIN meant /\ \A n \in DOMAIN meant : ScoreMap[n] = P!ScoreMeant(meant[n])
    BY Zenon DEF ScoreMap
  <2>2. ScoreMap' = [n \in DOMAIN meant' |-> P!ScoreMeant(meant'[n])]
    BY Zenon DEF ScoreMap
  <2>3. \A n \in DOMAIN meant' : P!ScoreMeant(meant'[n]) = ScoreMap[n]
    BY <1>4, <2>1, Zenon
  <2>4. DOMAIN meant' = DOMAIN ScoreMap \ gone
    BY <1>4, <2>1, Zenon
  <2>5. [n \in DOMAIN meant' |-> P!ScoreMeant(meant'[n])] = [n \in DOMAIN meant' |-> ScoreMap[n]]
    BY <2>3, Zenon
  <2>6. [n \in DOMAIN meant' |-> ScoreMap[n]] = [n \in DOMAIN ScoreMap \ gone |-> ScoreMap[n]]
    BY <2>4, Zenon
  <2> QED BY <2>2, <2>5, <2>6, Zenon DEF Without
<1>6. IsMap(set', ScoreMap')
  <2>1. IsMap(set, ScoreMap)
    BY DEF KeptInOrder
  <2>2. IsMap(Z!TakeAll(set, names), Without(ScoreMap, gone))
    <3>1. PICK k : k \in Nat /\ Len(names) = k
      BY <1>1, Zenon
    <3>2. IsMap(Z!TakeAll(set, names), Without(ScoreMap, FirstOf(names, k)))
      BY <2>1, <3>1, TakeAllIs, Zenon
    <3>3. gone = FirstOf(names, k)
      BY <3>1 DEF gone, FirstOf
    <3> QED BY <3>2, <3>3, Zenon
  <2>3. set' = Z!TakeAll(set, names)
    BY <1>2, SameTakeAll, Zenon
  <2> QED BY <1>5, <2>2, <2>3, Zenon
<1>7. set' = << >> <=> DOMAIN meant' = {}
  <2>1. DOMAIN ScoreMap' = DOMAIN meant'
    BY Zenon DEF ScoreMap
  <2> QED BY <1>6, <2>1, EmptyMaps, Zenon
<1>8. held' = "set" <=> DOMAIN meant' # {}
  <2>1. held = "set" <=> DOMAIN meant # {}
    BY DEF KeptInOrder
  <2>2. DOMAIN meant = {} => DOMAIN meant' = {}
    BY <1>4, Zenon
  <2>3. CASE held = "set" /\ set' = << >>
    <3>1. held' = "none"
      BY <1>2, <2>3
    <3> QED BY <1>7, <2>3, <3>1
  <2>4. CASE held = "set" /\ set' # << >>
    <3>1. held' = "set"
      BY <1>2, <2>4
    <3> QED BY <1>7, <2>4, <3>1
  <2>5. CASE held # "set"
    <3>1. held' # "set"
      BY <1>2, <2>5
    <3> QED BY <2>1, <2>2, <2>5, <3>1, Zenon
  <2> QED BY <2>3, <2>4, <2>5
<1>9. \A n \in DOMAIN meant' : Fits(meant'[n])
  BY <1>4, Zenon DEF KeptInOrder
<1> QED BY <1>6, <1>8, <1>9 DEF KeptInOrder

LEMMA SetToText ==
    ASSUME P!Set
    PROVE  KeptInOrder'
<1>1. held' = "string" /\ set' = << >> /\ meant' = << >> /\ DOMAIN << >> = {}
  BY DEF P!Set
<1>2. DOMAIN meant' = {} /\ held' # "set"
  BY <1>1
<1>3. ScoreMap' \in [{} -> Int]
  BY <1>2 DEF ScoreMap
<1>4. IsMap(set', ScoreMap')
  BY <1>1, <1>3, EmptyMaps, Zenon
<1> QED BY <1>2, <1>4 DEF KeptInOrder

LEMMA StepInOrder ==
    ASSUME P!ConstantsFit, P!WeavingIsExact, KeptInOrder, [P!Next]_P!vars
    PROVE  KeptInOrder'
<1>1. ASSUME NEW batch \in P!Batches(P!Scored), P!AddCommand(batch) PROVE KeptInOrder'
  BY <1>1, AddInOrder, Zenon
<1>2. ASSUME NEW batch \in P!Batches(P!Located), P!AddCommand(batch) PROVE KeptInOrder'
  BY <1>2, AddInOrder, Zenon
<1>3. ASSUME NEW names \in Asked, P!Zrem(names) PROVE KeptInOrder'
  BY <1>3, TakeInOrder, Zenon
<1>4. CASE P!Set
  BY <1>4, SetToText
<1>5. CASE P!DeadlinePasses
  BY <1>5, SetLeftAlone DEF P!DeadlinePasses
<1>6. CASE P!Look
  BY <1>6, SetLeftAlone DEF P!Look, P!Dropped
<1>7. ASSUME NEW command, NEW names, P!Ask(command, names) PROVE KeptInOrder'
  BY <1>7, SetLeftAlone DEF P!Ask
<1>8. CASE P!LookUp
  BY <1>8, SetLeftAlone DEF P!LookUp, P!Dropped
<1>9. CASE P!Answer
  BY <1>9, SetLeftAlone DEF P!Answer
<1>10. CASE P!Answered
  BY <1>10, SetLeftAlone DEF P!Answered
<1>11. CASE UNCHANGED P!vars
  BY <1>11, SetLeftAlone DEF P!vars
<1> QED BY <1>1, <1>2, <1>3, <1>4, <1>5, <1>6, <1>7, <1>8, <1>9, <1>10, <1>11 DEF P!Next

\* What the invariant says of the order is what the property asks for.
LEMMA OrderIsItsMap ==
    ASSUME P!ConstantsFit, P!WeavingIsExact, KeptInOrder
    PROVE  P!SetIsItsMap
<1> DEFINE f == ScoreMap
           D == DOMAIN meant
<1>1. /\ IsMap(set, f) /\ InOrder(set) /\ set \in Seq(Members) /\ Len(set) \in Nat
      /\ \A i \in 1 .. Len(set) : set[i].name \in DOMAIN f /\ set[i].score = f[set[i].name]
      /\ \A n \in DOMAIN f : \E i \in 1 .. Len(set) : set[i].name = n
  BY DEF KeptInOrder, IsMap, InOrder
<1>2. DOMAIN f = D /\ \A n \in D : f[n] = P!Meant(n)
  <2>1. DOMAIN f = D /\ \A n \in D : f[n] = P!ScoreMeant(meant[n])
    BY Zenon DEF ScoreMap
  <2>2. \A n \in D : Fits(meant[n])
    BY DEF KeptInOrder
  <2>3. ASSUME NEW n \in D PROVE f[n] = P!Meant(n)
    BY <2>1, <2>2, ScoresMeant, Zenon DEF P!Meant
  <2> QED BY <2>1, <2>3
<1> HIDE DEF f
<1>3. /\ Cardinality(D) = Len(set)
      /\ \A i \in 1 .. Len(set) : Cardinality(Below(f, set[i].name)) = i - 1
  <2>1. Names \subseteq Int
    BY DEF P!ConstantsFit
  <2> QED BY <1>1, <1>2, <2>1, RankIs, Zenon
<1>4. ASSUME NEW n \in D PROVE P!RankMeant(n) = Cardinality(Below(f, n))
  <2>1. {m \in D : P!Meant(m) < P!Meant(n) \/ (P!Meant(m) = P!Meant(n) /\ m < n)} = Below(f, n)
    BY <1>2 DEF Below
  <2>2. P!RankMeant(n)
            = P!Cardinality({m \in D : P!Meant(m) < P!Meant(n) \/ (P!Meant(m) = P!Meant(n) /\ m < n)})
    BY Zenon DEF P!RankMeant
  <2> QED BY <2>1, <2>2, SameSets, Zenon
<1>5. P!Cardinality(D) = Len(set)
  BY <1>3, SameSets, Zenon
<1>6. ASSUME NEW i \in 1 .. Len(set)
      PROVE  set[i].name \in D /\ P!RankMeant(set[i].name) = i - 1
  BY <1>1, <1>2, <1>3, <1>4, Zenon
<1>7. ASSUME NEW n \in D
      PROVE  P!Holds(set, n) /\ P!Score(set, n) = P!Meant(n) /\ P!At(set, n) = P!RankMeant(n) + 1
  <2>1. PICK i \in 1 .. Len(set) : set[i].name = n
    BY <1>1, <1>2, Zenon
  <2>2. Z!At(set, n) = i /\ Z!Holds(set, n)
    BY <1>1, <2>1, AtIs, Zenon
  <2>3. P!At(set, n) = i /\ P!Holds(set, n) /\ P!Score(set, n) = set[i].score
    BY <2>2, SameSets, Zenon DEF P!Score
  <2>4. set[i].score = P!Meant(n)
    BY <1>1, <1>2, <2>1, Zenon
  <2>5. P!RankMeant(n) = i - 1
    BY <1>6, <2>1, Zenon
  <2>6. i = (i - 1) + 1
    OBVIOUS
  <2> QED BY <2>3, <2>4, <2>5, <2>6, Zenon
<1> DEFINE place(len, i) == IF i < 0 THEN IF i < - len THEN 0 ELSE len + i ELSE i
<1>8. ASSUME NEW start \in Int, NEW stop \in Int, NEW len, len = Len(set)
      PROVE  {m.name : m \in P!Range(P!Window(set, start, stop))}
                 = {n \in D : P!RankMeant(n) \in place(len, start) .. place(len, stop)}
  <2> DEFINE w == Z!Window(set, start, stop)
             from == Z!ResolveIndex(start, Len(set))
             last == Z!ResolveIndex(stop, Len(set))
  <2>1. place(len, start) = from /\ place(len, stop) = last
    BY <1>1, <1>8 DEF Z!ResolveIndex
  <2>2. P!Window(set, start, stop) = w
    BY SameSets, Zenon
  <2>3. /\ \A i \in DOMAIN w : \E j \in 1 .. Len(set) : w[i] = set[j] /\ j - 1 \in from .. last
        /\ \A j \in 1 .. Len(set) : j - 1 \in from .. last => \E i \in DOMAIN w : w[i] = set[j]
    <3>1. /\ w = Z!Window(set, start, stop) /\ from = Z!ResolveIndex(start, Len(set))
          /\ last = Z!ResolveIndex(stop, Len(set)) /\ start \in Int /\ stop \in Int
      OBVIOUS
    <3> HIDE DEF w, from, last
    <3>2. IsWindow(w, set, from, last)
      BY <1>1, <3>1, WindowIs, Zenon
    <3> QED BY <3>2, Zenon DEF IsWindow
  <2>4. {m.name : m \in P!Range(w)} = {w[i].name : i \in DOMAIN w}
    BY Zenon DEF P!Range
  <2> HIDE DEF w, from, last, place
  <2>5. ASSUME NEW i \in DOMAIN w
        PROVE  w[i].name \in D /\ P!RankMeant(w[i].name) \in from .. last
    BY <1>6, <2>3, Zenon
  <2>6. ASSUME NEW n \in D, P!RankMeant(n) \in from .. last
        PROVE  \E i \in DOMAIN w : w[i].name = n
    <3>1. PICK j \in 1 .. Len(set) : set[j].name = n
      BY <1>1, <1>2, Zenon
    <3>2. j - 1 \in from .. last
      BY <1>6, <2>6, <3>1, Zenon
    <3> QED BY <2>3, <3>1, <3>2, Zenon
  <2>7. {w[i].name : i \in DOMAIN w} = {n \in D : P!RankMeant(n) \in from .. last}
    BY <2>5, <2>6, Zenon
  <2> QED BY <2>1, <2>2, <2>4, <2>7, Zenon
<1>9. \A start, stop \in -3 .. 3 : start \in Int /\ stop \in Int
  OBVIOUS
<1>10. held = "set" <=> D # {}
  BY DEF KeptInOrder
<1>11. \A start, stop \in -3 .. 3 :
          LET len == P!Cardinality(DOMAIN meant)
              at(i) == IF i < 0 THEN IF i < - len THEN 0 ELSE len + i ELSE i
          IN  {m.name : m \in P!Range(P!Window(set, start, stop))}
                  = {n \in DOMAIN meant : P!RankMeant(n) \in at(start) .. at(stop)}
  <2> SUFFICES ASSUME NEW start \in -3 .. 3, NEW stop \in -3 .. 3, NEW len, len = P!Cardinality(DOMAIN meant)
               PROVE  LET at(i) == IF i < 0 THEN IF i < - len THEN 0 ELSE len + i ELSE i
                      IN  {m.name : m \in P!Range(P!Window(set, start, stop))}
                              = {n \in DOMAIN meant : P!RankMeant(n) \in at(start) .. at(stop)}
    BY Zenon
  <2>1. len = Len(set) /\ start \in Int /\ stop \in Int
    BY <1>5, <1>9
  <2> QED BY <1>8, <2>1, Zenon
<1> HIDE DEF place
<1> QED BY <1>5, <1>7, <1>10, <1>11, Zenon DEF P!SetIsItsMap

\* The vector that SortedSet::add and take keep is the map from names to scores
\* that the commands asked for, in order, and ZRANGE reads its window off it:
\* for every set of members and scores, batches of any length, and whatever
\* places interleave weaves as the arithmetic does.
THEOREM SetIsItsMapAlways ==
    ASSUME P!ConstantsFit, P!WeavingIsExact
    PROVE  P!Spec => []P!SetIsItsMap
<1>1. P!Init => KeptInOrder
  BY InitInOrder
<1>2. KeptInOrder /\ [P!Next]_P!vars => KeptInOrder'
  BY StepInOrder
<1>3. KeptInOrder => P!SetIsItsMap
  BY OrderIsItsMap
<1> QED BY <1>1, <1>2, <1>3, PTL DEF P!Spec
=============================================================================
