--------------------------- MODULE AssuranceProofs ---------------------------
(***************************************************************************)
(* What a client may count on: that EXEC runs only if nothing watched was  *)
(* changed (Transactions), that a write that was answered is read back by  *)
(* a server started over the record of it (Startup), and that what GEOPOS  *)
(* and GEODIST answer was there (Places); for any number of clients, keys  *)
(* and changes, any command lines and manifests, and any places.           *)
(*                                                                         *)
(* WatchIsExact is not inductive on its own: that the version a changed    *)
(* key holds is another than the one that was read rests on versions never *)
(* being handed out twice, by one counter for the whole store.             *)
(*                                                                         *)
(* KeptIsReadBack rests on a manifest that names a file going on to name   *)
(* it, cut short or not, and on the store of a server that records being   *)
(* what that file holds.                                                   *)
(*                                                                         *)
(* RepliesWereTrue rests on a command under way having been told a prefix  *)
(* of what it asked after, each answer as it stood at a moment of the      *)
(* command, the moments in order; now is always the last moment.           *)
(***************************************************************************)
EXTENDS Transactions, TLAPS

\* More time for a step than the provers take by themselves.
USE SMTT(20), ZenonT(20)

Kinds == {"none", "number", "text", "list", "zset", "stream"}

Cells == [kind : Kinds, size : Int, expiry : {"never", "pending", "passed"}, version : Nat]

\* The store, as far as its versions go: none is ahead of the counter.
Stamped ==
    /\ entry \in [Keys -> Cells]
    /\ changes \in Nat
    /\ \A k \in Keys : entry[k].version <= changes

\* The connections, as far as they decide what is run.
Queues ==
    /\ queued \in [Clients -> Seq(Commands) \cup {NoQueue}]
    /\ running \in [Clients -> Seq(Commands)]

\* What is watched was read, and what has changed since is watched.
Readings ==
    /\ watched = [c \in Clients |-> watched[c]]
    /\ dirty \in [Clients -> SUBSET Keys]
    /\ \A c \in Clients : /\ DOMAIN watched[c] \subseteq Keys
                          /\ dirty[c] \subseteq DOMAIN watched[c]
                          /\ \A k \in DOMAIN watched[c] : watched[c][k] \in 0..changes

\* A watched key holds the version that was read, or has changed and holds none
\* or a later one.
Tells(c, k) ==
    /\ k \notin dirty[c] => Found(k).version = watched[c][k]
    /\ k \in dirty[c] => Found(k).version = 0 \/ Found(k).version > watched[c][k]

AllTell == \A c \in Clients : \A k \in DOMAIN watched[c] : Tells(c, k)

IInv == Stamped /\ Queues /\ Readings /\ AllTell

-----------------------------------------------------------------------------
(* What is found, and what is written.                                     *)

\* Store::drop_if_expired: what is found at a key has not expired, and is no
\* further than the counter.
LEMMA FoundIsStamped ==
  ASSUME Stamped, NEW k \in Keys
  PROVE  /\ Found(k) \in Cells
         /\ Found(k).expiry # "passed"
         /\ Found(k).version \in 0..changes
<1>1. Missing \in Cells /\ Missing.expiry # "passed" /\ Missing.version = 0
  BY DEF Missing, Cells, Kinds
<1>2. entry[k] \in Cells /\ entry[k].version <= changes /\ changes \in Nat
  BY DEF Stamped
<1>3. entry[k].version \in Nat
  BY <1>2 DEF Cells
<1> QED
  BY <1>1, <1>2, <1>3 DEF Found

\* What a command leaves behind holds the version it was given, or none: an
\* entry emptied is removed.  A deadline that has passed is never brought back.
LEMMA WrittenIsStamped ==
  ASSUME NEW e \in Cells, e.expiry # "passed", NEW v \in Nat, NEW op
  PROVE  /\ Written(op, e, v) \in Cells
         /\ Written(op, e, v).expiry # "passed"
         /\ Written(op, e, v).version \in {0, v}
<1> DEFINE Good(left) == /\ left \in Cells
                         /\ left.expiry # "passed"
                         /\ left.version \in {0, v}
<1>1. /\ Good([kind |-> "number", size |-> 0, expiry |-> "never", version |-> v])
      /\ Good([kind |-> "number", size |-> 0, expiry |-> "pending", version |-> v])
      /\ Good([kind |-> "text", size |-> 0, expiry |-> "never", version |-> v])
      /\ Good(Missing)
  BY DEF Cells, Kinds, Missing
<1>2. Good([e EXCEPT !.kind = "number", !.version = v])
  BY Zenon DEF Cells, Kinds
<1>3. e.size \in Int /\ e.size + 1 \in Int /\ e.size - 1 \in Int
  BY DEF Cells
<1>4. \A n \in Int : Good([e EXCEPT !.size = n, !.version = v])
  BY Zenon DEF Cells
<1>5. \A kind \in Kinds, n \in Int : Good([e EXCEPT !.kind = kind, !.size = n, !.version = v])
  BY Zenon DEF Cells
<1>6. \A kind \in Kinds : Good([e EXCEPT !.kind = kind, !.size = @ + 1, !.version = v])
  BY <1>3, <1>5, Zenon
<1>7. Good([e EXCEPT !.size = @ - 1, !.version = v])
  BY <1>3, <1>4, Zenon
<1> HIDE DEF Good
<1>8. {"list", "zset", "stream"} \subseteq Kinds
  BY DEF Kinds
<1>9. Good(Written(op, e, v))
  BY <1>1, <1>2, <1>6, <1>7, <1>8, Zenon DEF Written
<1> QED
  BY <1>9 DEF Good

-----------------------------------------------------------------------------
(* The ways the store changes.                                             *)

\* Dropping expired keys on the way past changes nothing that is found, so a
\* lookup, KEYS, WATCH and EXEC leave every watch telling what it told.
LEMMA VisitKeeps ==
  ASSUME Stamped, NEW ks, Visit(ks), UNCHANGED changes
  PROVE  /\ Stamped'
         /\ \A k \in Keys : Found(k)' = Found(k)
<1>1. \A k \in Keys : entry'[k] = IF k \in ks THEN Found(k) ELSE entry[k]
  BY DEF Visit
<1>2. \A k \in Keys : /\ Found(k) \in Cells /\ Found(k).expiry # "passed"
                      /\ Found(k).version <= changes
  BY FoundIsStamped DEF Stamped
<1>3. entry' \in [Keys -> Cells]
  BY <1>2 DEF Visit, Stamped
<1>4. \A k \in Keys : entry'[k].version <= changes'
  BY <1>1, <1>2 DEF Stamped
<1>5. \A k \in Keys : Found(k)' = Found(k)
  BY <1>1, <1>2 DEF Found
<1> QED
  BY <1>3, <1>4, <1>5 DEF Stamped

\* The steps after which every watch tells what it told: nothing that is found
\* has changed, nor what is known of the watches, and the counter is no lower.
LEMMA SameFoundKeeps ==
  ASSUME IInv, Stamped', changes <= changes', UNCHANGED <<watched, dirty>>,
         \A k \in Keys : Found(k)' = Found(k)
  PROVE  Readings' /\ AllTell'
<1>1. changes \in Nat /\ changes' \in Nat
  BY DEF IInv, Stamped
<1>2. Readings'
  BY <1>1 DEF IInv, Readings
<1>3. AllTell'
  BY DEF IInv, AllTell, Tells, Readings
<1> QED
  BY <1>2, <1>3

\* One key changes.  It then holds no version or one above all that were read,
\* and everyone who watches it has it among the changed.
LEMMA ChangeKeeps ==
  ASSUME IInv, NEW k \in Keys, Stamped', changes <= changes', UNCHANGED watched,
         Changed(k), \A j \in Keys \ {k} : entry'[j] = entry[j],
         Found(k)'.version = 0
             \/ Found(k)'.version = changes + 1
  PROVE  Readings' /\ AllTell'
<1>1. changes \in Nat /\ changes' \in Nat
  BY DEF IInv, Stamped
<1>2. \A c \in Clients : dirty'[c] = dirty[c] \cup ({k} \cap DOMAIN watched[c])
  BY DEF Changed
<1>3. Readings'
  <2>1. dirty' \in [Clients -> SUBSET Keys]
    BY DEF Changed, IInv, Readings
  <2>2. \A c \in Clients : dirty'[c] \subseteq DOMAIN watched'[c]
    BY <1>2 DEF IInv, Readings
  <2>3. \A c \in Clients : \A j \in DOMAIN watched[c] : watched[c][j] \in 0..changes'
    BY <1>1 DEF IInv, Readings
  <2> QED
    BY <2>1, <2>2, <2>3 DEF IInv, Readings
<1>4. AllTell'
  <2> SUFFICES ASSUME NEW c \in Clients, NEW j \in DOMAIN watched[c]
               PROVE  Tells(c, j)'
    BY DEF AllTell
  <2>1. j \in Keys /\ watched[c][j] \in 0..changes
    BY DEF IInv, Readings
  <2>2. CASE j = k
    <3>1. j \in dirty'[c]
      BY <1>2, <2>2
    <3> QED
      BY <1>1, <2>1, <2>2, <3>1 DEF Tells
  <2>3. CASE j # k
    <3>1. Found(j)' = Found(j)
      BY <2>1, <2>3 DEF Found
    <3>2. j \in dirty'[c] <=> j \in dirty[c]
      BY <1>2, <2>3
    <3>3. Tells(c, j)
      BY DEF IInv, AllTell
    <3> QED
      BY <3>1, <3>2, <3>3 DEF Tells
  <2> QED
    BY <2>2, <2>3
<1> QED
  BY <1>3, <1>4

\* A command of the store, gone through or refused.
LEMMA ApplyKeeps ==
  ASSUME IInv, NEW op, NEW k \in Keys, Apply(op, k), UNCHANGED watched
  PROVE  Stamped' /\ Readings' /\ AllTell'
<1>1. changes \in Nat /\ changes' = changes + 1 /\ entry \in [Keys -> Cells]
      /\ \A j \in Keys : entry[j].version <= changes
  BY DEF IInv, Stamped, Apply
<1>2. /\ Found(k) \in Cells /\ Found(k).expiry # "passed"
      /\ Found(k).version \in 0..changes
  BY FoundIsStamped DEF IInv
<1>3. \A j \in Keys : entry[j].version \in Nat
  BY <1>1 DEF Cells
<1>4. CASE Writes(op, Found(k))
  <2> DEFINE left == Written(op, Found(k), changes + 1)
  <2>1. entry' = [entry EXCEPT ![k] = left] /\ Changed(k)
    BY <1>4 DEF Apply
  <2>2. left \in Cells /\ left.expiry # "passed" /\ left.version \in {0, changes + 1}
    BY <1>1, <1>2, WrittenIsStamped
  <2> HIDE DEF left
  <2>3. entry'[k] = left /\ \A j \in Keys \ {k} : entry'[j] = entry[j]
    BY <1>1, <2>1
  <2>4. entry' \in [Keys -> Cells]
    BY <1>1, <2>1, <2>2
  <2>5. \A j \in Keys : entry'[j].version <= changes'
    BY <1>1, <1>3, <2>2, <2>3
  <2>6. Stamped'
    BY <1>1, <2>4, <2>5 DEF Stamped
  <2>7. Found(k)'.version = 0 \/ Found(k)'.version = changes + 1
    BY <2>2, <2>3 DEF Found
  <2>8. changes <= changes'
    BY <1>1
  <2> QED
    BY <2>1, <2>3, <2>6, <2>7, <2>8, ChangeKeeps
<1>5. CASE ~Writes(op, Found(k))
  <2>1. entry' = [entry EXCEPT ![k] = Found(k)] /\ UNCHANGED dirty
    BY <1>5 DEF Apply
  <2>2. entry'[k] = Found(k) /\ \A j \in Keys \ {k} : entry'[j] = entry[j]
    BY <1>1, <2>1
  <2>3. entry' \in [Keys -> Cells]
    BY <1>1, <1>2, <2>1
  <2>4. \A j \in Keys : entry'[j].version <= changes'
    BY <1>1, <1>2, <1>3, <2>2
  <2>5. Stamped'
    BY <1>1, <2>3, <2>4 DEF Stamped
  <2>6. \A j \in Keys : Found(j)' = Found(j)
    BY <1>2, <2>2 DEF Found
  <2>7. changes <= changes'
    BY <1>1
  <2> QED
    BY <2>1, <2>5, <2>6, <2>7, SameFoundKeeps
<1> QED
  BY <1>4, <1>5
-----------------------------------------------------------------------------
(* One step.                                                               *)

\* A client that forgets its watches: none of its own are left to tell, and the
\* others tell what they told.
LEMMA ForgetKeeps ==
  ASSUME IInv, NEW c \in Clients, Stamped', UNCHANGED changes, Forget(c),
         \A k \in Keys : Found(k)' = Found(k)
  PROVE  Readings' /\ AllTell'
<1>1. watched'[c] = Unwatched /\ dirty'[c] = {} /\ DOMAIN Unwatched = {}
  BY DEF IInv, Readings, Forget, Unwatched
<1>2. \A d \in Clients \ {c} : watched'[d] = watched[d] /\ dirty'[d] = dirty[d]
  BY DEF IInv, Readings, Forget
<1>3. watched' = [d \in Clients |-> watched'[d]]
  BY DEF IInv, Readings, Forget
<1>4. dirty' \in [Clients -> SUBSET Keys]
  BY DEF IInv, Readings, Forget
<1>5. Readings'
  BY <1>1, <1>2, <1>3, <1>4 DEF IInv, Readings
<1>6. AllTell'
  BY <1>1, <1>2 DEF IInv, AllTell, Tells, Readings
<1> QED
  BY <1>5, <1>6

\* WATCH: what is newly watched is told by the version just read.
LEMMA WatchKeeps ==
  ASSUME IInv, NEW c \in Clients, NEW ks \in SUBSET Keys, Watch(c, ks)
  PROVE  Stamped' /\ Readings' /\ AllTell'
<1>1. /\ Stamped'
      /\ \A k \in Keys : Found(k)' = Found(k)
  BY VisitKeeps DEF IInv, Watch
<1>2. \A k \in Keys : Found(k).version \in 0..changes
  BY FoundIsStamped DEF IInv
<1>3. /\ DOMAIN watched'[c] = DOMAIN watched[c] \cup ks
      /\ \A k \in DOMAIN watched[c] : watched'[c][k] = watched[c][k]
      /\ \A k \in ks \ DOMAIN watched[c] : watched'[c][k] = Found(k).version
  BY DEF IInv, Readings, Watch
<1>4. \A d \in Clients \ {c} : watched'[d] = watched[d]
  BY DEF IInv, Readings, Watch
<1>5. watched' = [d \in Clients |-> watched'[d]]
  BY DEF IInv, Readings, Watch
<1>6. dirty' = dirty /\ changes' = changes
  BY DEF Watch
<1>7. Readings'
  <2>1. \A d \in Clients : /\ DOMAIN watched'[d] \subseteq Keys
                           /\ dirty[d] \subseteq DOMAIN watched'[d]
    BY <1>3, <1>4 DEF IInv, Readings
  <2>2. \A d \in Clients : \A k \in DOMAIN watched'[d] : watched'[d][k] \in 0..changes
    BY <1>2, <1>3, <1>4 DEF IInv, Readings
  <2> QED
    BY <1>5, <1>6, <2>1, <2>2 DEF IInv, Readings
<1>8. AllTell'
  <2> SUFFICES ASSUME NEW d \in Clients, NEW k \in DOMAIN watched'[d]
               PROVE  Tells(d, k)'
    BY DEF AllTell
  <2>1. k \in Keys /\ Found(k)' = Found(k)
    BY <1>1, <1>7 DEF Readings
  <2>2. CASE k \in DOMAIN watched[d]
    <3>1. watched'[d][k] = watched[d][k]
      BY <1>3, <1>4, <2>2
    <3>2. Tells(d, k)
      BY <2>2 DEF IInv, AllTell
    <3> QED
      BY <1>6, <2>1, <3>1, <3>2 DEF Tells
  <2>3. CASE k \notin DOMAIN watched[d]
    <3>1. d = c /\ k \in ks
      BY <1>3, <1>4, <2>3
    <3>2. k \notin dirty[d]
      BY <2>3 DEF IInv, Readings
    <3>3. watched'[d][k] = Found(k).version
      BY <1>3, <2>3, <3>1
    <3> QED
      BY <1>6, <2>1, <3>2, <3>3 DEF Tells
  <2> QED
    BY <2>2, <2>3
<1> QED
  BY <1>1, <1>7, <1>8

\* Every step keeps the connections able to run only what was queued.
LEMMA QueuesKept ==
  ASSUME IInv, [Next]_vars
  PROVE  Queues'
<1>1. CASE UNCHANGED <<queued, running>>
  BY <1>1 DEF IInv, Queues
<1>2. ASSUME NEW c \in Clients, Multi(c) \/ Discard(c) \/ Reconnect(c)
      PROVE  Queues'
  <2>1. << >> \in Seq(Commands)
    OBVIOUS
  <2> QED
    BY <1>2, <2>1, Zenon DEF IInv, Queues, Multi, Discard, Reconnect
<1>3. ASSUME NEW c \in Clients, Exec(c)
      PROVE  Queues'
  <2>1. queued[c] \in Seq(Commands)
    BY <1>3 DEF IInv, Queues, Exec
  <2> QED
    BY <1>3, <2>1 DEF IInv, Queues, Exec
<1>4. ASSUME NEW c \in Clients, RunNext(c)
      PROVE  Queues'
  <2>1. Tail(running[c]) \in Seq(Commands)
    BY <1>4 DEF IInv, Queues, RunNext
  <2> QED
    BY <1>4, <2>1 DEF IInv, Queues, RunNext
<1>5. ASSUME NEW c \in Clients, NEW command \in Commands, Enqueue(c, command)
      PROVE  Queues'
  <2>1. queued[c] \in Seq(Commands)
    BY <1>5 DEF IInv, Queues, Enqueue
  <2>2. Append(queued[c], command) \in Seq(Commands)
    BY <2>1
  <2> QED
    BY <1>5, <2>2 DEF IInv, Queues, Enqueue
<1>6. ASSUME NEW k \in Keys, DeadlinePasses(k) \/ Look(k)
      PROVE  UNCHANGED <<queued, running>>
  BY <1>6 DEF DeadlinePasses, Look
<1>7. ASSUME ListKeys
      PROVE  UNCHANGED <<queued, running>>
  BY <1>7 DEF ListKeys
<1>8. ASSUME NEW c \in Clients, Unwatch(c)
      PROVE  UNCHANGED <<queued, running>>
  BY <1>8 DEF Unwatch
<1>9. ASSUME NEW c \in Clients, NEW op \in Ops, NEW k \in Keys, Run(c, op, k)
      PROVE  UNCHANGED <<queued, running>>
  BY <1>9 DEF Run
<1>10. ASSUME NEW c \in Clients, NEW ks \in SUBSET Keys, Watch(c, ks)
       PROVE  UNCHANGED <<queued, running>>
  BY <1>10 DEF Watch
<1>11. CASE UNCHANGED vars
  BY <1>1, <1>11 DEF vars
<1> QED
  BY <1>1, <1>2, <1>3, <1>4, <1>5, <1>6, <1>7, <1>8, <1>9, <1>10, <1>11 DEF Next

\* Every step keeps the counter ahead of the versions and the watches telling.
LEMMA TellingKept ==
  ASSUME IInv, [Next]_vars
  PROVE  Stamped' /\ Readings' /\ AllTell'
<1> DEFINE Kept == Stamped' /\ Readings' /\ AllTell'
<1>1. ASSUME UNCHANGED <<entry, changes, watched, dirty>>
      PROVE  Kept
  <2>1. Stamped'
    BY <1>1 DEF IInv, Stamped
  <2>2. \A k \in Keys : Found(k)' = Found(k)
    BY <1>1 DEF Found
  <2>3. changes <= changes'
    BY <1>1 DEF IInv, Stamped
  <2> QED
    BY <1>1, <2>1, <2>2, <2>3, SameFoundKeeps
<1>2. ASSUME NEW k \in Keys, DeadlinePasses(k)
      PROVE  Kept
  <2>1. entry \in [Keys -> Cells] /\ changes \in Nat /\ changes' = changes
        /\ \A j \in Keys : entry[j].version <= changes
    BY <1>2 DEF IInv, Stamped, DeadlinePasses
  <2>2. /\ entry' = [entry EXCEPT ![k].expiry = "passed"]
        /\ Changed(k) /\ UNCHANGED watched
    BY <1>2 DEF DeadlinePasses
  <2>3. [entry[k] EXCEPT !.expiry = "passed"] \in Cells
        /\ [entry[k] EXCEPT !.expiry = "passed"].version = entry[k].version
        /\ [entry[k] EXCEPT !.expiry = "passed"].expiry = "passed"
    BY <2>1 DEF Cells
  <2>4. entry'[k] = [entry[k] EXCEPT !.expiry = "passed"]
        /\ \A j \in Keys \ {k} : entry'[j] = entry[j]
    BY <2>1, <2>2
  <2>5. Stamped'
    BY <2>1, <2>2, <2>3, <2>4 DEF Stamped
  <2>6. Found(k)'.version = 0
    BY <2>3, <2>4 DEF Found, Missing
  <2>7. changes <= changes'
    BY <2>1
  <2> QED
    BY <2>2, <2>4, <2>5, <2>6, <2>7, ChangeKeeps
<1>3. ASSUME NEW ks, Visit(ks), UNCHANGED <<changes, watched, dirty>>
      PROVE  Kept
  <2>1. Stamped' /\ \A k \in Keys : Found(k)' = Found(k)
    BY <1>3, VisitKeeps DEF IInv
  <2>2. changes <= changes'
    BY <1>3 DEF IInv, Stamped
  <2> QED
    BY <1>3, <2>1, <2>2, SameFoundKeeps
<1>4. ASSUME NEW k \in Keys, Look(k)
      PROVE  Kept
  <2>1. Visit({k})
    BY <1>4, Zenon DEF Look, Visit, IInv, Stamped
  <2> QED
    BY <1>3, <1>4, <2>1 DEF Look
<1>5. ASSUME ListKeys
      PROVE  Kept
  BY <1>3, <1>5 DEF ListKeys
<1>6. ASSUME NEW c \in Clients, NEW ks, Visit(ks), Forget(c), UNCHANGED changes
      PROVE  Kept
  <2>1. Stamped' /\ \A k \in Keys : Found(k)' = Found(k)
    BY <1>6, VisitKeeps DEF IInv
  <2> QED
    BY <1>6, <2>1, ForgetKeeps
<1>7. ASSUME NEW c \in Clients, Exec(c)
      PROVE  Kept
  BY <1>6, <1>7 DEF Exec
<1>8. ASSUME NEW c \in Clients, Forget(c), UNCHANGED <<entry, changes>>
      PROVE  Kept
  <2>1. Visit({})
    BY <1>8 DEF Visit, IInv, Stamped
  <2> QED
    BY <1>6, <1>8, <2>1
<1>9. ASSUME NEW c \in Clients, Discard(c) \/ Unwatch(c) \/ Reconnect(c)
      PROVE  Kept
  BY <1>8, <1>9 DEF Discard, Unwatch, Reconnect
<1>10. ASSUME NEW c \in Clients, RunNext(c)
       PROVE  Kept
  <2>1. CASE Head(running[c]) = <<"UNWATCH">>
    BY <1>8, <1>10, <2>1 DEF RunNext
  <2>2. CASE Head(running[c]) # <<"UNWATCH">>
    <3>1. Head(running[c]) \in Commands
      BY <1>10 DEF RunNext, IInv, Queues
    <3>2. Head(running[c])[2] \in Keys
      BY <2>2, <3>1 DEF Commands
    <3>3. Apply(Head(running[c])[1], Head(running[c])[2]) /\ UNCHANGED watched
      BY <1>10, <2>2 DEF RunNext
    <3> QED
      BY <3>2, <3>3, ApplyKeeps
  <2> QED
    BY <2>1, <2>2
<1>11. ASSUME NEW c \in Clients, NEW op \in Ops, NEW k \in Keys, Run(c, op, k)
       PROVE  Kept
  BY <1>11, ApplyKeeps DEF Run
<1>12. ASSUME NEW c \in Clients, NEW command, Multi(c) \/ Enqueue(c, command)
       PROVE  Kept
  BY <1>1, <1>12 DEF Multi, Enqueue
<1>13. ASSUME NEW c \in Clients, NEW ks \in SUBSET Keys, Watch(c, ks)
       PROVE  Kept
  BY <1>13, WatchKeeps
<1>14. ASSUME UNCHANGED vars
       PROVE  Kept
  BY <1>1, <1>14 DEF vars
<1> HIDE DEF Kept
<1>15. Kept
  BY <1>2, <1>4, <1>5, <1>7, <1>9, <1>10, <1>11, <1>12, <1>13, <1>14 DEF Next
<1> QED
  BY <1>15 DEF Kept

-----------------------------------------------------------------------------
\* EXEC gives up on a watched key just when the key has changed since the client
\* first watched it (Store::unchanged), for any number of clients and keys, and
\* however many changes, expiries and failed commands there were: the exception
\* is a key that was missing and is again.
THEOREM WatchIsExactAlways == Spec => []WatchIsExact
<1>1. Init => IInv
  <2> SUFFICES ASSUME Init PROVE IInv
    OBVIOUS
  <2>1. Missing \in Cells /\ Missing.version = 0
    BY DEF Missing, Cells, Kinds
  <2>2. Stamped
    BY <2>1 DEF Init, Stamped
  <2>3. Queues
    BY DEF Init, Queues
  <2>4. \A c \in Clients : DOMAIN watched[c] = {} /\ dirty[c] = {}
    BY DEF Init, Unwatched
  <2>5. Readings
    BY <2>4 DEF Init, Readings
  <2>6. AllTell
    BY <2>4 DEF AllTell
  <2> QED
    BY <2>2, <2>3, <2>5, <2>6 DEF IInv
<1>2. IInv /\ [Next]_vars => IInv'
  BY QueuesKept, TellingKept DEF IInv
<1>3. IInv => WatchIsExact
  <2> SUFFICES ASSUME IInv, NEW c \in Clients, NEW k \in DOMAIN watched[c]
               PROVE  IF Found(k).version = watched[c][k]
                      THEN watched[c][k] # 0 => k \notin dirty[c]
                      ELSE k \in dirty[c]
    BY DEF WatchIsExact
  <2>1. Tells(c, k)
    BY DEF IInv, AllTell
  <2>2. watched[c][k] \in Nat
    BY DEF IInv, Readings, Stamped
  <2> QED
    BY <2>1, <2>2 DEF Tells
<1> QED
  BY <1>1, <1>2, <1>3, PTL DEF Spec

-----------------------------------------------------------------------------
(* The start of a server over what others left (Startup).                  *)

CONSTANTS CommandLines, ManifestsFound, Capitals, Ports, MaxWrites, MaxStops
VARIABLES stage, config, manifests, files, path, store, counted, kept, halts

S == INSTANCE Startup WITH made <- counted, stops <- halts

\* The file a server started over a place would take up.
FileAt(place) ==
    <<place[1], IF S!RecordedIn(S!Lines(place)) # {} THEN S!LastOf(S!Lines(place))
                ELSE S!IncrementalName(place[2], S!FIRST)>>

\* A file has been opened to be recorded in.
Opened ==
    \/ stage \in {"replaying", "made", "recorded", "answering"}
    \/ stage = "serving" /\ config.appendonly

Rising(s) == \A i, j \in 1 .. Len(s) : i < j => s[i] < s[j]
UpTo(s, n) == s \in Seq(Nat) /\ \A i \in 1 .. Len(s) : 1 <= s[i] /\ s[i] <= n

\* Records only grow, in order; a manifest not yet pushed through is empty, or
\* the one line this server writes.
OnDisk ==
    /\ files = [f \in DOMAIN files |-> [held |-> files[f].held, settled |-> files[f].settled]]
    /\ \A f \in DOMAIN files :
           /\ UpTo(files[f].held, counted) /\ Rising(files[f].held)
           /\ files[f].settled \in 0 .. Len(files[f].held)
    /\ manifests = [p \in DOMAIN manifests |->
                       [lines |-> manifests[p].lines, settled |-> manifests[p].settled]]
    /\ \A p \in DOMAIN manifests :
           ~ manifests[p].settled => manifests[p].lines \in {<< >>, S!Listing(p[2])}

Counts == counted \in Nat /\ config.ok

\* The store is what the open file holds, but for the write being recorded.
Running ==
    /\ stage \in {"down", "preparing", "listing", "opening", "replaying", "serving",
                  "made", "recorded", "answering"}
    /\ UpTo(store, counted) /\ Rising(store)
    /\ stage \in {"made", "recorded", "answering"} => config.appendonly
    /\ stage = "listing" => /\ S!Place \in DOMAIN manifests
                            /\ manifests[S!Place].lines = << >> /\ ~ manifests[S!Place].settled
    /\ stage = "opening" \/ Opened =>
           (S!ListsItself(config.appendfilename) => path = FileAt(S!Place))
    /\ Opened => path \in DOMAIN files
    /\ stage = "made" => store = Append(files[path].held, counted)
    /\ stage \in {"recorded", "answering"} =>
           /\ files[path].held # << >>
           /\ files[path].held[Len(files[path].held)] = counted
    /\ Opened /\ stage \notin {"replaying", "made"} => store = files[path].held
    /\ stage = "answering" /\ S!Durable(config) => files[path].settled = Len(files[path].held)

\* A write that was answered is in the file its place would be started over.
Holds(k) ==
    S!ListsItself(k.place[2]) =>
        /\ FileAt(k.place) \in DOMAIN files
        /\ \E i \in 1 .. Len(files[FileAt(k.place)].held) :
               /\ files[FileAt(k.place)].held[i] = k.write
               /\ k.settled => i <= files[FileAt(k.place)].settled

Kept == \A k \in kept : Holds(k)

SInv == Counts /\ OnDisk /\ Running /\ Kept

-----------------------------------------------------------------------------
\* The next number on the end of numbers in order.
LEMMA NextRises ==
    ASSUME NEW n \in Nat, NEW s, UpTo(s, n), Rising(s)
    PROVE  UpTo(Append(s, n + 1), n + 1) /\ Rising(Append(s, n + 1))
<1> DEFINE m == Len(s)
           t == Append(s, n + 1)
<1>1. /\ m \in Nat /\ t \in Seq(Nat) /\ Len(t) = m + 1 /\ t[m + 1] = n + 1
      /\ \A i \in 1 .. m : t[i] = s[i] /\ s[i] \in Nat /\ 1 <= s[i] /\ s[i] <= n
  BY DEF UpTo
<1> HIDE DEF m, t
<1>2. \A i \in 1 .. m + 1 : i \in 1 .. m \/ i = m + 1
  BY <1>1
<1>3. UpTo(t, n + 1)
  <2>1. \A i \in 1 .. m + 1 : 1 <= t[i] /\ t[i] <= n + 1
    BY <1>1, <1>2
  <2> QED BY <1>1, <2>1 DEF UpTo
<1>4. \A i, j \in 1 .. m : i < j => s[i] < s[j]
  BY DEF Rising, m
<1>5. ASSUME NEW i \in 1 .. m + 1, NEW j \in 1 .. m + 1, i < j PROVE t[i] < t[j]
  <2>1. i \in 1 .. m
    BY <1>1, <1>5
  <2>2. CASE j = m + 1
    BY <1>1, <2>1, <2>2
  <2>3. CASE j \in 1 .. m
    BY <1>1, <1>4, <1>5, <2>1, <2>3
  <2> QED BY <1>2, <2>2, <2>3
<1> QED BY <1>1, <1>3, <1>5, Zenon DEF Rising, t

LEMMA UpToMore ==
    ASSUME NEW n \in Nat, NEW s, UpTo(s, n)
    PROVE  UpTo(s, n + 1)
  BY DEF UpTo

\* What is left of numbers in order, cut somewhere, is in order.
LEMMA CutRises ==
    ASSUME NEW n \in Nat, NEW s, UpTo(s, n), Rising(s), NEW m \in 0 .. Len(s)
    PROVE  /\ UpTo(SubSeq(s, 1, m), n) /\ Rising(SubSeq(s, 1, m)) /\ Len(SubSeq(s, 1, m)) = m
           /\ \A i \in 1 .. m : SubSeq(s, 1, m)[i] = s[i]
<1> DEFINE t == SubSeq(s, 1, m)
<1>1. s \in Seq(Nat) /\ Len(s) \in Nat /\ m \in Nat /\ \A i \in 1 .. m : i \in 1 .. Len(s)
  BY DEF UpTo
<1>2. t \in Seq(Nat) /\ Len(t) = m
  BY <1>1
<1>3. \A i \in 1 .. m : t[i] = s[i]
  BY <1>1
<1> HIDE DEF t
<1>4. UpTo(t, n)
  BY <1>1, <1>2, <1>3, Zenon DEF UpTo
<1>5. Rising(t)
  BY <1>1, <1>2, <1>3, Zenon DEF Rising
<1> QED BY <1>2, <1>3, <1>4, <1>5 DEF t

LEMMA NothingListed == S!RecordedIn(<< >>) = {}
  BY DEF S!RecordedIn

\* What is unlisted, listed by the server itself, or left of that, names the
\* file it would list, for a name whose listing reads back.
LEMMA ListedAlike ==
    ASSUME NEW name, S!ListsItself(name),
           NEW lines \in {<< >>, S!Listing(name)} \cup
                         S!CutLines([lines |-> S!Listing(name), settled |-> FALSE])
    PROVE  (IF S!RecordedIn(lines) # {} THEN S!LastOf(lines) ELSE S!IncrementalName(name, S!FIRST))
               = S!IncrementalName(name, S!FIRST)
<1>1. CASE lines = << >>
  BY <1>1, NothingListed
<1>2. CASE lines # << >>
  BY <1>2 DEF S!ListsItself
<1> QED BY <1>1, <1>2

-----------------------------------------------------------------------------
(* The steps of main.                                                      *)

\* A start that leaves the disk alone until the settings are read.
LEMMA BeginKeeps ==
    ASSUME SInv, NEW args, S!Begin(args)
    PROVE  SInv'
<1>1. /\ config'.ok /\ stage' \in {"preparing", "serving"}
      /\ ~ (stage' = "serving" /\ config'.appendonly)
      /\ UNCHANGED <<manifests, files, path, store, counted, kept, halts>>
  BY DEF S!Begin
<1>2. Counts' /\ OnDisk'
  BY <1>1 DEF SInv, Counts, OnDisk
<1>3. ~ Opened'
  BY <1>1 DEF Opened
<1>4. Running'
  BY <1>1, <1>3 DEF SInv, Running
<1>5. Kept'
  BY <1>1, ZenonT(30) DEF SInv, Kept, Holds, FileAt, S!Lines
<1> QED BY <1>2, <1>4, <1>5 DEF SInv

\* prepare, of a manifest that names a file.
LEMMA FollowKeeps ==
    ASSUME SInv, S!Prepare, S!RecordedIn(S!Lines(S!Place)) # {}
    PROVE  SInv'
<1>1. /\ path' = <<S!Directory, S!LastOf(S!Lines(S!Place))>> /\ stage' = "opening"
      /\ UNCHANGED <<config, manifests, files, store, counted, kept, halts>>
  BY DEF S!Prepare, S!Open
<1>2. Counts' /\ OnDisk'
  BY <1>1 DEF SInv, Counts, OnDisk
<1>3. ~ Opened'
  BY <1>1 DEF Opened
<1>4. S!Place' = S!Place /\ FileAt(S!Place)' = FileAt(S!Place) /\ S!Place[1] = S!Directory
  BY <1>1 DEF S!Place, S!Directory, FileAt, S!Lines
<1>5. path' = FileAt(S!Place)'
  BY <1>1, <1>4 DEF FileAt
<1>6. Running'
  BY <1>1, <1>3, <1>5 DEF SInv, Running
<1>7. Kept'
  BY <1>1, Zenon DEF SInv, Kept, Holds, FileAt, S!Lines
<1> QED BY <1>2, <1>6, <1>7 DEF SInv

\* prepare, of one that names none: it is emptied, and would still be given
\* the name it would have been given.
LEMMA EmptyKeeps ==
    ASSUME SInv, S!Prepare, S!RecordedIn(S!Lines(S!Place)) = {}
    PROVE  SInv'
<1> DEFINE empty == [lines |-> << >>, settled |-> FALSE]
<1>1. /\ manifests' = [p \in DOMAIN manifests \cup {S!Place} |->
                          IF p = S!Place THEN empty ELSE manifests[p]]
      /\ stage' = "listing" /\ UNCHANGED <<path, config, files, store, counted, kept, halts>>
  BY DEF S!Prepare
<1>2. empty.lines = << >> /\ ~ empty.settled /\ empty = [lines |-> empty.lines, settled |-> empty.settled]
  OBVIOUS
<1> HIDE DEF empty
<1>3. /\ DOMAIN manifests' = DOMAIN manifests \cup {S!Place}
      /\ manifests'[S!Place] = empty
      /\ \A p \in DOMAIN manifests : p # S!Place => manifests'[p] = manifests[p]
  BY <1>1
<1>4. OnDisk'
  <2>1. \A p \in DOMAIN manifests' :
            /\ manifests'[p] = [lines |-> manifests'[p].lines, settled |-> manifests'[p].settled]
            /\ ~ manifests'[p].settled => manifests'[p].lines \in {<< >>, S!Listing(p[2])}
    <3> TAKE p \in DOMAIN manifests'
    <3>1. CASE p = S!Place
      BY <1>2, <1>3, <3>1
    <3>2. CASE p # S!Place
      <4>1. p \in DOMAIN manifests /\ manifests'[p] = manifests[p]
        BY <1>3, <3>2
      <4>2. manifests[p] = [lines |-> manifests[p].lines, settled |-> manifests[p].settled]
        BY <4>1, Zenon DEF SInv, OnDisk
      <4> QED BY <4>1, <4>2 DEF SInv, OnDisk
    <3> QED BY <3>1, <3>2
  <2>2. manifests' = [p \in DOMAIN manifests' |-> manifests'[p]]
    BY <1>1
  <2>3. manifests' = [p \in DOMAIN manifests' |->
                       [lines |-> manifests'[p].lines, settled |-> manifests'[p].settled]]
    BY <2>1, <2>2, Zenon
  <2> QED BY <1>1, <2>1, <2>3, Zenon DEF SInv, OnDisk
<1>5. S!Place' = S!Place
  BY <1>1 DEF S!Place, S!Directory
<1>6. ~ Opened'
  BY <1>1 DEF Opened
<1>7. Running'
  <2>1. S!Place' \in DOMAIN manifests' /\ manifests'[S!Place'].lines = << >> /\ ~ manifests'[S!Place'].settled
    BY <1>2, <1>3, <1>5
  <2> QED BY <1>1, <1>6, <2>1 DEF SInv, Running
<1>8. \A p : FileAt(p)' = FileAt(p)
  <2> TAKE p
  <2>1. CASE p = S!Place
    <3>1. S!Lines(p)' = << >>
      BY <1>2, <1>3, <2>1 DEF S!Lines
    <3>2. S!RecordedIn(S!Lines(p)) = {} /\ S!RecordedIn(S!Lines(p)') = {}
      BY <2>1, <3>1, NothingListed
    <3> QED BY <3>2 DEF FileAt
  <2>2. CASE p # S!Place
    <3>1. S!Lines(p)' = S!Lines(p)
      BY <1>3, <2>2 DEF S!Lines
    <3> QED BY <3>1 DEF FileAt
  <2> QED BY <2>1, <2>2
<1>9. Kept'
  BY <1>1, <1>8 DEF SInv, Kept, Holds
<1> QED BY <1>1, <1>4, <1>7, <1>9 DEF SInv, Counts

\* The listing is written: it names the file that would have been listed.
LEMMA ListKeeps ==
    ASSUME SInv, S!List
    PROVE  SInv'
<1> DEFINE name == config.appendfilename
<1>1. /\ manifests' = [manifests EXCEPT ![S!Place].lines = S!Listing(name)]
      /\ path' = <<S!Directory, S!IncrementalName(name, S!FIRST)>> /\ stage' = "opening"
      /\ UNCHANGED <<config, files, store, counted, kept, halts>>
      /\ stage = "listing"
  BY DEF S!List, S!Open
<1>2. /\ S!Place \in DOMAIN manifests /\ manifests[S!Place].lines = << >>
      /\ ~ manifests[S!Place].settled
      /\ S!Place[1] = S!Directory /\ S!Place[2] = name
      /\ S!Place' = S!Place
  BY <1>1 DEF SInv, Running, S!Place, S!Directory
<1>3. /\ manifests = [p \in DOMAIN manifests |->
                       [lines |-> manifests[p].lines, settled |-> manifests[p].settled]]
      /\ \A p \in DOMAIN manifests :
             manifests[p] = [lines |-> manifests[p].lines, settled |-> manifests[p].settled]
  BY Zenon DEF SInv, OnDisk
<1>4. /\ DOMAIN manifests' = DOMAIN manifests
      /\ manifests' = [p \in DOMAIN manifests |-> manifests'[p]]
      /\ manifests'[S!Place] = [manifests[S!Place] EXCEPT !.lines = S!Listing(name)]
      /\ \A p \in DOMAIN manifests : p # S!Place => manifests'[p] = manifests[p]
  BY <1>1, <1>2, Zenon
<1>5. manifests'[S!Place] = [lines |-> S!Listing(name), settled |-> manifests[S!Place].settled]
  BY <1>2, <1>3, <1>4
<1> HIDE DEF name
<1>6. OnDisk'
  <2>1. \A p \in DOMAIN manifests' :
            /\ manifests'[p] = [lines |-> manifests'[p].lines, settled |-> manifests'[p].settled]
            /\ ~ manifests'[p].settled => manifests'[p].lines \in {<< >>, S!Listing(p[2])}
    <3> TAKE p \in DOMAIN manifests'
    <3>1. CASE p = S!Place
      BY <1>2, <1>5, <3>1
    <3>2. CASE p # S!Place
      BY <1>3, <1>4, <3>2 DEF SInv, OnDisk
    <3> QED BY <3>1, <3>2
  <2>2. manifests' = [p \in DOMAIN manifests' |->
                       [lines |-> manifests'[p].lines, settled |-> manifests'[p].settled]]
    BY <1>4, <2>1, Zenon
  <2> QED BY <1>1, <2>1, <2>2 DEF SInv, OnDisk
<1>7. S!Lines(S!Place) = << >> /\ S!Lines(S!Place)' = S!Listing(name)
  BY <1>2, <1>4, <1>5 DEF S!Lines
<1>8. \A p : p # S!Place => S!Lines(p)' = S!Lines(p)
  BY <1>4 DEF S!Lines
<1>9. \A p : S!ListsItself(p[2]) => FileAt(p)' = FileAt(p)
  <2> SUFFICES ASSUME NEW p, S!ListsItself(p[2]) PROVE FileAt(p)' = FileAt(p)
    OBVIOUS
  <2>1. CASE p = S!Place
    <3>1. S!ListsItself(name)
      BY <1>2, <2>1
    <3>2. FileAt(p) = <<p[1], S!IncrementalName(name, S!FIRST)>>
      BY <1>2, <1>7, <2>1, <3>1, ListedAlike, Zenon DEF FileAt
    <3>3. FileAt(p)' = <<p[1], S!IncrementalName(name, S!FIRST)>>
      BY <1>2, <1>7, <2>1, <3>1, ListedAlike, Zenon DEF FileAt
    <3> QED BY <3>2, <3>3
  <2>2. CASE p # S!Place
    BY <1>8, <2>2 DEF FileAt
  <2> QED BY <2>1, <2>2
<1>10. S!ListsItself(name) => path' = FileAt(S!Place)'
  BY <1>1, <1>2, <1>7, ListedAlike, Zenon DEF FileAt
<1>11. ~ Opened'
  BY <1>1 DEF Opened
<1>12. Running'
  BY <1>1, <1>2, <1>10, <1>11 DEF SInv, Running, name
<1>13. Kept'
  BY <1>1, <1>9 DEF SInv, Kept, Holds
<1> QED BY <1>1, <1>6, <1>12, <1>13 DEF SInv, Counts

\* The file is made if it is not there, and empty then.
LEMMA OpenFileKeeps ==
    ASSUME SInv, S!OpenFile
    PROVE  SInv'
<1> DEFINE new == [held |-> << >>, settled |-> 0]
<1>1. /\ files' = [f \in DOMAIN files \cup {path} |-> IF f \in DOMAIN files THEN files[f] ELSE new]
      /\ stage = "opening" /\ stage' = "replaying"
      /\ UNCHANGED <<config, manifests, path, store, counted, kept, halts>>
  BY DEF S!OpenFile
<1>2. /\ new = [held |-> new.held, settled |-> new.settled]
      /\ UpTo(new.held, counted) /\ Rising(new.held) /\ new.settled \in 0 .. Len(new.held)
  BY DEF UpTo, Rising
<1> HIDE DEF new
<1>3. /\ DOMAIN files' = DOMAIN files \cup {path}
      /\ files' = [f \in DOMAIN files' |-> files'[f]]
      /\ \A f \in DOMAIN files : files'[f] = files[f]
      /\ \A f \in DOMAIN files' : f \in DOMAIN files \/ files'[f] = new
  BY <1>1
<1>4. OnDisk'
  <2>1. \A f \in DOMAIN files : files[f] = [held |-> files[f].held, settled |-> files[f].settled]
    BY Zenon DEF SInv, OnDisk
  <2>2. \A f \in DOMAIN files' :
            /\ files'[f] = [held |-> files'[f].held, settled |-> files'[f].settled]
            /\ UpTo(files'[f].held, counted) /\ Rising(files'[f].held)
            /\ files'[f].settled \in 0 .. Len(files'[f].held)
    <3> TAKE f \in DOMAIN files'
    <3>1. CASE f \in DOMAIN files
      BY <1>3, <2>1, <3>1 DEF SInv, OnDisk
    <3>2. CASE files'[f] = new
      BY <1>2, <3>2
    <3> QED BY <1>3, <3>1, <3>2
  <2>3. files' = [f \in DOMAIN files' |-> [held |-> files'[f].held, settled |-> files'[f].settled]]
    BY <1>3, <2>2, Zenon
  <2> QED BY <1>1, <2>2, <2>3, ZenonT(30) DEF SInv, OnDisk
<1>5. S!Place' = S!Place /\ \A p : FileAt(p)' = FileAt(p)
  BY <1>1 DEF S!Place, S!Directory, FileAt, S!Lines
<1>6. Running'
  <2>1. S!ListsItself(config.appendfilename) => path = FileAt(S!Place)
    BY <1>1 DEF SInv, Running
  <2> QED BY <1>1, <1>3, <1>5, <2>1 DEF SInv, Running
<1>7. Kept'
  BY <1>1, <1>3, <1>5 DEF SInv, Kept, Holds
<1> QED BY <1>1, <1>4, <1>6, <1>7 DEF SInv, Counts

\* The replay: the store has what the file has.
LEMMA ReplayKeeps ==
    ASSUME SInv, S!Replay
    PROVE  SInv'
<1>1. /\ store' = files[path].held /\ stage = "replaying" /\ stage' = "serving"
      /\ UNCHANGED <<config, manifests, files, path, counted, kept, halts>>
  BY DEF S!Replay
<1>2. Opened /\ path \in DOMAIN files
  BY <1>1 DEF SInv, Running, Opened
<1>3. Counts' /\ OnDisk' /\ Kept'
  <2>1. Counts' /\ OnDisk'
    BY <1>1 DEF SInv, Counts, OnDisk
  <2>2. \A p : FileAt(p)' = FileAt(p)
    BY <1>1 DEF FileAt, S!Lines
  <2>3. Kept'
    BY <1>1, <2>2 DEF SInv, Kept, Holds
  <2> QED BY <2>1, <2>3
<1>4. S!Place' = S!Place /\ FileAt(S!Place)' = FileAt(S!Place)
  BY <1>1 DEF S!Place, S!Directory, FileAt, S!Lines
<1>5. UpTo(store', counted) /\ Rising(store')
  BY <1>1, <1>2 DEF SInv, OnDisk
<1>6. Running'
  BY <1>1, <1>2, <1>4, <1>5 DEF SInv, Running
<1> QED BY <1>3, <1>6 DEF SInv

-----------------------------------------------------------------------------
(* The steps of a client's write.                                          *)

LEMMA WriteKeeps ==
    ASSUME SInv, S!Write
    PROVE  SInv'
<1>1. /\ stage = "serving" /\ counted < MaxWrites /\ counted' = counted + 1
      /\ store' = Append(store, counted + 1)
      /\ stage' = (IF config.appendonly THEN "made" ELSE "serving")
      /\ UNCHANGED <<config, manifests, files, path, kept, halts>>
  BY DEF S!Write
<1>2. counted \in Nat
  BY DEF SInv, Counts
<1>3. Counts'
  BY <1>1, <1>2 DEF SInv, Counts
<1>4. UpTo(store', counted') /\ Rising(store')
  BY <1>1, <1>2, NextRises DEF SInv, Running
<1>5. OnDisk'
  <2>1. \A f \in DOMAIN files : UpTo(files[f].held, counted + 1)
    BY <1>2, UpToMore DEF SInv, OnDisk
  <2> QED BY <1>1, <2>1 DEF SInv, OnDisk
<1>6. Kept'
  BY <1>1, ZenonT(30) DEF SInv, Kept, Holds, FileAt, S!Lines
<1>7. S!Place' = S!Place /\ FileAt(S!Place)' = FileAt(S!Place)
  BY <1>1, Zenon DEF S!Place, S!Directory, FileAt, S!Lines
<1>8. CASE config.appendonly
  <2>1. Opened /\ stage' = "made" /\ path \in DOMAIN files
    BY <1>1, <1>8 DEF Opened, SInv, Running
  <2>2. store = files[path].held
    BY <1>1, <2>1 DEF SInv, Running
  <2>3. Running'
    BY <1>1, <1>4, <1>7, <1>8, <2>1, <2>2 DEF SInv, Running
  <2> QED BY <1>3, <1>5, <1>6, <2>3 DEF SInv
<1>9. CASE ~ config.appendonly
  <2>1. stage' = "serving" /\ ~ Opened'
    BY <1>1, <1>9 DEF Opened
  <2>2. Running'
    BY <1>1, <1>4, <2>1 DEF SInv, Running
  <2> QED BY <1>3, <1>5, <1>6, <2>2 DEF SInv
<1> QED BY <1>8, <1>9

\* One file changed, to hold as much or more, and to settle no less.
LEMMA FileGrows ==
    ASSUME SInv, path \in DOMAIN files, NEW record,
           record = [held |-> record.held, settled |-> record.settled],
           files' = [files EXCEPT ![path] = record],
           UpTo(record.held, counted), Rising(record.held), record.settled \in 0 .. Len(record.held),
           files[path].settled <= record.settled,
           \A i \in 1 .. Len(files[path].held) :
               i \in 1 .. Len(record.held) /\ record.held[i] = files[path].held[i],
           UNCHANGED <<manifests, counted, kept>>
    PROVE  /\ OnDisk' /\ Kept'
           /\ DOMAIN files' = DOMAIN files /\ files'[path] = record
<1>1. /\ files = [f \in DOMAIN files |-> [held |-> files[f].held, settled |-> files[f].settled]]
      /\ \A f \in DOMAIN files : files[f] = [held |-> files[f].held, settled |-> files[f].settled]
  BY Zenon DEF SInv, OnDisk
<1>2. /\ DOMAIN files' = DOMAIN files /\ files'[path] = record
      /\ files' = [f \in DOMAIN files' |-> files'[f]]
      /\ \A f \in DOMAIN files : f # path => files'[f] = files[f]
  BY <1>1, Zenon
<1>3. OnDisk'
  <2>1. \A f \in DOMAIN files' :
            /\ files'[f] = [held |-> files'[f].held, settled |-> files'[f].settled]
            /\ UpTo(files'[f].held, counted) /\ Rising(files'[f].held)
            /\ files'[f].settled \in 0 .. Len(files'[f].held)
    <3> TAKE f \in DOMAIN files'
    <3>1. CASE f = path
      BY <1>2, <3>1
    <3>2. CASE f # path
      BY <1>1, <1>2, <3>2 DEF SInv, OnDisk
    <3> QED BY <3>1, <3>2
  <2>2. files' = [f \in DOMAIN files' |-> [held |-> files'[f].held, settled |-> files'[f].settled]]
    BY <1>2, <2>1, Zenon
  <2> QED BY <2>1, <2>2 DEF SInv, OnDisk
<1>4. Kept'
  <2> SUFFICES ASSUME NEW k \in kept, S!ListsItself(k.place[2])
               PROVE  /\ FileAt(k.place)' \in DOMAIN files'
                      /\ \E i \in 1 .. Len(files'[FileAt(k.place)'].held) :
                            /\ files'[FileAt(k.place)'].held[i] = k.write
                            /\ k.settled => i <= files'[FileAt(k.place)'].settled
    BY DEF Kept, Holds
  <2> DEFINE f == FileAt(k.place)
  <2>1. FileAt(k.place)' = f
    BY DEF FileAt, S!Lines
  <2> HIDE DEF f
  <2>2. f \in DOMAIN files
    BY DEF f, SInv, Kept, Holds
  <2>3. PICK i \in 1 .. Len(files[f].held) :
               files[f].held[i] = k.write /\ (k.settled => i <= files[f].settled)
    BY DEF f, SInv, Kept, Holds
  <2>4. CASE f # path
    BY <1>2, <2>1, <2>2, <2>3, <2>4
  <2>5. CASE f = path
    <3>1. i \in 1 .. Len(record.held) /\ record.held[i] = k.write
      BY <2>3, <2>5
    <3>2. i \in Int /\ files[path].settled \in Int /\ record.settled \in Int
      BY <2>2, <2>5 DEF SInv, OnDisk
    <3>3. k.settled => i <= record.settled
      BY <2>3, <2>5, <3>2
    <3> QED BY <1>2, <2>1, <2>2, <2>5, <3>1, <3>3
  <2> QED BY <2>4, <2>5
<1> QED BY <1>2, <1>3, <1>4

LEMMA RecordKeeps ==
    ASSUME SInv, S!Record
    PROVE  SInv'
<1> DEFINE more == [held |-> Append(files[path].held, counted), settled |-> files[path].settled]
<1>1. /\ stage = "made" /\ files' = [files EXCEPT ![path].held = Append(@, counted)]
      /\ stage' = (IF S!Durable(config) THEN "recorded" ELSE "answering")
      /\ UNCHANGED <<config, manifests, path, store, counted, kept, halts>>
  BY DEF S!Record
<1>2. Opened /\ path \in DOMAIN files /\ store = Append(files[path].held, counted)
  BY <1>1 DEF SInv, Running, Opened
<1>3. /\ files[path] = [held |-> files[path].held, settled |-> files[path].settled]
      /\ files[path].settled \in 0 .. Len(files[path].held) /\ files[path].held \in Seq(Nat)
  BY <1>2, Zenon DEF SInv, OnDisk, UpTo
<1>4. /\ UpTo(store, counted) /\ Rising(store) /\ counted \in Nat
  BY DEF SInv, Running, Counts
<1>5. /\ more = [held |-> more.held, settled |-> more.settled] /\ more.held = store
      /\ more.settled = files[path].settled
  BY <1>2
<1>6. files' = [files EXCEPT ![path] = more]
  <2>1. \A h : [files[path] EXCEPT !.held = h] = [held |-> h, settled |-> files[path].settled]
    BY <1>3
  <2> QED BY <1>1, <1>2, <2>1, Zenon
<1>7. /\ Len(store) = Len(files[path].held) + 1 /\ store[Len(store)] = counted /\ store # << >>
      /\ Len(files[path].held) \in Nat
      /\ \A i \in 1 .. Len(files[path].held) : i \in 1 .. Len(store) /\ store[i] = files[path].held[i]
  BY <1>2, <1>3, <1>4
<1> HIDE DEF more
<1>8. more.settled \in 0 .. Len(more.held) /\ files[path].settled <= more.settled
  BY <1>3, <1>5, <1>7
<1>9. OnDisk' /\ Kept' /\ DOMAIN files' = DOMAIN files /\ files'[path] = more
  <2>1. UpTo(more.held, counted) /\ Rising(more.held)
    BY <1>4, <1>5
  <2>2. \A i \in 1 .. Len(files[path].held) :
            i \in 1 .. Len(more.held) /\ more.held[i] = files[path].held[i]
    BY <1>5, <1>7
  <2>3. UNCHANGED <<manifests, counted, kept>>
    BY <1>1
  <2> QED BY <1>2, <1>5, <1>6, <1>8, <2>1, <2>2, <2>3, FileGrows, Zenon
<1>10. S!Place' = S!Place /\ FileAt(S!Place)' = FileAt(S!Place)
  BY <1>1 DEF S!Place, S!Directory, FileAt, S!Lines
<1>11. Running'
  BY <1>1, <1>2, <1>5, <1>7, <1>9, <1>10 DEF SInv, Running
<1> QED BY <1>1, <1>9, <1>11 DEF SInv, Counts

LEMMA SyncKeeps ==
    ASSUME SInv, S!Sync
    PROVE  SInv'
<1> DEFINE same == files[path].held
           more == [held |-> same, settled |-> Len(same)]
<1>1. /\ stage = "recorded" /\ files' = [files EXCEPT ![path].settled = Len(same)]
      /\ stage' = "answering"
      /\ UNCHANGED <<config, manifests, path, store, counted, kept, halts>>
  BY DEF S!Sync
<1>2. Opened /\ path \in DOMAIN files /\ store = same /\ same # << >> /\ same[Len(same)] = counted
  BY <1>1 DEF SInv, Running, Opened
<1>3. /\ files[path] = [held |-> files[path].held, settled |-> files[path].settled]
      /\ files[path].settled \in 0 .. Len(same) /\ same \in Seq(Nat)
  BY <1>2, Zenon DEF SInv, OnDisk, UpTo
<1>4. UpTo(same, counted) /\ Rising(same) /\ Len(same) \in Nat
  BY <1>2, <1>3 DEF SInv, Running
<1>5. more = [held |-> more.held, settled |-> more.settled] /\ more.held = same /\ more.settled = Len(same)
  OBVIOUS
<1>6. files' = [files EXCEPT ![path] = more]
  <2>1. [files[path] EXCEPT !.settled = Len(same)] = more
    BY <1>3
  <2> QED BY <1>1, <1>2, <2>1, Zenon
<1> HIDE DEF more
<1>7. more.settled \in 0 .. Len(more.held) /\ files[path].settled <= more.settled
  BY <1>3, <1>4, <1>5
<1>8. OnDisk' /\ Kept' /\ DOMAIN files' = DOMAIN files /\ files'[path] = more
  BY <1>1, <1>2, <1>4, <1>5, <1>6, <1>7, FileGrows, Zenon
<1>9. S!Place' = S!Place /\ FileAt(S!Place)' = FileAt(S!Place)
  BY <1>1 DEF S!Place, S!Directory, FileAt, S!Lines
<1>10. Running'
  BY <1>1, <1>2, <1>5, <1>8, <1>9 DEF SInv, Running
<1> QED BY <1>1, <1>8, <1>10 DEF SInv, Counts

\* The client is told: the write is the last in the file that is open, and
\* settled if CONFIG GET says so.
LEMMA AnswerKeeps ==
    ASSUME SInv, S!Answer
    PROVE  SInv'
<1> DEFINE durable == S!EqIgnoreCase(S!Setting(config, "appendfsync"), S!ALWAYS)
           told == [write |-> counted, place |-> S!Place, settled |-> durable]
<1>1. /\ stage = "answering" /\ stage' = "serving" /\ kept' = kept \cup {told}
      /\ UNCHANGED <<config, manifests, files, path, store, counted, halts>>
  BY DEF S!Answer
<1>2. durable <=> S!Durable(config)
  BY DEF S!Durable, S!Setting
<1>3. told.write = counted /\ told.place = S!Place /\ (told.settled <=> durable)
  OBVIOUS
<1> HIDE DEF told, durable
<1>4. /\ Opened /\ path \in DOMAIN files /\ store = files[path].held /\ config.appendonly
      /\ files[path].held # << >> /\ files[path].held[Len(files[path].held)] = counted
      /\ S!Durable(config) => files[path].settled = Len(files[path].held)
      /\ S!ListsItself(config.appendfilename) => path = FileAt(S!Place)
  BY <1>1 DEF SInv, Running, Opened
<1>5. S!Place' = S!Place /\ \A p : FileAt(p)' = FileAt(p)
  BY <1>1 DEF S!Place, S!Directory, FileAt, S!Lines
<1>6. Running'
  BY <1>1, <1>4, <1>5 DEF SInv, Running
<1>7. ASSUME NEW k, k = told
      PROVE  Holds(k)'
  <2>1. k.place[2] = config.appendfilename
    BY <1>3, <1>7 DEF S!Place
  <2>2. files[path].held \in Seq(Nat)
    BY <1>4 DEF SInv, OnDisk, UpTo
  <2>3. Len(files[path].held) \in 1 .. Len(files[path].held)
    BY <1>4, <2>2
  <2> SUFFICES ASSUME S!ListsItself(k.place[2])
               PROVE  /\ FileAt(k.place) \in DOMAIN files
                      /\ \E i \in 1 .. Len(files[FileAt(k.place)].held) :
                            /\ files[FileAt(k.place)].held[i] = k.write
                            /\ k.settled => i <= files[FileAt(k.place)].settled
    BY <1>1, <1>5 DEF Holds
  <2>4. FileAt(k.place) = path
    BY <1>3, <1>4, <1>7, <2>1
  <2>5. k.settled => Len(files[path].held) <= files[path].settled
    BY <1>2, <1>3, <1>4, <1>7, <2>3
  <2>6. k.write = counted
    BY <1>3, <1>7
  <2> QED BY <1>4, <2>3, <2>4, <2>5, <2>6
<1>8. \A k \in kept : Holds(k)'
  BY <1>1, <1>5 DEF SInv, Kept, Holds
<1>9. Kept'
  <2> SUFFICES ASSUME NEW k \in kept'
               PROVE  Holds(k)'
    BY DEF Kept
  <2> QED BY <1>1, <1>7, <1>8
<1> QED BY <1>1, <1>6, <1>9 DEF SInv, Counts, OnDisk

-----------------------------------------------------------------------------
(* Stops.                                                                  *)

\* Nothing of the process is left.
LEMMA DownRuns ==
    ASSUME SInv, S!Down
    PROVE  Counts' /\ Running'
<1>1. /\ stage' = "down" /\ config' = S!Default /\ store' = << >> /\ counted' = counted
  BY DEF S!Down
<1>2. config'.ok
  BY <1>1 DEF S!Default
<1>3. Counts'
  BY <1>1, <1>2 DEF SInv, Counts
<1>4. UpTo(store', counted') /\ Rising(store') /\ ~ Opened'
  BY <1>1 DEF UpTo, Rising, Opened
<1> QED BY <1>1, <1>3, <1>4 DEF Running

LEMMA StopKeeps ==
    ASSUME SInv, S!Stop
    PROVE  SInv'
<1>1. S!Down /\ UNCHANGED <<manifests, files, kept>> /\ counted' = counted
  BY DEF S!Stop, S!Down
<1>2. OnDisk'
  BY <1>1 DEF SInv, OnDisk
<1>3. Kept'
  BY <1>1, Zenon DEF SInv, Kept, Holds, FileAt, S!Lines
<1> QED BY <1>1, <1>2, <1>3, DownRuns DEF SInv

\* A manifest cut short by a stop of the machine names the file it did.
LEMMA CutNamesAlike ==
    ASSUME SInv, NEW cut, DOMAIN manifests' = DOMAIN manifests,
           \A p \in DOMAIN manifests : cut[p] \in S!CutLines(manifests[p]) /\ manifests'[p].lines = cut[p],
           NEW p, S!ListsItself(p[2])
    PROVE  FileAt(p)' = FileAt(p)
<1>1. CASE p \notin DOMAIN manifests
  BY <1>1 DEF FileAt, S!Lines
<1>2. CASE p \in DOMAIN manifests
  <2> DEFINE was == manifests[p].lines
             is == manifests'[p].lines
             none == S!IncrementalName(p[2], S!FIRST)
             all == S!Listing(p[2])
  <2>1. /\ FileAt(p) = <<p[1], IF S!RecordedIn(was) # {} THEN S!LastOf(was) ELSE none>>
        /\ FileAt(p)' = <<p[1], IF S!RecordedIn(is) # {} THEN S!LastOf(is) ELSE none>>
    BY <1>2 DEF FileAt, S!Lines
  <2>2. is \in S!CutLines(manifests[p])
    BY <1>2
  <2>3. manifests[p].settled \/ was \in {<< >>, all}
    BY <1>2 DEF SInv, OnDisk
  <2>4. was = is \/ (was = all /\ all # << >> /\ ~ manifests[p].settled)
    BY <2>2, <2>3 DEF S!CutLines
  <2>5. CASE was = is
    BY <2>1, <2>5
  <2>6. CASE was = all /\ all # << >> /\ ~ manifests[p].settled
    <3>1. is \in S!CutLines([lines |-> all, settled |-> FALSE])
      BY <2>2, <2>6, Zenon DEF S!CutLines
    <3>2. (IF S!RecordedIn(is) # {} THEN S!LastOf(is) ELSE none) = none
      BY <3>1, ListedAlike
    <3>3. (IF S!RecordedIn(was) # {} THEN S!LastOf(was) ELSE none) = none
      BY <2>6, ListedAlike, Zenon
    <3> QED BY <2>1, <3>2, <3>3
  <2> QED BY <2>4, <2>5, <2>6
<1> QED BY <1>1, <1>2

LEMMA PowerLossKeeps ==
    ASSUME SInv, S!PowerLoss
    PROVE  SInv'
<1>1. S!Down /\ counted' = counted /\ kept' = {k \in kept : k.settled}
  BY DEF S!PowerLoss, S!Down
<1>2. PICK cut \in [DOMAIN manifests ->
                       UNION {S!CutLines(manifests[place]) : place \in DOMAIN manifests}] :
          /\ \A place \in DOMAIN manifests : cut[place] \in S!CutLines(manifests[place])
          /\ manifests' = [place \in DOMAIN manifests |-> [lines |-> cut[place], settled |-> TRUE]]
  BY Zenon DEF S!PowerLoss
<1>3. PICK left \in [DOMAIN files -> 0 .. MaxWrites] :
          /\ \A f \in DOMAIN files : left[f] \in files[f].settled .. Len(files[f].held)
          /\ files' = [f \in DOMAIN files |->
                          [held |-> SubSeq(files[f].held, 1, left[f]), settled |-> left[f]]]
  BY Zenon DEF S!PowerLoss
<1>4. /\ DOMAIN manifests' = DOMAIN manifests
      /\ \A p \in DOMAIN manifests : manifests'[p] = [lines |-> cut[p], settled |-> TRUE]
  BY <1>2
<1>5. \A p \in DOMAIN manifests : manifests'[p].lines = cut[p] /\ manifests'[p].settled
  BY <1>4
<1>6. /\ DOMAIN files' = DOMAIN files
      /\ \A f \in DOMAIN files :
             files'[f] = [held |-> SubSeq(files[f].held, 1, left[f]), settled |-> left[f]]
  BY <1>3
<1>7. \A f \in DOMAIN files :
          /\ files'[f].held = SubSeq(files[f].held, 1, left[f]) /\ files'[f].settled = left[f]
  BY <1>6
<1>8. counted \in Nat
  BY DEF SInv, Counts
<1>9. ASSUME NEW f \in DOMAIN files
      PROVE  /\ UpTo(files'[f].held, counted) /\ Rising(files'[f].held)
             /\ Len(files'[f].held) = left[f] /\ left[f] \in Nat /\ files[f].settled <= left[f]
             /\ files[f].settled \in Nat
             /\ \A i \in 1 .. left[f] : files'[f].held[i] = files[f].held[i]
  <2>1. UpTo(files[f].held, counted) /\ Rising(files[f].held) /\ files[f].settled \in 0 .. Len(files[f].held)
    BY DEF SInv, OnDisk
  <2>2. Len(files[f].held) \in Nat
    BY <2>1 DEF UpTo
  <2>3. left[f] \in 0 .. Len(files[f].held) /\ left[f] \in Nat /\ files[f].settled <= left[f]
        /\ files[f].settled \in Nat
    BY <1>3, <2>1, <2>2
  <2> DEFINE s == files[f].held
             m == left[f]
  <2>4. /\ UpTo(SubSeq(s, 1, m), counted) /\ Rising(SubSeq(s, 1, m)) /\ Len(SubSeq(s, 1, m)) = m
        /\ \A i \in 1 .. m : SubSeq(s, 1, m)[i] = s[i]
    BY <1>8, <2>1, <2>3, CutRises, Zenon
  <2>5. files'[f].held = SubSeq(s, 1, m)
    BY <1>7
  <2> HIDE DEF s, m
  <2>6. /\ UpTo(files'[f].held, counted) /\ Rising(files'[f].held) /\ Len(files'[f].held) = m
        /\ \A i \in 1 .. m : files'[f].held[i] = s[i]
    BY <2>4, <2>5, Zenon
  <2> QED BY <2>3, <2>6 DEF s, m
<1>10. OnDisk'
  <2>1. files' = [f \in DOMAIN files' |-> [held |-> files'[f].held, settled |-> files'[f].settled]]
    BY <1>3, <1>6, <1>7, Zenon
  <2>2. manifests' = [p \in DOMAIN manifests' |->
                         [lines |-> manifests'[p].lines, settled |-> manifests'[p].settled]]
    <3>1. \A p \in DOMAIN manifests : manifests'[p] =
              [lines |-> manifests'[p].lines, settled |-> manifests'[p].settled]
      BY <1>4
    <3> QED BY <1>2, <1>4, <3>1, Zenon
  <2>3. \A f \in DOMAIN files' :
            /\ UpTo(files'[f].held, counted') /\ Rising(files'[f].held)
            /\ files'[f].settled \in 0 .. Len(files'[f].held)
    BY <1>1, <1>6, <1>7, <1>9
  <2>4. \A p \in DOMAIN manifests' : manifests'[p].settled
    BY <1>4, <1>5
  <2> QED BY <2>1, <2>2, <2>3, <2>4 DEF OnDisk
<1>11. Kept'
  <2> SUFFICES ASSUME NEW k \in kept', S!ListsItself(k.place[2])
               PROVE  /\ FileAt(k.place)' \in DOMAIN files'
                      /\ \E i \in 1 .. Len(files'[FileAt(k.place)'].held) :
                            /\ files'[FileAt(k.place)'].held[i] = k.write
                            /\ k.settled => i <= files'[FileAt(k.place)'].settled
    BY DEF Kept, Holds
  <2> DEFINE f == FileAt(k.place)
  <2>1. k \in kept /\ k.settled
    BY <1>1
  <2>2. FileAt(k.place)' = f
    BY <1>2, <1>4, <1>5, CutNamesAlike
  <2> HIDE DEF f
  <2>3. /\ f \in DOMAIN files
        /\ \E i \in 1 .. Len(files[f].held) : files[f].held[i] = k.write /\ i <= files[f].settled
    BY <2>1 DEF f, SInv, Kept, Holds
  <2>4. PICK i \in 1 .. Len(files[f].held) : files[f].held[i] = k.write /\ i <= files[f].settled
    BY <2>3
  <2>5. i \in 1 .. left[f] /\ files'[f].held[i] = k.write /\ Len(files'[f].held) = left[f]
    <3>1. /\ left[f] \in Nat /\ files[f].settled \in Nat /\ files[f].settled <= left[f]
          /\ Len(files'[f].held) = left[f]
          /\ \A j \in 1 .. left[f] : files'[f].held[j] = files[f].held[j]
      BY <1>9, <2>3, Zenon
    <3>2. i \in Int /\ 1 <= i /\ i <= files[f].settled /\ files[f].held[i] = k.write
      BY <2>4
    <3>3. i \in 1 .. left[f]
      BY <3>1, <3>2
    <3> QED BY <3>1, <3>2, <3>3
  <2> QED BY <1>6, <1>7, <2>2, <2>3, <2>5
<1> QED BY <1>1, <1>10, <1>11, DownRuns DEF SInv

-----------------------------------------------------------------------------
LEMMA SInvInit == S!Init => SInv
<1> SUFFICES ASSUME S!Init PROVE SInv
  OBVIOUS
<1>1. /\ stage = "down" /\ config = S!Default /\ files = << >> /\ store = << >>
      /\ counted = 0 /\ kept = {} /\ halts = 0
  BY DEF S!Init
<1>2. PICK found \in ManifestsFound :
          manifests = [place \in DOMAIN found |-> [lines |-> found[place], settled |-> TRUE]]
  BY Zenon DEF S!Init
<1>3. Counts
  BY <1>1 DEF Counts, S!Default
<1>4. DOMAIN files = {}
  BY <1>1
<1>5. OnDisk
  <2>1. files = [f \in DOMAIN files |-> [held |-> files[f].held, settled |-> files[f].settled]]
    BY <1>1, <1>4
  <2>2. \A p \in DOMAIN manifests : /\ manifests[p] = [lines |-> found[p], settled |-> TRUE]
                                    /\ manifests[p].settled
    BY <1>2
  <2>3. \A p \in DOMAIN manifests :
            manifests[p] = [lines |-> manifests[p].lines, settled |-> manifests[p].settled]
    BY <2>2
  <2>4. manifests = [p \in DOMAIN manifests |-> manifests[p]]
    BY <1>2
  <2>5. manifests = [p \in DOMAIN manifests |->
                        [lines |-> manifests[p].lines, settled |-> manifests[p].settled]]
    BY <2>3, <2>4, Zenon
  <2> QED BY <1>4, <2>1, <2>2, <2>5 DEF OnDisk
<1>6. UpTo(store, counted) /\ Rising(store) /\ ~ Opened
  BY <1>1 DEF UpTo, Rising, Opened
<1>7. Running
  BY <1>1, <1>6 DEF Running
<1> QED BY <1>1, <1>3, <1>5, <1>7 DEF SInv, Kept

LEMMA SInvNext == SInv /\ [S!Next]_S!vars => SInv'
<1> SUFFICES ASSUME SInv, [S!Next]_S!vars PROVE SInv'
  OBVIOUS
<1>1. CASE \E args \in CommandLines : S!Begin(args)
  BY <1>1, BeginKeeps
<1>2. CASE S!Prepare
  BY <1>2, FollowKeeps, EmptyKeeps
<1>3. CASE S!List
  BY <1>3, ListKeeps
<1>4. CASE S!OpenFile
  BY <1>4, OpenFileKeeps
<1>5. CASE S!Replay
  BY <1>5, ReplayKeeps
<1>6. CASE S!Write
  BY <1>6, WriteKeeps
<1>7. CASE S!Record
  BY <1>7, RecordKeeps
<1>8. CASE S!Sync
  BY <1>8, SyncKeeps
<1>9. CASE S!Answer
  BY <1>9, AnswerKeeps
<1>10. CASE S!Stop
  BY <1>10, StopKeeps
<1>11. CASE S!PowerLoss
  BY <1>11, PowerLossKeeps
<1>12. CASE UNCHANGED S!vars
  <2>1. UNCHANGED <<stage, config, manifests, files, path, store, counted, kept, halts>>
    BY <1>12 DEF S!vars
  <2>2. Counts' /\ OnDisk' /\ Kept'
    BY <2>1, ZenonT(30) DEF SInv, Counts, OnDisk, Kept, Holds, FileAt, S!Lines
  <2>3. S!Place' = S!Place /\ FileAt(S!Place)' = FileAt(S!Place) /\ Opened' = Opened
    BY <2>1, Zenon DEF S!Place, S!Directory, FileAt, S!Lines, Opened
  <2>4. Running'
    BY <2>1, <2>3, Zenon DEF SInv, Running
  <2> QED BY <2>2, <2>4 DEF SInv
<1> QED BY <1>1, <1>2, <1>3, <1>4, <1>5, <1>6, <1>7, <1>8, <1>9, <1>10, <1>11, <1>12 DEF S!Next

LEMMA SInvAlways == S!Spec => []SInv
  BY SInvInit, SInvNext, PTL DEF S!Spec

\* What is read back is what clients count on: whatever the command lines, the
\* manifests found and the names in them, a server that serves from a record
\* holds every write answered at its place, in the order they were made, after
\* any stops of the process and the machine (prepare in aof.rs, main).
THEOREM KeptIsReadBackAlways == S!Spec => []S!KeptIsReadBack
<1>1. SInv => S!KeptIsReadBack
  <2> SUFFICES ASSUME SInv, stage = "serving", config.appendonly, S!ListsItself(config.appendfilename)
               PROVE  /\ {k.write : k \in {k \in kept : k.place = S!Place}} \subseteq S!Range(store)
                      /\ \A i, j \in DOMAIN store : i < j => store[i] < store[j]
    BY DEF S!KeptIsReadBack
  <2>1. Opened /\ path = FileAt(S!Place) /\ store = files[path].held
    BY DEF SInv, Running, Opened
  <2>2. store \in Seq(Nat) /\ DOMAIN store = 1 .. Len(store)
    BY DEF SInv, Running, UpTo
  <2>3. \A i, j \in DOMAIN store : i < j => store[i] < store[j]
    BY <2>2 DEF SInv, Running, Rising
  <2>4. ASSUME NEW k \in kept, k.place = S!Place
        PROVE  k.write \in S!Range(store)
    <3>1. k.place[2] = config.appendfilename
      BY <2>4 DEF S!Place
    <3>2. \E i \in 1 .. Len(store) : store[i] = k.write
      BY <2>1, <2>4, <3>1, Zenon DEF SInv, Kept, Holds
    <3> QED BY <2>2, <3>2 DEF S!Range
  <2> QED BY <2>3, <2>4
<1> QED BY <1>1, SInvAlways, PTL

-----------------------------------------------------------------------------
(* What is read in several holds while others write: a prefix of what is   *)
(* asked, each answer as it stood at some moment, the moments in order.    *)

CONSTANT Names

\* What there was to be read of every name, at each of len moments, now last.
IsHistory(hist, now, R, len) ==
    /\ len \in Nat /\ 1 <= len /\ hist \in [Names -> Seq(R)]
    /\ \A n \in Names : Len(hist[n]) = len /\ hist[n][len] = now[n]

\* What was told of what is asked was there at these moments.
ReadAt(told, asked, hist, at, len) ==
    /\ at \in [1 .. Len(told) -> 1 .. len]
    /\ \A i, j \in 1 .. Len(told) : i < j => at[i] <= at[j]
    /\ \A i \in 1 .. Len(told) : told[i] = hist[asked[i]][at[i]]

\* A command has been told this much, and has this left to look up; it may
\* have given up once it was told to stop.
IsTold(asked, left, told, stop, hist, R, len) ==
    /\ asked \in Seq(Names) /\ left \in Seq(Names) /\ told \in Seq(R)
    /\ Len(told) <= Len(asked)
    /\ \E at : ReadAt(told, asked, hist, at, len)
    /\ \/ /\ Len(told) + Len(left) = Len(asked)
          /\ \A i \in 1 .. Len(left) : left[i] = asked[Len(told) + i]
       \/ left = << >> /\ \E i \in 1 .. Len(told) : told[i] = stop

\* The first moment.
Begun(now) == [n \in Names |-> <<now[n]>>]

\* A command begins.
LEMMA BeginsTold ==
    ASSUME NEW asked \in Seq(Names), NEW stop, NEW now,
           NEW hist, hist = Begun(now)
    PROVE  \E R, len : /\ IsHistory(hist, now, R, len)
                       /\ IsTold(asked, asked, << >>, stop, hist, R, len)
<1> DEFINE R == {now[n] : n \in Names}
<1>1. IsHistory(hist, now, R, 1)
  <2>1. \A n \in Names : now[n] \in R
    OBVIOUS
  <2> HIDE DEF R
  <2>2. ASSUME NEW n \in Names
        PROVE  <<now[n]>> \in Seq(R) /\ Len(<<now[n]>>) = 1 /\ <<now[n]>>[1] = now[n]
    BY <2>1
  <2>3. hist \in [Names -> Seq(R)]
    BY <2>2, Zenon DEF Begun
  <2>4. \A n \in Names : hist[n] = <<now[n]>>
    BY Zenon DEF Begun
  <2>5. \A n \in Names : Len(hist[n]) = 1 /\ hist[n][1] = now[n]
    BY <2>2, <2>4, Zenon
  <2>6. 1 \in Nat /\ 1 <= 1
    OBVIOUS
  <2> QED BY <2>3, <2>5, <2>6, Zenon DEF IsHistory
<1> HIDE DEF R
<1>2. IsTold(asked, asked, << >>, stop, hist, R, 1)
  <2>1. << >> \in Seq(R) /\ Len(<< >>) = 0 /\ Len(asked) \in Nat
    OBVIOUS
  <2>2. ReadAt(<< >>, asked, hist, [i \in 1 .. 0 |-> 1], 1)
    <3>1. 1 .. 0 = {}
      OBVIOUS
    <3>2. [i \in 1 .. 0 |-> 1] \in [1 .. 0 -> 1 .. 1]
      OBVIOUS
    <3> QED BY <2>1, <3>1, <3>2 DEF ReadAt
  <2>3. /\ Len(<< >>) <= Len(asked) /\ Len(<< >>) + Len(asked) = Len(asked)
        /\ \A i \in 1 .. Len(asked) : asked[i] = asked[Len(<< >>) + i]
    BY <2>1
  <2> QED BY <2>1, <2>2, <2>3 DEF IsTold
<1> QED BY <1>1, <1>2

\* One moment more, and all that has been read by then.
Extended(hist, next) == [n \in Names |-> Append(hist[n], next[n])]
ReadSoFar(R, next) == R \cup {next[n] : n \in Names}

\* Something changes in between.
LEMMA GoesOn ==
    ASSUME NEW hist, NEW now, NEW R, NEW len, IsHistory(hist, now, R, len), NEW next
    PROVE  /\ IsHistory(Extended(hist, next), next, ReadSoFar(R, next), len + 1)
           /\ \A asked, left, told, stop :
                  IsTold(asked, left, told, stop, hist, R, len)
                      => IsTold(asked, left, told, stop, Extended(hist, next), ReadSoFar(R, next), len + 1)
<1> DEFINE hist2 == Extended(hist, next)
           R2 == ReadSoFar(R, next)
<1>1. /\ len \in Nat /\ 1 <= len /\ hist \in [Names -> Seq(R)]
      /\ \A n \in Names : Len(hist[n]) = len
  BY DEF IsHistory
<1>2. R \subseteq R2 /\ \A n \in Names : next[n] \in R2
  BY DEF ReadSoFar
<1> HIDE DEF R2
<1>3. ASSUME NEW n \in Names
      PROVE  /\ Append(hist[n], next[n]) \in Seq(R2) /\ Len(Append(hist[n], next[n])) = len + 1
             /\ Append(hist[n], next[n])[len + 1] = next[n]
             /\ \A i \in 1 .. len : Append(hist[n], next[n])[i] = hist[n][i]
  <2> DEFINE s == hist[n]
             v == next[n]
  <2>1. s \in Seq(R2) /\ Len(s) = len /\ v \in R2
    <3>1. hist[n] \in Seq(R) /\ Len(hist[n]) = len
      BY <1>1
    <3> QED BY <1>1, <1>2, <3>1
  <2> HIDE DEF s, v
  <2>2. /\ Append(s, v) \in Seq(R2) /\ Len(Append(s, v)) = len + 1
        /\ Append(s, v)[len + 1] = v
        /\ \A i \in 1 .. len : Append(s, v)[i] = s[i]
    BY <1>1, <2>1
  <2> QED BY <2>2, Zenon DEF s, v
<1>4. \A n \in Names : hist2[n] = Append(hist[n], next[n])
  BY Zenon DEF Extended
<1>5. hist2 \in [Names -> Seq(R2)]
  BY <1>3, Zenon DEF Extended
<1>6. /\ \A n \in Names : Len(hist2[n]) = len + 1 /\ hist2[n][len + 1] = next[n]
      /\ \A n \in Names : \A i \in 1 .. len : hist2[n][i] = hist[n][i]
  BY <1>3, <1>4, Zenon
<1> HIDE DEF hist2
<1>7. IsHistory(hist2, next, R2, len + 1)
  <2>1. len + 1 \in Nat /\ 1 <= len + 1
    BY <1>1
  <2> QED BY <1>5, <1>6, <2>1 DEF IsHistory
<1>8. ASSUME NEW asked, NEW left, NEW told, NEW stop, IsTold(asked, left, told, stop, hist, R, len)
      PROVE  IsTold(asked, left, told, stop, hist2, R2, len + 1)
  <2>1. PICK at : ReadAt(told, asked, hist, at, len)
    BY <1>8 DEF IsTold
  <2>2. asked \in Seq(Names) /\ told \in Seq(R) /\ Len(told) <= Len(asked)
    BY <1>8 DEF IsTold
  <2>3. \A i \in 1 .. Len(told) : asked[i] \in Names
    BY <2>2
  <2>4. ReadAt(told, asked, hist2, at, len + 1)
    <3>1. at \in [1 .. Len(told) -> 1 .. len + 1]
      BY <1>1, <2>1 DEF ReadAt
    <3>2. \A i \in 1 .. Len(told) : at[i] \in 1 .. len /\ told[i] = hist[asked[i]][at[i]]
      BY <2>1 DEF ReadAt
    <3>3. \A i \in 1 .. Len(told) : told[i] = hist2[asked[i]][at[i]]
      BY <1>6, <2>3, <3>2
    <3> QED BY <2>1, <3>1, <3>3 DEF ReadAt
  <2>5. told \in Seq(R2)
    BY <1>2, <2>2
  <2> QED BY <1>8, <2>4, <2>5 DEF IsTold
<1> QED BY <1>7, <1>8, Zenon DEF hist2, R2

\* One more is looked up; it may be told to stop.
LEMMA LooksUp ==
    ASSUME NEW hist, NEW now, NEW R, NEW len, IsHistory(hist, now, R, len),
           NEW asked, NEW left, NEW told, NEW stop, IsTold(asked, left, told, stop, hist, R, len),
           left # << >>, NEW found, found = now[Head(left)],
           NEW left2, left2 = Tail(left) \/ (left2 = << >> /\ found = stop)
    PROVE  IsTold(asked, left2, Append(told, found), stop, hist, R, len)
<1>1. /\ asked \in Seq(Names) /\ left \in Seq(Names) /\ told \in Seq(R)
      /\ Len(told) + Len(left) = Len(asked)
      /\ \A i \in 1 .. Len(left) : left[i] = asked[Len(told) + i]
  BY DEF IsTold
<1>2. PICK at : ReadAt(told, asked, hist, at, len)
  BY DEF IsTold
<1> DEFINE k == Len(told)
           t2 == Append(told, found)
           at2 == [i \in 1 .. k + 1 |-> IF i = k + 1 THEN len ELSE at[i]]
<1>3. /\ k \in Nat /\ Len(left) \in Nat /\ 1 <= Len(left) /\ Len(asked) \in Nat
      /\ k + 1 \in 1 .. Len(asked) /\ Head(left) = asked[k + 1] /\ Head(left) \in Names
      /\ k + Len(left) = Len(asked)
  <2>1. Head(left) = left[1] /\ 1 \in 1 .. Len(left) /\ Head(left) \in Names
    BY <1>1
  <2> QED BY <1>1, <2>1
<1>4. len \in Nat /\ 1 <= len /\ hist[asked[k + 1]] \in Seq(R) /\ found = hist[asked[k + 1]][len] /\ found \in R
  <2>1. /\ len \in Nat /\ 1 <= len /\ hist[asked[k + 1]] \in Seq(R)
        /\ Len(hist[asked[k + 1]]) = len /\ hist[asked[k + 1]][len] = now[asked[k + 1]]
    BY <1>3 DEF IsHistory
  <2>2. len \in 1 .. Len(hist[asked[k + 1]])
    BY <2>1
  <2>3. hist[asked[k + 1]][len] \in R
    BY <2>1, <2>2
  <2> QED BY <1>3, <2>1, <2>3
<1>5. /\ t2 \in Seq(R) /\ Len(t2) = k + 1 /\ t2[k + 1] = found
      /\ \A i \in 1 .. k : t2[i] = told[i]
  BY <1>1, <1>3, <1>4
<1>6. at \in [1 .. k -> 1 .. len] /\ \A i, j \in 1 .. k : i < j => at[i] <= at[j]
  BY <1>2 DEF ReadAt
<1>7. \A i \in 1 .. k : told[i] = hist[asked[i]][at[i]]
  BY <1>2 DEF ReadAt
<1> HIDE DEF k, t2
<1>8. \A i \in 1 .. k + 1 : i = k + 1 \/ (i \in 1 .. k /\ i # k + 1 /\ at[i] \in 1 .. len)
  BY <1>3, <1>6
<1>9. /\ at2[k + 1] = len /\ \A i \in 1 .. k : at2[i] = at[i]
      /\ at2 \in [1 .. k + 1 -> 1 .. len]
  BY <1>3, <1>4, <1>6, <1>8
<1> HIDE DEF at2
<1>10. \A i, j \in 1 .. k + 1 : i < j => at2[i] <= at2[j]
  <2> SUFFICES ASSUME NEW i \in 1 .. k + 1, NEW j \in 1 .. k + 1, i < j
               PROVE  at2[i] <= at2[j]
    OBVIOUS
  <2>1. i \in 1 .. k
    BY <1>3
  <2>2. CASE j = k + 1
    BY <1>4, <1>6, <1>9, <2>1, <2>2
  <2>3. CASE j \in 1 .. k
    BY <1>6, <1>9, <2>1, <2>3
  <2> QED BY <1>8, <2>2, <2>3
<1>11. \A i \in 1 .. k + 1 : t2[i] = hist[asked[i]][at2[i]]
  <2> TAKE i \in 1 .. k + 1
  <2>1. CASE i = k + 1
    BY <1>4, <1>5, <1>9, <2>1
  <2>2. CASE i \in 1 .. k
    BY <1>5, <1>7, <1>9, <2>2
  <2> QED BY <1>8, <2>1, <2>2
<1>12. ReadAt(t2, asked, hist, at2, len)
  BY <1>5, <1>9, <1>10, <1>11 DEF ReadAt
<1>13. CASE left2 = Tail(left)
  <2>1. /\ left2 \in Seq(Names) /\ Len(left2) = Len(left) - 1
        /\ \A i \in 1 .. Len(left) - 1 : left2[i] = left[i + 1]
    BY <1>1, <1>3, <1>13
  <2>2. Len(t2) + Len(left2) = Len(asked) /\ Len(t2) <= Len(asked)
    <3>1. (k + 1) + (Len(left) - 1) = Len(asked) /\ k + 1 <= Len(asked)
      BY <1>3
    <3>2. Len(t2) = k + 1 /\ Len(left2) = Len(left) - 1
      BY <1>5, <2>1
    <3> QED BY <3>1, <3>2, Zenon
  <2>3. \A i \in 1 .. Len(left2) : left2[i] = asked[Len(t2) + i]
    <3> TAKE i \in 1 .. Len(left2)
    <3>1. i + 1 \in 1 .. Len(left) /\ i \in 1 .. Len(left) - 1 /\ k + (i + 1) = Len(t2) + i
      BY <1>3, <1>5, <2>1
    <3>2. left[i + 1] = asked[k + (i + 1)]
      BY <1>1, <3>1 DEF k
    <3> QED BY <2>1, <3>1, <3>2
  <2> QED BY <1>1, <1>5, <1>12, <2>1, <2>2, <2>3, Zenon DEF IsTold, t2
<1>14. CASE left2 = << >> /\ found = stop
  <2>1. Len(t2) <= Len(asked) /\ k + 1 \in 1 .. Len(t2) /\ t2[k + 1] = stop
    BY <1>3, <1>5, <1>14
  <2>2. left2 \in Seq(Names)
    BY <1>14
  <2> QED BY <1>1, <1>5, <1>12, <1>14, <2>1, <2>2, Zenon DEF IsTold, t2
<1> QED BY <1>13, <1>14

\* Moments for all that was asked: they read what was told, or both say stop.
ReadsAll(at, asked, told, stop, hist) ==
    /\ at \in [DOMAIN asked -> UNION {DOMAIN hist[n] : n \in Names}]
    /\ \A i, j \in DOMAIN at : i < j => at[i] <= at[j]
    /\ \/ [i \in DOMAIN at |-> hist[asked[i]][at[i]]] = told
       \/ /\ \E i \in DOMAIN told : told[i] = stop
          /\ \E i \in DOMAIN at : hist[asked[i]][at[i]] = stop

\* What was told, or what may stand for it once the command had been stopped,
\* is a reading of all that was asked.
LEMMA AllTold ==
    ASSUME NEW hist, NEW now, NEW R, NEW len, IsHistory(hist, now, R, len),
           NEW asked, NEW told, NEW stop, IsTold(asked, << >>, told, stop, hist, R, len)
    PROVE  \E at : ReadsAll(at, asked, told, stop, hist)
<1>1. /\ asked \in Seq(Names) /\ told \in Seq(R) /\ Len(told) \in Nat /\ Len(asked) \in Nat
      /\ Len(told) <= Len(asked) /\ DOMAIN told = 1 .. Len(told) /\ DOMAIN asked = 1 .. Len(asked)
      /\ \A i \in 1 .. Len(asked) : asked[i] \in Names
  BY DEF IsTold
<1>2. PICK at : ReadAt(told, asked, hist, at, len)
  BY DEF IsTold
<1>3. /\ len \in Nat /\ 1 <= len
      /\ \A n \in Names : DOMAIN hist[n] = 1 .. len
  BY DEF IsHistory
<1> DEFINE k == Len(told)
           m == Len(asked)
           at2 == [i \in 1 .. m |-> IF i \in 1 .. k THEN at[i] ELSE len]
<1>4. /\ at \in [1 .. k -> 1 .. len] /\ \A i, j \in 1 .. k : i < j => at[i] <= at[j]
      /\ \A i \in 1 .. k : told[i] = hist[asked[i]][at[i]]
  BY <1>2 DEF ReadAt
<1>5. \A i \in 1 .. k : i \in 1 .. m
  BY <1>1
<1>6. \A i \in 1 .. m : at2[i] \in 1 .. len
  BY <1>3, <1>4
<1>7. at2 \in [DOMAIN asked -> UNION {DOMAIN hist[n] : n \in Names}]
  <2>1. \A i \in 1 .. m : at2[i] \in UNION {DOMAIN hist[n] : n \in Names}
    BY <1>1, <1>3, <1>6
  <2> QED BY <1>1, <2>1
<1>8. /\ DOMAIN at2 = 1 .. m /\ \A i \in 1 .. k : at2[i] = at[i]
      /\ \A i \in 1 .. m : i \notin 1 .. k => at2[i] = len
  BY <1>5
<1> HIDE DEF at2
<1>9. \A i, j \in 1 .. m : i < j => at2[i] <= at2[j]
  <2> SUFFICES ASSUME NEW i \in 1 .. m, NEW j \in 1 .. m, i < j
               PROVE  at2[i] <= at2[j]
    OBVIOUS
  <2>1. CASE j \in 1 .. k
    <3>1. i \in 1 .. k
      BY <1>1, <2>1
    <3> QED BY <1>4, <1>8, <2>1, <3>1
  <2>2. CASE j \notin 1 .. k
    BY <1>3, <1>6, <1>8, <2>2
  <2> QED BY <2>1, <2>2
<1>10. \A i \in 1 .. k : hist[asked[i]][at2[i]] = told[i]
  BY <1>4, <1>8
<1>11. CASE k = m
  <2>1. [i \in DOMAIN at2 |-> hist[asked[i]][at2[i]]] = [i \in 1 .. k |-> told[i]]
    BY <1>8, <1>10, <1>11, Zenon
  <2>2. told = [i \in 1 .. k |-> told[i]]
    BY <1>1
  <2> QED BY <1>7, <1>8, <1>9, <2>1, <2>2 DEF ReadsAll
<1>12. CASE k # m
  <2>1. \E i \in 1 .. k : told[i] = stop
    <3>1. Len(<< >>) = 0
      OBVIOUS
    <3>2. \/ Len(told) + Len(<< >>) = Len(asked)
          \/ \E i \in 1 .. Len(told) : told[i] = stop
      BY Zenon DEF IsTold
    <3>3. \A a, b \in Nat : a # b => a + 0 # b
      OBVIOUS
    <3>4. Len(told) + Len(<< >>) # Len(asked)
      BY <1>1, <1>12, <3>1, <3>3, Zenon
    <3> QED BY <3>2, <3>4
  <2>2. \E i \in 1 .. m : hist[asked[i]][at2[i]] = stop
    BY <1>5, <1>10, <2>1, Zenon
  <2> QED BY <1>1, <1>7, <1>8, <1>9, <2>1, <2>2, Zenon DEF ReadsAll
<1> QED BY <1>11, <1>12

-----------------------------------------------------------------------------
(* GEOPOS and GEODIST, which let others in between their lookups.          *)

CONSTANTS BITS, Scores, Points, Asked, MaxBatch, MaxMeanwhile, NotANumber, NotHeld, WrongType

VARIABLES held, set, reader, meant, since

P == INSTANCE Places WITH kind <- held

Now == [n \in Names |-> P!Zscore(n)]

\* What the reader was told was there to be read, and its answer says so.
ToldTrue ==
    \/ reader = P!Idle
    \/ /\ reader = [command |-> reader.command, asked |-> reader.asked, left |-> reader.left,
                    told |-> reader.told, reply |-> reader.reply]
       /\ \E R, len : /\ IsHistory(since, Now, R, len)
                      /\ IsTold(reader.asked, reader.left, reader.told, WrongType, since, R, len)
       /\ reader.reply # P!NoReply =>
              /\ reader.left = << >>
              /\ reader.reply = IF reader.command = "GEOPOS" THEN P!Positions(reader.told)
                                ELSE P!Dist(reader.told)

\* Something changes that the reader may read.
LEMMA NotedKeepsTrue ==
    ASSUME ToldTrue, P!Noted, reader' = reader
    PROVE  ToldTrue'
<1>1. CASE reader = P!Idle
  <2>1. reader' = P!Idle
    BY <1>1
  <2> QED BY <2>1, Zenon DEF ToldTrue, P!Idle, P!NoReply
<1>2. CASE reader # P!Idle
  <2>1. PICK R, len : /\ IsHistory(since, Now, R, len)
                      /\ IsTold(reader.asked, reader.left, reader.told, WrongType, since, R, len)
    BY <1>2 DEF ToldTrue
  <2>2. since' = Extended(since, Now')
    <3>1. \A n \in Names : Now'[n] = P!Zscore(n)'
      BY DEF Now
    <3> QED BY <1>2, <3>1, Zenon DEF P!Noted, Extended
  <2>3. PICK R2, len2 :
            /\ IsHistory(since', Now', R2, len2)
            /\ IsTold(reader.asked, reader.left, reader.told, WrongType, since', R2, len2)
    <3>1. /\ IsHistory(Extended(since, Now'), Now', ReadSoFar(R, Now'), len + 1)
          /\ IsTold(reader.asked, reader.left, reader.told, WrongType,
                    Extended(since, Now'), ReadSoFar(R, Now'), len + 1)
      BY <2>1, GoesOn, Zenon
    <3> QED BY <2>2, <3>1, Zenon
  <2> QED BY <1>2, <2>3, Zenon DEF ToldTrue, P!Positions, P!Dist
<1> QED BY <1>1, <1>2

\* Nothing changes that the reader could tell.
LEMMA UnseenKeepsTrue ==
    ASSUME ToldTrue, reader' = reader, since' = since, set' = set,
           held' = "string" <=> held = "string"
    PROVE  ToldTrue'
<1>1. Now' = Now
  <2>1. \A n \in Names : P!Zscore(n)' = P!Zscore(n)
    BY Zenon DEF P!Zscore
  <2> QED BY <2>1, Zenon DEF Now
<1> QED BY <1>1, Zenon DEF ToldTrue, P!Idle, P!NoReply, P!Positions, P!Dist

LEMMA AskIsTrue ==
    ASSUME P!ConstantsFit, NEW command, NEW names \in Asked, P!Ask(command, names)
    PROVE  ToldTrue'
<1>1. names \in Seq(Names)
  BY DEF P!ConstantsFit
<1>2. /\ reader' = [command |-> command, asked |-> names, left |-> names, told |-> << >>,
                    reply |-> P!NoReply]
      /\ since' = [n \in Names |-> <<P!Zscore(n)>>]
      /\ set' = set /\ held' = held
  BY Zenon DEF P!Ask
<1>3. /\ reader'.command = command /\ reader'.asked = names /\ reader'.left = names
      /\ reader'.told = << >> /\ reader'.reply = P!NoReply
  BY <1>2
<1>4. since' = Begun(Now')
  <2>1. \A n \in Names : Now'[n] = P!Zscore(n)
    <3>1. \A n \in Names : P!Zscore(n)' = P!Zscore(n)
      BY <1>2, Zenon DEF P!Zscore
    <3> QED BY <3>1, Zenon DEF Now
  <2> QED BY <1>2, <2>1, Zenon DEF Begun
<1>5. PICK R, len : /\ IsHistory(since', Now', R, len)
                    /\ IsTold(names, names, << >>, WrongType, since', R, len)
  BY <1>1, <1>4, BeginsTold, Zenon
<1>6. reader' = [command |-> reader'.command, asked |-> reader'.asked, left |-> reader'.left,
                 told |-> reader'.told, reply |-> reader'.reply]
  BY <1>2, <1>3, Zenon
<1> QED BY <1>3, <1>5, <1>6, Zenon DEF ToldTrue, P!NoReply

LEMMA LookUpIsTrue ==
    ASSUME P!ConstantsFit, ToldTrue, P!LookUp
    PROVE  ToldTrue'
<1> DEFINE found == P!Zscore(Head(reader.left))
           left2 == IF found = WrongType /\ reader.command = "GEOPOS" THEN << >>
                    ELSE Tail(reader.left)
<1>1. reader.left # << >> /\ reader # P!Idle /\ set' = set /\ since' = since
  BY DEF P!LookUp, P!Idle
<1>2. reader = [command |-> reader.command, asked |-> reader.asked, left |-> reader.left,
                told |-> reader.told, reply |-> reader.reply]
  BY <1>1, Zenon DEF ToldTrue
<1>3. reader.reply = P!NoReply
  BY <1>1, Zenon DEF ToldTrue
<1>4. PICK R, len : /\ IsHistory(since, Now, R, len)
                    /\ IsTold(reader.asked, reader.left, reader.told, WrongType, since, R, len)
  BY <1>1, Zenon DEF ToldTrue
<1>5. reader' = [reader EXCEPT !.told = Append(@, found), !.left = left2]
  BY Zenon DEF P!LookUp
<1>6. left2 = Tail(reader.left) \/ (left2 = << >> /\ found = WrongType)
  BY Zenon
<1>7. found = Now[Head(reader.left)]
  <2>1. Head(reader.left) \in Names
    <3>1. reader.left \in Seq(Names)
      BY <1>4, Zenon DEF IsTold
    <3> QED BY <1>1, <3>1
  <2> QED BY <2>1, Zenon DEF Now
<1> HIDE DEF found, left2
<1>8. /\ reader' = [command |-> reader.command, asked |-> reader.asked, left |-> left2,
                    told |-> Append(reader.told, found), reply |-> reader.reply]
  BY <1>2, <1>5, Zenon
<1>9. /\ reader'.command = reader.command /\ reader'.asked = reader.asked
      /\ reader'.left = left2 /\ reader'.told = Append(reader.told, found)
      /\ reader'.reply = reader.reply
  BY <1>8
<1>10. IsTold(reader.asked, left2, Append(reader.told, found), WrongType, since, R, len)
  BY <1>1, <1>4, <1>6, <1>7, LooksUp, Zenon
<1>11. Now' = Now
  <2>1. held' = "string" <=> held = "string"
    BY DEF P!LookUp, P!Dropped
  <2>2. \A n \in Names : P!Zscore(n)' = P!Zscore(n)
    BY <1>1, <2>1, Zenon DEF P!Zscore
  <2> QED BY <2>2, Zenon DEF Now
<1>12. reader' = [command |-> reader'.command, asked |-> reader'.asked, left |-> reader'.left,
                  told |-> reader'.told, reply |-> reader'.reply]
  BY <1>8, <1>9, Zenon
<1>13. /\ IsHistory(since', Now', R, len)
       /\ IsTold(reader'.asked, reader'.left, reader'.told, WrongType, since', R, len)
  BY <1>1, <1>4, <1>9, <1>10, <1>11, Zenon
<1> QED BY <1>3, <1>9, <1>12, <1>13, Zenon DEF ToldTrue, P!NoReply

LEMMA AnswerIsTrue ==
    ASSUME ToldTrue, P!Answer
    PROVE  ToldTrue'
<1> DEFINE reply == IF reader.command = "GEOPOS" THEN P!Positions(reader.told)
                    ELSE P!Dist(reader.told)
<1>1. reader # P!Idle /\ reader.left = << >>
  BY DEF P!Answer
<1>2. /\ reader' = [reader EXCEPT !.reply = reply]
      /\ set' = set /\ held' = held /\ since' = since
  BY Zenon DEF P!Answer
<1>3. reader = [command |-> reader.command, asked |-> reader.asked, left |-> reader.left,
                told |-> reader.told, reply |-> reader.reply]
  BY <1>1, Zenon DEF ToldTrue
<1>4. PICK R, len : /\ IsHistory(since, Now, R, len)
                    /\ IsTold(reader.asked, reader.left, reader.told, WrongType, since, R, len)
  BY <1>1, Zenon DEF ToldTrue
<1> HIDE DEF reply
<1>5. reader' = [command |-> reader.command, asked |-> reader.asked, left |-> reader.left,
                 told |-> reader.told, reply |-> reply]
  BY <1>2, <1>3
<1>6. /\ reader'.command = reader.command /\ reader'.asked = reader.asked
      /\ reader'.left = reader.left /\ reader'.told = reader.told /\ reader'.reply = reply
  BY <1>5
<1>7. reader' = [command |-> reader'.command, asked |-> reader'.asked, left |-> reader'.left,
                 told |-> reader'.told, reply |-> reader'.reply]
  BY <1>5, <1>6, Zenon
<1>8. Now' = Now
  <2>1. \A n \in Names : P!Zscore(n)' = P!Zscore(n)
    BY <1>2, Zenon DEF P!Zscore
  <2> QED BY <2>1, Zenon DEF Now
<1>9. /\ IsHistory(since', Now', R, len)
      /\ IsTold(reader'.asked, reader'.left, reader'.told, WrongType, since', R, len)
  BY <1>2, <1>4, <1>6, <1>8, Zenon
<1>10. reader'.reply = IF reader'.command = "GEOPOS" THEN P!Positions(reader'.told)
                       ELSE P!Dist(reader'.told)
  BY <1>6, Zenon DEF reply
<1>11. reader'.left = << >>
  BY <1>1, <1>6, Zenon
<1> QED BY <1>7, <1>9, <1>10, <1>11, Zenon DEF ToldTrue, P!Positions, P!Dist

LEMMA StepIsTrue ==
    ASSUME P!ConstantsFit, ToldTrue, [P!Next]_P!vars
    PROVE  ToldTrue'
<1>1. ASSUME NEW batch, P!AddCommand(batch) PROVE ToldTrue'
  <2>1. CASE held # "string" /\ \A i \in DOMAIN batch : P!Readable(batch[i])
    <3>1. P!Noted /\ reader' = reader
      BY <1>1, <2>1 DEF P!AddCommand, P!Zadd
    <3> QED BY <3>1, NotedKeepsTrue
  <2>2. CASE ~ (held # "string" /\ \A i \in DOMAIN batch : P!Readable(batch[i]))
    <3>1. UNCHANGED <<held, set, since, reader>>
      BY <1>1, <2>2 DEF P!AddCommand
    <3> QED BY <3>1, UnseenKeepsTrue
  <2> QED BY <2>1, <2>2
<1>2. ASSUME NEW names, P!Zrem(names) PROVE ToldTrue'
  BY <1>2, NotedKeepsTrue DEF P!Zrem
<1>3. CASE P!Set
  BY <1>3, NotedKeepsTrue DEF P!Set
<1>4. CASE P!DeadlinePasses
  BY <1>4, NotedKeepsTrue DEF P!DeadlinePasses
<1>5. CASE P!Look
  BY <1>5, UnseenKeepsTrue DEF P!Look, P!Dropped
<1>6. ASSUME NEW command, NEW names \in Asked, P!Ask(command, names) PROVE ToldTrue'
  BY <1>6, AskIsTrue, Zenon
<1>7. CASE P!LookUp
  BY <1>7, LookUpIsTrue
<1>8. CASE P!Answer
  BY <1>8, AnswerIsTrue
<1>9. CASE P!Answered
  <2>1. reader' = P!Idle
    BY <1>9 DEF P!Answered
  <2> QED BY <2>1, Zenon DEF ToldTrue, P!Idle, P!NoReply
<1>10. CASE UNCHANGED P!vars
  BY <1>10, UnseenKeepsTrue DEF P!vars
<1> QED BY <1>1, <1>2, <1>3, <1>4, <1>5, <1>6, <1>7, <1>8, <1>9, <1>10 DEF P!Next

\* A reader that has its answer was told all it asked after, or told to stop.
LEMMA TrueReplies ==
    ASSUME ToldTrue
    PROVE  P!RepliesWereTrue
<1> SUFFICES ASSUME reader.reply # P!NoReply
             PROVE  \E told \in [DOMAIN reader.asked -> UNION {DOMAIN since[n] : n \in Names}] :
                        LET read == [i \in DOMAIN told |-> since[reader.asked[i]][told[i]]]
                        IN  /\ \A i, j \in DOMAIN told : i < j => told[i] <= told[j]
                            /\ reader.reply = IF reader.command = "GEOPOS" THEN P!Positions(read)
                                              ELSE P!Dist(read)
  BY Zenon DEF P!RepliesWereTrue
<1>1. reader # P!Idle
  BY DEF P!Idle
<1>2. PICK R, len : /\ IsHistory(since, Now, R, len)
                    /\ IsTold(reader.asked, reader.left, reader.told, WrongType, since, R, len)
  BY <1>1, Zenon DEF ToldTrue
<1>3. /\ reader.left = << >>
      /\ reader.reply = IF reader.command = "GEOPOS" THEN P!Positions(reader.told)
                        ELSE P!Dist(reader.told)
  BY <1>1, Zenon DEF ToldTrue
<1>4. PICK at : ReadsAll(at, reader.asked, reader.told, WrongType, since)
  BY <1>2, <1>3, AllTold, Zenon
<1> DEFINE read == [i \in DOMAIN at |-> since[reader.asked[i]][at[i]]]
<1>5. /\ at \in [DOMAIN reader.asked -> UNION {DOMAIN since[n] : n \in Names}]
      /\ \A i, j \in DOMAIN at : i < j => at[i] <= at[j]
  BY <1>4, Zenon DEF ReadsAll
<1>6. CASE read = reader.told
  BY <1>3, <1>5, <1>6, Zenon
<1>7. CASE /\ \E i \in DOMAIN reader.told : reader.told[i] = WrongType
           /\ \E i \in DOMAIN at : since[reader.asked[i]][at[i]] = WrongType
  <2>1. WrongType \in P!Range(reader.told) /\ WrongType \in P!Range(read)
    BY <1>7, Zenon DEF P!Range
  <2> HIDE DEF read
  <2>2. /\ P!Positions(reader.told) = P!Positions(read)
        /\ P!Dist(reader.told) = P!Dist(read)
    BY <2>1, Zenon DEF P!Positions, P!Dist
  <2>3. reader.reply = IF reader.command = "GEOPOS" THEN P!Positions(read) ELSE P!Dist(read)
    BY <1>3, <2>2, Zenon
  <2> QED BY <1>5, <2>3, Zenon DEF read
<1> QED BY <1>4, <1>6, <1>7, Zenon DEF ReadsAll

\* GEOPOS and GEODIST look their places up one hold of the mutex at a time, and
\* what they answer was there, place by place, at moments of the command that
\* follow each other: whatever else is done in between, however many places are
\* asked after, and even when a key of another kind turned the command away.
THEOREM RepliesWereTrueAlways ==
    ASSUME P!ConstantsFit
    PROVE  P!Spec => []P!RepliesWereTrue
<1>1. P!Init => ToldTrue
  BY Zenon DEF P!Init, ToldTrue, P!Idle, P!NoReply
<1>2. ToldTrue /\ [P!Next]_P!vars => ToldTrue'
  BY StepIsTrue
<1>3. ToldTrue => P!RepliesWereTrue
  BY TrueReplies
<1> QED BY <1>1, <1>2, <1>3, PTL DEF P!Spec
=============================================================================
