---------------------------- MODULE BlockingLists ----------------------------
(***************************************************************************)
(* The lists of the store and the clients that block on them: RPUSH,       *)
(* LPUSH, LPOP and BLPOP, with SET and lazy expiry as the ways a key comes *)
(* to hold something that is not a list (src/store/lists.rs,               *)
(* src/commands/lists.rs).                                                 *)
(*                                                                         *)
(* Every operation of the store runs under one mutex.  Most are a single   *)
(* action here.  The two that loop over the queue of waiting clients are   *)
(* taken one iteration at a time, with `lock' naming the loop under way,   *)
(* because a waiting client does not need the mutex to give up: its        *)
(* timeout may fire between any two iterations.                            *)
(*                                                                         *)
(* Clients are the connections that call BLPOP.  Every other operation may *)
(* come from any connection at any time, so its caller is not named.       *)
(***************************************************************************)
EXTENDS Integers, Sequences, FiniteSets, Functions

CONSTANTS
    Clients,    \* connections that call BLPOP
    Impatient,  \* those that give BLPOP a timeout other than zero
    Keys,
    Elements,   \* what is pushed; each stands for one element, not its bytes
    MaxBatch,   \* bound: the most elements one push carries
    NoElement,  \* a channel nothing has been sent through
    Gone        \* a queued sender whose receiver has been dropped

ASSUME ConstantsAssumption ==
    /\ Impatient \subseteq Clients
    /\ MaxBatch \in Nat \ {0}
    /\ IsFiniteSet(Clients)
    /\ NoElement \notin Elements
    /\ Gone \notin Clients

VARIABLES
    kind,     \* what each key holds: "none", "string" or "list"
    items,    \* the elements of the list at each key, front first
    expiry,   \* "never", or "pending" until the deadline has "passed"
    waiters,  \* per key, the queued senders, each named after its client
    slot,     \* per client, what was sent through its channel
    pc,       \* per client: "idle", "blocked", or "late" once timed out
    lock,     \* the loop that holds the store's mutex, or Free
    \* history, read by the properties alone
    owed,     \* the elements pushed and neither answered nor overwritten
    before    \* <<d, c>>: d was in line for the key when c joined it

store == <<kind, items, expiry>>
vars == <<kind, items, expiry, waiters, slot, pc, lock, owed, before>>

Free == [phase |-> "free"]
Wake(k) == [phase |-> "wake", key |-> k]
Retain(k, c, i) == [phase |-> "retain", key |-> k, client |-> c, at |-> i]

\* A batch back to front; a queue without the sender at place i; a queue with
\* one sender taken for another.
Reverse(batch) == [i \in 1 .. Len(batch) |-> batch[Len(batch) - i + 1]]
RemoveAt(queue, i) == SubSeq(queue, 1, i - 1) \o SubSeq(queue, i + 1, Len(queue))
ReplaceAll(queue, old, new) ==
    [i \in 1 .. Len(queue) |-> IF queue[i] = old THEN new ELSE queue[i]]

InLine(c, k) == c \in Range(waiters[k])

\* The type invariant of the store, the queues of blocked clients and the mutex.
TypeOK ==
    /\ kind \in [Keys -> {"none", "string", "list"}]
    /\ items \in [Keys -> Seq(Elements)]
    /\ expiry \in [Keys -> {"never", "pending", "passed"}]
    /\ waiters \in [Keys -> Seq(Clients \cup {Gone})]
    /\ slot \in [Clients -> Elements \cup {NoElement}]
    /\ pc \in [Clients -> {"idle", "blocked", "late"}]
    /\ \/ lock = Free
       \/ \E k \in Keys : lock = Wake(k)
       \/ \E k \in Keys, c \in Clients : \E i \in 1 .. Len(waiters[k]) + 1 :
             lock = Retain(k, c, i)
    /\ owed \subseteq Elements
    /\ before \subseteq Clients \X Clients

Init ==
    /\ kind = [k \in Keys |-> "none"]
    /\ items = [k \in Keys |-> << >>]
    /\ expiry = [k \in Keys |-> "never"]
    /\ waiters = [k \in Keys |-> << >>]
    /\ slot = [c \in Clients |-> NoElement]
    /\ pc = [c \in Clients |-> "idle"]
    /\ lock = Free
    /\ owed = {}
    /\ before = {}

-----------------------------------------------------------------------------
(* The entry table.                                                        *)

\* The entry at k becomes this one.
Put(k, knd, list, exp) ==
    /\ kind' = [kind EXCEPT ![k] = knd]
    /\ items' = [items EXCEPT ![k] = list]
    /\ expiry' = [expiry EXCEPT ![k] = exp]

\* The key is removed from the table.
Delete(k) == Put(k, "none", << >>, "never")

\* What every operation finds at k, having first dropped it if expired.
KindAt(k) == IF expiry[k] = "passed" THEN "none" ELSE kind[k]

\* The drop itself, for an operation that changes nothing else.
DropIfExpired(k) == IF expiry[k] = "passed" THEN Delete(k) ELSE UNCHANGED store

\* Mutant: a list that has run empty is kept.
PutListKeepingEmpty(k, list) == Put(k, "list", list, "never")

\* A list left with these elements, dropped once it runs empty.
PutList(k, list) ==
    IF list = << >> THEN Delete(k) ELSE Put(k, "list", list, "never")

\* The instant an entry expires at goes by.  Nothing happens to the entry
\* until it is next looked at.
DeadlinePasses(k) ==
    /\ expiry[k] = "pending"
    /\ expiry' = [expiry EXCEPT ![k] = "passed"]
    /\ UNCHANGED <<kind, items, waiters, slot, pc, lock, owed, before>>

-----------------------------------------------------------------------------
(* Operations that finish under a single hold of the mutex.                *)

\* SET, with or without an expiry, whatever the key held.
Set(k, exp) ==
    /\ lock = Free
    /\ Put(k, "string", << >>, exp)
    /\ owed' = owed \ Range(items[k])
    /\ UNCHANGED <<waiters, slot, pc, lock, before>>

\* GET, TYPE, LLEN, LRANGE and the other lookups.
Look(k) ==
    /\ lock = Free
    /\ DropIfExpired(k)
    /\ UNCHANGED <<waiters, slot, pc, lock, owed, before>>

\* LPOP key n: nothing from a missing key or another type.
Lpop(k, n) ==
    /\ lock = Free
    /\ IF KindAt(k) = "list"
       THEN LET taken == IF n < Len(items[k]) THEN n ELSE Len(items[k])
            IN  /\ PutList(k, SubSeq(items[k], taken + 1, Len(items[k])))
                /\ owed' = owed \ Range(SubSeq(items[k], 1, taken))
       ELSE DropIfExpired(k) /\ UNCHANGED owed
    /\ UNCHANGED <<waiters, slot, pc, lock, before>>

-----------------------------------------------------------------------------
(* Pushing, and handing what was pushed to the clients in line.            *)

\* Elements not on their way to anyone, so that each can be followed.
Batches ==
    UNION { {b \in [1 .. n -> Elements \ owed] :
                \A i, j \in 1 .. n : b[i] = b[j] => i = j} : n \in 1 .. MaxBatch }

\* Mutant: wake_waiters is not called.
PushWithoutWaking(k, batch, side) ==
    /\ lock = Free
    /\ IF KindAt(k) = "string"
       THEN UNCHANGED <<kind, items, expiry, owed>>
       ELSE Put(k, "list", items[k] \o batch, "never") /\ owed' = owed \cup Range(batch)
    /\ UNCHANGED <<waiters, slot, pc, lock, before>>

\* Mutant: a new list takes the place of the one that was there.
PushReplacing(k, batch, side) ==
    /\ lock = Free
    /\ IF KindAt(k) = "string"
       THEN UNCHANGED <<kind, items, expiry, lock, owed>>
       ELSE /\ Put(k, "list", batch, "never")
            /\ owed' = owed \cup Range(batch)
            /\ lock' = Wake(k)
    /\ UNCHANGED <<waiters, slot, pc, before>>

\* RPUSH and LPUSH up to the call of wake_waiters.  A push onto a string is
\* refused.
Push(k, batch, side) ==
    /\ lock = Free
    /\ IF KindAt(k) = "string"
       THEN UNCHANGED <<kind, items, expiry, lock, owed>>
       ELSE /\ Put(k, "list",
                   IF side = "right" THEN items[k] \o batch
                                     ELSE Reverse(batch) \o items[k], "never")
            /\ owed' = owed \cup Range(batch)
            /\ lock' = Wake(k)
    /\ UNCHANGED <<waiters, slot, pc, before>>

\* Hands the front element to the sender at position i and leaves this queue.
Send(k, i, queue) ==
    /\ lock = Wake(k)
    /\ waiters[k] # << >>
    /\ kind[k] = "list"
    /\ waiters' = [waiters EXCEPT ![k] = queue]
    /\ IF waiters[k][i] = Gone
       THEN UNCHANGED <<kind, items, expiry, slot>>
       ELSE /\ slot' = [slot EXCEPT ![waiters[k][i]] = Head(items[k])]
            /\ PutList(k, Tail(items[k]))
    /\ UNCHANGED <<pc, lock, owed, before>>

\* Mutant: the client that came last is served first.
HandOverToLast(k) == Send(k, Len(waiters[k]), RemoveAt(waiters[k], Len(waiters[k])))

\* Mutant: the element is sent without being taken off the list.
HandOverKeepingElement(k) ==
    /\ lock = Wake(k)
    /\ waiters[k] # << >>
    /\ waiters' = [waiters EXCEPT ![k] = Tail(@)]
    /\ slot' = [c \in Clients |-> IF c = Head(waiters[k]) THEN Head(items[k]) ELSE slot[c]]
    /\ UNCHANGED <<kind, items, expiry, pc, lock, owed, before>>

\* One turn of the loop in wake_waiters: the first in line is sent the first
\* element, unless its receiver is gone, in which case the element goes back
\* to the front.
HandOver(k) ==
    /\ lock = Wake(k)
    /\ waiters[k] # << >>
    /\ kind[k] = "list"
    /\ waiters' = [waiters EXCEPT ![k] = Tail(@)]
    /\ IF Head(waiters[k]) = Gone
       THEN UNCHANGED <<kind, items, expiry, slot>>
       ELSE /\ slot' = [slot EXCEPT ![Head(waiters[k])] = Head(items[k])]
            /\ PutList(k, Tail(items[k]))
    /\ UNCHANGED <<pc, lock, owed, before>>

\* The loop ends with nobody left in line or nothing left to hand over.
WakeDone(k) ==
    /\ lock = Wake(k)
    /\ waiters[k] = << >> \/ kind[k] # "list"
    /\ lock' = Free
    /\ UNCHANGED <<kind, items, expiry, waiters, slot, pc, owed, before>>

-----------------------------------------------------------------------------
(* BLPOP.                                                                  *)

\* The call: an element if there is one, otherwise a place in line.  A key
\* that holds a string is refused.
Blpop(c, k) ==
    /\ lock = Free
    /\ pc[c] = "idle"
    /\ CASE KindAt(k) = "list" ->
              /\ PutList(k, Tail(items[k]))
              /\ owed' = owed \ {Head(items[k])}
              /\ UNCHANGED lock
         [] KindAt(k) = "string" -> UNCHANGED <<kind, items, expiry, owed, lock>>
         [] KindAt(k) = "none" ->
              /\ DropIfExpired(k)
              /\ lock' = Retain(k, c, 1)
              /\ UNCHANGED owed
    /\ UNCHANGED <<waiters, slot, pc, before>>

\* One turn of a loop over the queue: entry i goes or stays, and then the loop
\* is at position j.
RetainTurn(k, c, i, goes, j) ==
    /\ lock = Retain(k, c, i)
    /\ i <= Len(waiters[k])
    /\ waiters' = IF goes THEN [waiters EXCEPT ![k] = RemoveAt(@, i)] ELSE waiters
    /\ lock' = Retain(k, c, j)
    /\ UNCHANGED <<kind, items, expiry, slot, pc, owed, before>>

\* Mutants: the entry after a removed one is skipped; senders whose clients are
\* gone are kept; the others are taken out.
RetainSkipping(k, c, i) == RetainTurn(k, c, i, waiters[k][i] = Gone, i + 1)
RetainKeepingGone(k, c, i) == RetainTurn(k, c, i, FALSE, i + 1)
RetainInverted(k, c, i) ==
    RetainTurn(k, c, i, waiters[k][i] # Gone, IF waiters[k][i] # Gone THEN i ELSE i + 1)

\* One turn of queue.retain: a sender whose receiver is gone is taken out.
RetainNext(k, c, i) ==
    /\ lock = Retain(k, c, i)
    /\ i <= Len(waiters[k])
    /\ IF waiters[k][i] = Gone
       THEN waiters' = [waiters EXCEPT ![k] = RemoveAt(@, i)] /\ UNCHANGED lock
       ELSE lock' = Retain(k, c, i + 1) /\ UNCHANGED waiters
    /\ UNCHANGED <<kind, items, expiry, slot, pc, owed, before>>

\* Mutant: the new sender goes to the front.
JoinAtFront(k, c, i) ==
    /\ lock = Retain(k, c, i)
    /\ i > Len(waiters[k])
    /\ before' = before \cup {<<d, c>> : d \in {d \in Clients : InLine(d, k)}}
    /\ waiters' = [waiters EXCEPT ![k] = <<c>> \o @]
    /\ pc' = [pc EXCEPT ![c] = "blocked"]
    /\ lock' = Free
    /\ UNCHANGED <<kind, items, expiry, slot, owed>>

\* The new sender goes to the back, and the client is left to wait.
Join(k, c, i) ==
    /\ lock = Retain(k, c, i)
    /\ i > Len(waiters[k])
    /\ before' = before \cup {<<d, c>> : d \in {d \in Clients : InLine(d, k)}}
    /\ waiters' = [waiters EXCEPT ![k] = Append(@, c)]
    /\ pc' = [pc EXCEPT ![c] = "blocked"]
    /\ lock' = Free
    /\ UNCHANGED <<kind, items, expiry, slot, owed>>

\* Back to idle: the receiver is used up or dropped, which leaves its sender,
\* where still queued, marked as gone.  A client that hangs up changes nothing
\* before this: its task waits on the channel and not on the socket.
Answered(c) ==
    /\ pc' = [pc EXCEPT ![c] = "idle"]
    /\ slot' = [slot EXCEPT ![c] = NoElement]
    /\ waiters' = [k \in Keys |-> ReplaceAll(waiters[k], c, Gone)]
    /\ before' = {p \in before : p[1] # c /\ p[2] # c}

\* The channel is polled and holds an element: it is the answer.
Receive(c) ==
    /\ pc[c] = "blocked"
    /\ slot[c] # NoElement
    /\ Answered(c)
    /\ owed' = owed \ {slot[c]}
    /\ UNCHANGED <<kind, items, expiry, lock>>

\* The channel is polled and is empty, and then the timer is found to have
\* run out: from here on the answer will be that nothing came.
TimerFires(c) ==
    /\ c \in Impatient
    /\ pc[c] = "blocked"
    /\ slot[c] = NoElement
    /\ pc' = [pc EXCEPT ![c] = "late"]
    /\ UNCHANGED <<kind, items, expiry, waiters, slot, lock, owed, before>>

\* Mutant: a client that has been sent something does not give up.
GiveUpUnlessSent(c) ==
    /\ pc[c] = "late"
    /\ slot[c] = NoElement
    /\ Answered(c)
    /\ UNCHANGED <<kind, items, expiry, lock, owed>>

\* The receiver is dropped, along with anything that was sent to it since.
GiveUp(c) ==
    /\ pc[c] = "late"
    /\ Answered(c)
    /\ UNCHANGED <<kind, items, expiry, lock, owed>>

-----------------------------------------------------------------------------
WakeStep == \E k \in Keys : HandOver(k) \/ WakeDone(k)

RetainStep ==
    \E k \in Keys, c \in Clients : \E i \in 1 .. Len(waiters[k]) + 1 :
        RetainNext(k, c, i) \/ Join(k, c, i)

Operation(k) ==
    \/ \E exp \in {"never", "pending"} : Set(k, exp)
    \/ Look(k)
    \/ \E n \in 0 .. MaxBatch : Lpop(k, n)
    \/ \E batch \in Batches, side \in {"left", "right"} : Push(k, batch, side)
    \/ DeadlinePasses(k)

Client(c) ==
    \/ \E k \in Keys : Blpop(c, k)
    \/ Receive(c)
    \/ TimerFires(c)
    \/ GiveUp(c)

Next ==
    \/ \E k \in Keys : Operation(k)
    \/ WakeStep
    \/ RetainStep
    \/ \E c \in Clients : Client(c)

\* Tasks that can run do run, the holder of the mutex goes on to release it,
\* and timers go off.  Nobody is obliged to call or to push.
Fairness ==
    /\ WF_vars(WakeStep)
    /\ WF_vars(RetainStep)
    /\ \A c \in Clients :
          WF_vars(Receive(c)) /\ WF_vars(TimerFires(c)) /\ WF_vars(GiveUp(c))

Spec == Init /\ [][Next]_vars

FairSpec == Spec /\ Fairness

-----------------------------------------------------------------------------
(* Properties.                                                             *)

\* Elements in the lists, and elements sent to a client and not yet read.
Stored == UNION {Range(items[k]) : k \in Keys}
InHand == {slot[c] : c \in Clients} \ {NoElement}

\* A stored list is never empty, which is what blpop's `expect' relies on, and
\* it carries no expiry; nothing but a list has elements.
ListsNeverEmpty ==
    \A k \in Keys :
        IF kind[k] = "list" THEN items[k] # << >> /\ expiry[k] = "never"
                            ELSE items[k] = << >>

\* Whenever the mutex is free, no sender is queued on a key that holds a list:
\* nobody, not even a client that has gone, is left in line behind elements
\* that wake_waiters could have handed over.
NobodyWaitsOnAList ==
    \A k \in Keys : lock # Wake(k) /\ kind[k] = "list" => waiters[k] = << >>

\* The two together, which is how lists and queues stay in shape: a key has
\* elements or clients waiting for some, never both and never an empty list.
ListsInShape == ListsNeverEmpty /\ NobodyWaitsOnAList

\* A client is in line exactly while it is blocked and has been sent nothing,
\* and it is in line once: no sender is used twice, and none is dropped from
\* the queue with its client left waiting.
EachWaiterInLineOnce ==
    /\ \A c \in Clients :
          (\E k \in Keys : InLine(c, k)) <=> (pc[c] # "idle" /\ slot[c] = NoElement)
    /\ \A k, l \in Keys : \A i \in DOMAIN waiters[k], j \in DOMAIN waiters[l] :
          waiters[k][i] = waiters[l][j] /\ waiters[k][i] # Gone => k = l /\ i = j

\* No element is in two places: twice in the lists, in a list and on its way
\* to a client, or on its way to two clients.
NoElementTwice ==
    /\ Stored \cap InHand = {}
    /\ \A c, d \in Clients : slot[c] = slot[d] /\ slot[c] # NoElement => c = d
    /\ \A k, l \in Keys : \A i \in DOMAIN items[k], j \in DOMAIN items[l] :
          items[k][i] = items[l][j] => k = l /\ i = j

\* Elements pushed, and neither answered to anyone nor overwritten, that are
\* nowhere; and those in the hands of clients that have already timed out.
Lost == owed \ (Stored \cup InHand)
InLateHands == {slot[c] : c \in {d \in Clients : pc[d] = "late"}}

\* Every element pushed is in a list or on its way to a client until it is
\* answered or overwritten: dropping a receiver on a timeout loses none.
NoElementLost == Lost = {}

\* A step loses no element but one that was sent to a client after its timer
\* fired: pushes, pops and handovers only ever move them.
LostOnlyToLate == [][Lost' \subseteq Lost \cup InLateHands]_vars

\* Clients blocked on a key are served in the order they joined the line: one
\* is not sent an element while another that was there before it has none.
ServedInOrder ==
    \A p \in before : slot[p[2]] # NoElement => slot[p[1]] # NoElement

\* Abandoned senders do not pile up: the retain in blpop keeps a queue to one
\* sender per client, however often clients come back after timing out.
NoPileUp == \A k \in Keys : Len(waiters[k]) <= Cardinality(Clients)

\* A client that blocks is answered: one that gave a timeout always, and any
\* client if the key it is in line for is pushed to again and again.
WaitersAreAnswered ==
    /\ \A c \in Impatient : pc[c] # "idle" ~> pc[c] = "idle"
    /\ \A k \in Keys, c \in Clients :
          []<>(lock = Wake(k)) => (InLine(c, k) ~> pc[c] = "idle")
=============================================================================
