---------------------------- MODULE Transactions ----------------------------
(***************************************************************************)
(* MULTI, EXEC, DISCARD, WATCH and UNWATCH, and the versions that entries  *)
(* carry so that EXEC can tell whether a watched key has changed           *)
(* (src/commands/transactions.rs, src/commands/mod.rs, src/store/mod.rs).  *)
(*                                                                         *)
(* Each command takes the store's mutex once, so each is one action; a     *)
(* transaction that EXEC lets through holds nothing while it runs and is   *)
(* one action per queued command.  No client is blocked on the keys here:  *)
(* BlockingLists models those.                                             *)
(***************************************************************************)
EXTENDS Integers, Sequences, Functions, FiniteSets

CONSTANTS
    Clients,
    Keys,
    Ops,         \* the commands of the store that clients use
    QueueOps,    \* bound: those of them they queue in a transaction
    MaxChanges,  \* bound: how far the counter of changes goes
    MaxQueue,    \* bound: the most commands a transaction queues
    MaxLen,      \* bound: the longest a list grows
    NoQueue      \* what a client has queued outside of any transaction

ASSUME BoundsAssumption == {MaxChanges, MaxQueue, MaxLen} \subseteq Nat \ {0}

ASSUME OpsAssumption ==
    /\ Ops \subseteq {"SET", "SET PX", "SET text", "INCR", "RPUSH", "LPOP", "LPOP 0",
                   "ZADD", "ZREM", "ZREM none", "XADD"}
    /\ QueueOps \subseteq Ops

Commands == (QueueOps \X Keys) \cup {<<"UNWATCH">>}

ASSUME NoQueueAssumption == NoQueue \notin Seq(Commands)

VARIABLES
    entry,    \* per key: what it holds and the version it holds
    changes,  \* the number last handed out as a version
    queued,   \* per client: the commands queued since MULTI, or NoQueue
    watched,  \* per client: the keys it watches, with the version each held
    running,  \* per client: what is left of the transaction being executed
    dirty     \* history: per client, the watched keys changed since it watched

vars == <<entry, changes, queued, watched, running, dirty>>

\* Versions start at one, so that zero can stand for there being no entry.
Missing == [kind |-> "none", size |-> 0, expiry |-> "never", version |-> 0]

Entries == [kind : {"none", "number", "text", "list", "zset", "stream"}, size : Nat,
            expiry : {"never", "pending", "passed"}, version : Nat]

\* The type invariant of the store and of the connections' transactions.
TypeOK ==
    /\ entry \in [Keys -> Entries]
    /\ changes \in Nat
    /\ queued \in [Clients -> Seq(Commands) \cup {NoQueue}]
    /\ \A c \in Clients : /\ DOMAIN watched[c] \subseteq Keys
                          /\ \A k \in DOMAIN watched[c] : watched[c][k] \in Nat
    /\ running \in [Clients -> Seq(Commands)]
    /\ dirty \in [Clients -> SUBSET Keys]

Unwatched == [k \in {} |-> 0]

Init ==
    /\ entry = [k \in Keys |-> Missing]
    /\ changes = 0
    /\ queued = [c \in Clients |-> NoQueue]
    /\ watched = [c \in Clients |-> Unwatched]
    /\ running = [c \in Clients |-> << >>]
    /\ dirty = [c \in Clients |-> {}]

-----------------------------------------------------------------------------
(* The store.                                                              *)

\* What is found at a key, having first dropped it if it has expired.
Found(k) == IF entry[k].expiry = "passed" THEN Missing ELSE entry[k]

\* Whether the operation goes through and changes an entry like this one.
Writes(op, e) ==
    CASE op \in {"SET", "SET PX", "SET text"} -> TRUE
      [] op = "INCR" -> e.kind \in {"none", "number"}
      [] op = "RPUSH" -> e.kind \in {"none", "list"}
      [] op = "LPOP" -> e.kind = "list"
      [] op = "ZADD" -> e.kind \in {"none", "zset"}
      [] op = "ZREM" -> e.kind = "zset"
      [] op = "XADD" -> e.kind \in {"none", "stream"}
      [] op \in {"LPOP 0", "ZREM none"} -> FALSE

\* The entry it leaves, stamped with version v.  INCR keeps the expiry, nothing
\* but a string ever has one, and a list or a sorted set emptied is removed.
Written(op, e, v) ==
    CASE op = "SET" -> [kind |-> "number", size |-> 0, expiry |-> "never", version |-> v]
      [] op = "SET PX" -> [kind |-> "number", size |-> 0, expiry |-> "pending", version |-> v]
      [] op = "SET text" -> [kind |-> "text", size |-> 0, expiry |-> "never", version |-> v]
      [] op = "INCR" -> [e EXCEPT !.kind = "number", !.version = v]
      [] op = "RPUSH" -> [e EXCEPT !.kind = "list", !.size = @ + 1, !.version = v]
      [] op = "ZADD" -> [e EXCEPT !.kind = "zset", !.size = @ + 1, !.version = v]
      [] op = "XADD" -> [e EXCEPT !.kind = "stream", !.size = @ + 1, !.version = v]
      [] op \in {"LPOP", "ZREM"} /\ e.size = 1 -> Missing
      [] OTHER -> [e EXCEPT !.size = @ - 1, !.version = v]

\* History: key k has changed, by a command or by running out of time.
Changed(k) ==
    dirty' = [c \in Clients |-> dirty[c] \cup ({k} \cap DOMAIN watched[c])]

\* Mutant: each entry counts its own changes.
ApplyCountingPerEntry(op, k) ==
    /\ changes < MaxChanges
    /\ changes' = changes + 1
    /\ Writes(op, Found(k))
    /\ entry' = [entry EXCEPT ![k] = Written(op, Found(k), Found(k).version + 1)]
    /\ entry'[k].size <= MaxLen
    /\ Changed(k)

\* Mutant: a command that fails stamps the entry all the same.
ApplyStampingFailures(op, k) ==
    /\ changes < MaxChanges
    /\ changes' = changes + 1
    /\ IF Writes(op, Found(k))
       THEN /\ entry' = [entry EXCEPT ![k] = Written(op, Found(k), changes + 1)]
            /\ entry'[k].size <= MaxLen
            /\ Changed(k)
       ELSE /\ Found(k) # Missing
            /\ entry' = [entry EXCEPT ![k].version = changes + 1]
            /\ UNCHANGED dirty

\* A command of the store, under one hold of the mutex.  The counter moves on
\* whether or not the command goes through.
Apply(op, k) ==
    /\ changes < MaxChanges
    /\ changes' = changes + 1
    /\ IF Writes(op, Found(k))
       THEN /\ entry' = [entry EXCEPT ![k] = Written(op, Found(k), changes + 1)]
            /\ entry'[k].size <= MaxLen
            /\ Changed(k)
       ELSE /\ entry' = [entry EXCEPT ![k] = Found(k)]
            /\ UNCHANGED dirty

DeadlinePasses(k) ==
    /\ entry[k].expiry = "pending"
    /\ entry' = [entry EXCEPT ![k].expiry = "passed"]
    /\ Changed(k)
    /\ UNCHANGED <<changes, queued, watched, running>>

\* GET and the other lookups.
Look(k) ==
    /\ entry' = [entry EXCEPT ![k] = Found(k)]
    /\ UNCHANGED <<changes, queued, watched, running, dirty>>

\* Some keys are dropped as expired on the way past, and that is all: by KEYS,
\* every one that has.
Visit(ks) == entry' = [k \in Keys |-> IF k \in ks THEN Found(k) ELSE entry[k]]

ListKeys == Visit(Keys) /\ UNCHANGED <<changes, queued, watched, running, dirty>>

-----------------------------------------------------------------------------
(* One connection.                                                         *)

\* A connection reads its next command once it has answered the one before.
Ready(c) == running[c] = << >>

\* A command outside of any transaction is run at once.
Run(c, op, k) ==
    /\ Ready(c) /\ queued[c] = NoQueue
    /\ Apply(op, k)
    /\ UNCHANGED <<queued, watched, running>>

\* Inside one it is only written down.
Enqueue(c, command) ==
    /\ Ready(c) /\ queued[c] # NoQueue
    /\ Len(queued[c]) < MaxQueue
    /\ queued' = [queued EXCEPT ![c] = Append(@, command)]
    /\ UNCHANGED <<entry, changes, watched, running, dirty>>

Multi(c) ==
    /\ Ready(c) /\ queued[c] = NoQueue
    /\ queued' = [queued EXCEPT ![c] = << >>]
    /\ UNCHANGED <<entry, changes, watched, running, dirty>>

\* Every watch ends.
Forget(c) ==
    /\ watched' = [watched EXCEPT ![c] = Unwatched]
    /\ dirty' = [dirty EXCEPT ![c] = {}]

Discard(c) ==
    /\ Ready(c) /\ queued[c] # NoQueue
    /\ queued' = [queued EXCEPT ![c] = NoQueue]
    /\ Forget(c)
    /\ UNCHANGED <<entry, changes, running>>

Unwatch(c) ==
    /\ Ready(c) /\ queued[c] = NoQueue
    /\ Forget(c)
    /\ UNCHANGED <<entry, changes, queued, running>>

\* The versions of the keys as they are now, those already watched excepted:
\* they keep the first reading.
Watch(c, ks) ==
    /\ Ready(c) /\ queued[c] = NoQueue
    /\ Visit(ks)
    /\ watched' = [watched EXCEPT ![c] =
                      [k \in DOMAIN @ \cup ks |->
                          IF k \in DOMAIN @ THEN @[k] ELSE Found(k).version]]
    /\ UNCHANGED <<changes, queued, running, dirty>>

\* EXEC ends the transaction and the watches, and then either has it run or
\* drops it.  The check stops at the first key found to have changed.
Unchanged(c) == \A k \in DOMAIN watched[c] : Found(k).version = watched[c][k]

\* Mutant: EXEC does not ask for a MULTI.
ExecWithoutMulti(c) ==
    /\ Ready(c)
    /\ queued' = [queued EXCEPT ![c] = NoQueue]
    /\ Forget(c)
    /\ running' = [running EXCEPT ![c] = queued[c]]
    /\ UNCHANGED <<entry, changes>>

Exec(c) ==
    /\ Ready(c) /\ queued[c] # NoQueue
    /\ queued' = [queued EXCEPT ![c] = NoQueue]
    /\ Forget(c)
    /\ IF Unchanged(c)
       THEN /\ Visit(DOMAIN watched[c])
            /\ running' = [running EXCEPT ![c] = queued[c]]
       ELSE /\ \E ks \in SUBSET DOMAIN watched[c] : Visit(ks)
            /\ UNCHANGED running
    /\ UNCHANGED changes

\* The next command of a transaction that EXEC let through.
RunNext(c) ==
    /\ running[c] # << >>
    /\ running' = [running EXCEPT ![c] = Tail(@)]
    /\ IF Head(running[c]) = <<"UNWATCH">>
       THEN Forget(c) /\ UNCHANGED <<entry, changes>>
       ELSE Apply(Head(running[c])[1], Head(running[c])[2]) /\ UNCHANGED watched
    /\ UNCHANGED queued

\* The client goes away between commands, and another takes its place.
Reconnect(c) ==
    /\ Ready(c)
    /\ queued' = [queued EXCEPT ![c] = NoQueue]
    /\ Forget(c)
    /\ UNCHANGED <<entry, changes, running>>

-----------------------------------------------------------------------------
Next ==
    \/ \E k \in Keys : DeadlinePasses(k) \/ Look(k)
    \/ ListKeys
    \/ \E c \in Clients :
          \/ Multi(c) \/ Exec(c) \/ Discard(c) \/ Unwatch(c) \/ RunNext(c) \/ Reconnect(c)
          \/ \E op \in Ops, k \in Keys : Run(c, op, k)
          \/ \E command \in Commands : Enqueue(c, command)
          \/ \E ks \in SUBSET Keys \ {{}} : Watch(c, ks)

Spec == Init /\ [][Next]_vars

-----------------------------------------------------------------------------
(* Properties.                                                             *)

\* A watched key that reads as unchanged has not been changed, by anyone or by
\* running out of time, since the client first watched it.  The exception is
\* the one Store::unchanged owns up to: a key that was missing and is again.
\* And one that reads as changed really was: nothing but a change makes EXEC
\* give up, neither a command that failed nor a change to another key.
WatchIsExact ==
    \A c \in Clients : \A k \in DOMAIN watched[c] :
        IF Found(k).version = watched[c][k]
        THEN watched[c][k] # 0 => k \notin dirty[c]
        ELSE k \in dirty[c]
=============================================================================
