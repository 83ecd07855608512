# A verification of the server in TLA+

The repository is a Redis server written in Rust on Tokio: a store behind one
mutex, one task per connection, blocking commands, transactions, replication, an
append-only file and a saved dataset.  This directory models the parts of it where
tasks meet and the algorithms that are easy to get wrong at an edge, checks the
models with TLC on small instances, and proves what matters most about blocked
clients, streams, sorted sets, watched keys, replicas, sessions and the record of
writes with TLAPS, for instances of any size.

Everything here is translated from `src/src/*.rs`.  `PROJECT.json` names, for
every definition, the lines it stands for.

## The system and its parts

| Part | Source | State | Operations |
|---|---|---|---|
| Entry table, expiry, versions | `store/mod.rs` | entries with data, deadline and version; counter of changes | lookups that drop what has expired, `versions`, `unchanged` |
| Strings | `store/strings.rs` | entries | SET, GET, INCR |
| Lists and blocked clients | `store/lists.rs`, `commands/lists.rs` | lists; per key a queue of `oneshot` senders | RPUSH, LPUSH, LPOP, BLPOP, LLEN, LRANGE |
| Streams and their readers | `store/streams.rs`, `commands/streams.rs` | streams; per key a list of `Notify` wakers | XADD, XRANGE, XREAD |
| Sorted sets | `store/sorted_sets.rs`, `commands/sorted_sets.rs` | members in order of score | ZADD, ZRANK, ZRANGE, ZCARD, ZSCORE, ZREM |
| Geo | `commands/geo.rs` | none of its own: places are scores of a sorted set | GEOADD, GEOPOS, GEODIST, GEOSEARCH |
| Keys and patterns | `commands/keys.rs`, `glob.rs` | none of its own | KEYS, TYPE, matching |
| Transactions | `commands/transactions.rs`, `commands/mod.rs` | per connection: queued commands, watched versions | MULTI, EXEC, DISCARD, WATCH, UNWATCH |
| Dispatch | `commands/mod.rs` | none of its own | run, record, pass on, answer |
| Append-only file | `aof.rs`, `main.rs` | the manifest; the file, behind an async lock | prepare, record, replay |
| Saved dataset | `rdb.rs` | none of its own | reading, loading |
| Settings | `config.rs`, `commands/settings.rs` | what the server was started with | the command line, CONFIG GET |
| Master side of replication | `replicas.rs`, `server.rs`, `commands/replication.rs` | list of replicas, what each reported, offset | PSYNC, WAIT, sending, REPLCONF ACK |
| Replica side | `replica.rs` | its own offset | handshake, carrying out, answering GETACK |
| Publish and subscribe | `channels.rs`, `commands/pubsub.rs` | per channel its subscribers | SUBSCRIBE, UNSUBSCRIBE, PUBLISH |
| Users | `users.rs`, `commands/acl.rs` | passwords; who a connection is | AUTH, ACL |
| Connection loop, RESP | `connection.rs`, `resp.rs` | buffers | framing, parsing, writing |

How they interact, and where it is hard:

* Everything in the store happens under one mutex, but a client that gives up a
  BLPOP does not take it: its timer fires, and its receiver is dropped, at any
  moment, also between two turns of a loop that another thread runs under the
  mutex.
* A blocking XREAD resolves `$`, reads, registers and waits in separate steps.
* EXEC checks the watched keys in one hold of the mutex and runs its commands in
  others.
* A write changes the store, is recorded, is sent to the replicas and is added to
  the offset in four steps, each under a lock of its own or none.
* PSYNC reads the offset, writes out the dataset and puts the replica on the list
  in three steps.
* The server can stop between any two of these, also in the middle of writing a
  record, or of the manifest that names the file of records; and so can the
  machine, which takes whatever was not pushed through to the disk with it.
* What comes over a socket is cut anywhere: a value of the protocol, the header of
  the dataset and the dataset itself arrive in pieces, and several at once.
* GEOPOS and GEODIST take the mutex once for each place they are asked after.

## Modules

| Module | What it is |
|---|---|
| `BlockingLists` | lists, blocked clients, timeouts: the core |
| `HandOff` | what a list with a line of waiting clients promises, without mutex, channels or loops |
| `BlockingListsPromise` | the refinement mapping from the one to the other |
| `BlockingListsProofs` | the invariants of `BlockingLists`, proved |
| `BlockingListsHandOff` | that every step of `BlockingLists` is one of `HandOff`, or none, proved |
| `CountingProofs` | what the proofs need of induction, sums and sequences |
| `Streams` | streams, XADD, XRANGE, blocking XREAD |
| `Transactions` | versions, WATCH, MULTI, EXEC |
| `SortedSets`, `Geo` | the vector of a sorted set, and the score of a place, as operators |
| `Places` | one sorted set and its commands, of scores and of places |
| `ValuesProofs` | the invariants of `Streams`, and that of the vector in `Places`, proved |
| `Glob` | the patterns of KEYS, read and matched turn by turn |
| `Replication` | the stream of changes, its counts, PSYNC, WAIT |
| `ReplicationProofs` | the counts of `Replication`, proved |
| `Resp`, `Decimal` | the protocol, over bytes, and the numbers spelled out in it |
| `Conversation` | one replica and its master, byte by byte |
| `AppendOnly` | recording, stopping, replaying |
| `AppendOnlyProofs` | the theorems about `AppendOnly` |
| `Startup` | settings, manifest, replay, stops of the process and of the machine |
| `AssuranceProofs` | what `Transactions`, `Startup` and the replies of `Places` assure a client of, proved |
| `Dataset` | the reader of saved datasets |
| `Sessions` | the gates of a connection, users, publish and subscribe |
| `SessionsProofs` | the invariants of `Sessions`, proved |
| `MC*` | the instances that TLC checks |

Each module models one meeting point with the data it needs and leaves the rest
abstract: an element is one of a few values, a change to be passed on is a number
of bytes, a record is whole or cut short.

**BlockingLists.**  `kind`, `items` and `expiry` are the entry table restricted to
strings and lists; `waiters` is `State::waiters` with each sender named after its
client, or `Gone` once its receiver is dropped; `slot` is the inside of the
`oneshot` channels; `pc` says where `wait_for_element` is.  Operations are one
action each, except the two loops over the queue, `wake_waiters` and the `retain`
in `blpop`: those take one action per turn, and `lock` says which one holds the
mutex.  `TimerFires` and `GiveUp` need no mutex and are two steps, because
`tokio::time::timeout` polls the receiver, then the timer, and drops the receiver
later.  `owed` and `before` are history: the elements somebody still has coming,
and who was in line before whom.

**HandOff** has lists, a line and hands.  An element goes from a list to the first
in line as soon as there are both.  `BlockingListsPromise` shows that the queue
and the loops come to this, with the fairness it asks for: whenever nobody holds
the mutex, nobody is left in line at a list that has elements.  `Open` is the line of
`HandOff`: the queue without the senders whose receivers were dropped.

**Streams.**  Ids are pairs; the largest millisecond and sequence number are
constants, so that the overflow of `checked_add` is reached.  The clock of an XADD
with `*` is any millisecond at all, since system clocks jump.  `watchers` are
wakers still held by a client, `stale` counts those left behind; `woken` is the
permit that `notify_one` leaves.

**Transactions.**  An entry is its kind, its size, its expiry and its version.
The commands are SET with and without an expiry, INCR, RPUSH, LPOP, ZADD, ZREM,
XADD, KEYS and TYPE, each with the ways it may be refused or change nothing, since
those must not stamp the key.  `watched` is the map of a connection; EXEC compares,
ends the watches, and then runs the queued commands one action at a time.  `dirty`
is history: which watched keys really changed.

**SortedSets, Geo and Places.**  `SortedSets` is the vector with its `partition_point`.
`Geo` weaves the two numbers of a square into a score, one doubling mask at a time
as `spread` does, rounds it as a double of few enough bits does, and takes it apart
again.  `Places` is one key: `kind` says what the entry holds, `set` is the vector,
and `reader` is a client in the middle of GEOPOS or GEODIST, whose lookups are
actions of their own.  `meant` and `since` are history: what each member was last
given, and what there was to be read of it since the reader began.

**Glob.**  A client writes a pattern piece by piece, in one of the ways a piece may be
spelt; `Parse` is the code's; every turn of the loop in `matches` is an action.
`means` is what the pieces stand for, from which `Accepts`, the definition the
matcher is checked against, is told without any parsing.

**Replication.**  `pipe` is the queue of a replica and its socket.  `passed` is what
a task has sent and not yet added to `offset`.  `pc` follows `wait` through
settling the target, asking, making the `Notified` future, counting and parking.
`missed` is history: the bytes the master counted after PSYNC and never sent to the
replica; `slipped` says that one of them was a change.

**Resp and Conversation.**  `Resp` writes and parses values over bytes, with the three
outcomes the code has: a value and where it ended, not all of it there yet, or
nonsense.  `Conversation` has the handshake, the file and the stream at the replica's
end (`stage`, `heard`, `offset`), what is under way between the two (`said`, `wire`),
and the master as far as it answers.  `Fill` brings in any number of the bytes
that were sent, so that reads cut the stream everywhere.

**AppendOnly.**  One list is the store, since pushes and pops tell in which order
they were done.  Writes are numbered in the order the store made them.  A record
being written is in the file with `whole` false, and stays so if the server stops.
`Recorded` gives what reading the file may come to: a cut record at the end is
dropped, one with others behind it reads on into them.

**Startup.**  `stage` follows `main` and then the one client's write.  `Parse` reads the
command line; words are sequences of pieces, so that names with spaces in them and
words put together from a setting can be told apart.  `manifests` and `files` are
what is on the disk, with how much of it is there for good: `Stop` leaves everything,
`PowerLoss` any part of what was not pushed through.  That the directory itself, and
the files in it, are there after `PowerLoss` is taken for granted.  `kept` is history:
the writes that were answered, where, and whether CONFIG GET called them durable.

**Dataset.**  The reader is the code's, over bytes, the unsqueezing of LZF included.
What it reads is written by a server modelled from what the reader expects: facts,
databases, sizes, deadlines in seconds and milliseconds, keys of a kind this server
reads or does not, strings stored in all the ways there are.

**Sessions.**  `link`, `on`, `queued`, `inside` are what `serve` holds for its client;
`todo` is what is left of the command it runs, one step for each hold of the mutex
over the channels; `inbox` is the queue behind its `Listener`; `listeners` is the map
of `Channels`, with a channel nobody is on absent.  A connection that ends closes
its queue first (`messages` is dropped before `subscriptions`) and then leaves its
channels one by one, so that a message may be published in between.  `unheard` and
`answer` are history: the channels joined whose confirmation is not written yet,
and what PUBLISH is about to answer.

## What TLC checks

| Run | Instance | Shows |
|---|---|---|
| `blocking_lists` | 2 clients, one with a timeout; 2 keys, 2 elements, batches of 2; fair | elements are never in two places and are lost only by clients already timed out; clients are in line once, served in order, answered; queues are bounded; `HandOff` is implemented |
| `streams` | 2 clients, 2 keys, ids up to 1-1; fair | streams are logs; XRANGE is exact; no entry slips past a reader; wakers are bounded; readers are answered |
| `store` | three parts: 2 clients, 2 keys, 11 commands, 3 changes; 2 members, 4 points, 3 scores, batches of 2; patterns of up to 4 pieces from 8, with 2 endings, tried on 14 keys | a watched key reads as unchanged just if it is; a sorted set is its map in order; places come back from their scores; GEOPOS and GEODIST answer what was there; patterns match just what they say |
| `following` | two parts: 2 clients, 2 replicas, 2 bytes; 1 replica, 3 messages from 2 changes and a question, 3 refusals, counts from 0 or 12 | the counts of both ends agree; WAIT counts what it may; the stream is carried out and counted wherever reads cut it; nothing is left lying |
| `replication_live` | 2 clients, 1 replica, 3 bytes; fair | reports are true; WAIT is answered |
| `keeping` | three parts: 2 clients, 4 writes, 2 stops, 1 failure; datasets of 3 sections, or a squeezed string of 2 instructions; 10 command lines, 2 writes, 2 stops, 2 manifests | what is answered is recorded, once; an ordered record replays to the store; a saved dataset is loaded whole or refused; what was answered while a record was kept is read back |
| `sessions` | 2 connections, 2 channels, 1 password, 1 queued command, 1 message; fair | the tally of listeners is true; messages reach just who listens, after the confirmation, and are written out; the gates leave nobody listening inside a transaction, and nothing to who was not let in |

Three of the runs have parts that share no state: `part` is chosen at the start, the
variables of the other parts stay as they begin, and each property is about its
own part.  They stand together because each asks one question of one side of the
server: what the store holds, what a replica has, what is kept between two runs.

Bounds.  Two clients are enough for every race here to have two sides, and for a
line to have an order.  Two keys are there to keep apart what belongs to which.
Two elements let a list outlive a handover.  Three changes let a key be made,
removed and made again.  Three bytes are a change and two questions.  A grid of
four squares to a side stands for one of 2^26; points are given in quarters of a
square, and the eastern edge of the earth falls in a square past the last, whose
score outgrows its double as it does in the code.  Four pieces let a run be met, fallen back on, and
met again.  A squeezed string may begin with 261 bytes, so that distances of more
than a byte occur.  Two stops let what a first stop left be stopped over again.
Where a
bound cuts behaviour off it is a guard on the operation that counts: `MaxChanges`,
`MaxQueue`, `MaxLen`, `MaxStream`, `MaxWrites`, `MaxStops`, `MaxFailures`,
`MaxBatch`, `MaxArgs`, `MaxMessages`, `MaxMeanwhile`, `MaxPieces`, `MaxPassedOn`,
`MaxSections`, `MaxInstructions`; `Huge` is where the numbers of a dataset stop; `Calls`, `QueueOps` and `QueueNames` name the calls
that are tried.  `keeping` is checked without deadlock because its writes and stops
run out and because a server that refuses its record really stops.

Fairness.  Weak fairness for the steps a task takes by itself: Tokio polls every
task that is woken, the holder of a `std` mutex does not wait for anything, and
timers go off.  Strong fairness for a connection writing out a message, since
`tokio::select!` takes up what is ready at random.  No fairness for calls, pushes, replicas joining or leaving, or
stops.

### Where the code and its comments disagree

| Run | Comment | What happens |
|---|---|---|
| `element_lost_to_a_late_client` | `commands/lists.rs:123`: dropping the receiver hands the element "to the next client instead of losing it" | an element sent after the timer fired and before the receiver is dropped is lost |
| `xrange_bounds_swapped` | `store/streams.rs:146`: "the entries [...] whose ids fall between" | a start past the end makes an inverted slice, and the task panics |
| `change_slips_past_psync` | `connection.rs:81`: "no change can slip through" | a change made while the dataset is written out reaches nobody |
| `record_out_of_order` | `main.rs:80`: the replay goes "in the order it was done in" | two writes are recorded in the other order than they were made |
| `torn_record_read_into` | `aof.rs:56`: "a command half written was a command never answered" | after a restart the next record is appended behind the torn one and read as part of it |

## What is proved

The theorems hold for every value of the constants that the named assumption of
the module allows: any sets of clients, keys, elements, channels, replicas and so
on, and any bounds.  Clients are finite in number wherever something is counted.
`SetIsItsMap`, `RepliesWereTrue` and `KeptIsReadBack` are proved of `Places` and `Startup`
themselves; the runs `store` and `keeping` check them, under the same names, of the part
of the run that is about those modules.

| Module | Theorem | Of the property |
|---|---|---|
| `BlockingListsProofs` | `ShapeInvariant`, `TypeInvariant` | `ListsInShape`, `TypeOK` |
| | `WaitersInvariant` | `EachWaiterInLineOnce` |
| | `OrderInvariant` | `ServedInOrder` |
| | `ElementsInvariant` | `NoElementTwice` |
| | `OnlyLateLose` | `LostOnlyToLate` |
| | `NothingLost` | if no client gives a timeout, no element is ever lost |
| | `PileInvariant` | `NoPileUp` |
| `BlockingListsHandOff` | `HandsOver` | the safety part of `KeepsPromise` |
| `ValuesProofs` | `TypeAlways`, `StreamsAreLogsAlways`, `RangeIsExactAlways`, `NothingSlipsPastAlways`, `DollarSeesAllAlways`, `WakersBoundedAlways` | the property in the name, of `Streams` |
| | `SetIsItsMapAlways` | `SetIsItsMap`, of `Places` |
| `AssuranceProofs` | `WatchIsExactAlways`, `KeptIsReadBackAlways`, `RepliesWereTrueAlways` | `WatchIsExact` of `Transactions`, `KeptIsReadBack` of `Startup`, `RepliesWereTrue` of `Places` |
| `ReplicationProofs` | `CountsAgreeAlways`, `ReportsAreTrueAlways`, `WaitCountsTrueAlways` | the property in the name |
| `AppendOnlyProofs` | `AckedIsRecordedOnceAlways`, `OrderedWordsReplayAlways` | the property in the name |
| `SessionsProofs` | `TallyIsTrueAlways`, `GatesHoldAlways`, `ReachesWhoListensAlways`, `ConfirmedBeforeHeardAlways` | the property in the name |
| | `EmptyIsForgottenAlways` | a channel nobody is on is not in the tally |

**Blocked clients** (`BlockingListsProofs`).  The argument goes in layers, each an
inductive invariant on top of the one before.  `Shape` adds to the first theorem
that the loop of `retain` works for a client that is idle, at a key with nothing in
it: without that, `Join` could queue a client behind a list.  `LineInv` adds that
the pairs in `before` are pairs in the queue in that order: being served in order is
about the past, the queue is what there is now.  `ElementInv` adds that no list holds
an element twice and that whatever is held is owed, so that a push, which takes
elements nobody owes, cannot bring one in again.  Lemmas say what each operation does
to the lists (`SetFacts`, `LpopFacts`, `PushFacts`, `HandOverFacts`, `BlpopFacts`) so
that the invariants need not look inside.

`NoPileUp` bounds a queue by the number of clients, although the senders of clients
that timed out stay in it.  Once `retain` has cleared the queue it holds only open
senders, but clients may give up behind its back while it goes on, and come back
only when the mutex is free.  `EachHasItsOwner` says what holds during the loop: each sender
it has been past can be given a client of its own, other than the one about to join,
which is the client named in it or, if it was abandoned since, one that is idle.  An
injection into the clients without the joining one leaves room for one more.

**The refinement** (`BlockingListsHandOff`).  `Open` drops the abandoned senders from
a queue.  `HandsOver` shows the initial states to be initial states of `HandOff`, and
every step to be one of its steps or none: SET, expiry and LPOP take from the
front (`DrainIsTake`), a push offers (`PushIsOffer`), a turn of `wake_waiters` serves
the first open sender or skips an abandoned one (`HandOverIsServe`), `retain` changes
nothing (`RetainIsNothing`), `Join` joins the line, and a client that is answered or
gives up finishes or leaves.  It rests on the invariants above: that nobody is queued
where there is a list, and that a client stands in line once, so that dropping its
receiver takes one place out of the line.  What `Open` makes of a queue put together
or cut apart is proved by induction over its length.  The fairness of `HandOff` is
left to TLC, in `KeepsPromise`.

**Streams** (`ValuesProofs`).  `IInv` is the conjunction of the types, the properties
themselves, and `Dollars`: what `$` became is not past the end of the stream.
`NothingSlipsPast` needs `StreamsAreLogs`, since only what is added at the end can
be seen to be past what was read.  `RangeIsExact` follows from the order of the ids:
the two counts that stand for the binary searches cut a sorted sequence just
at its bounds.

**Sorted sets** (`ValuesProofs`).  `IsMap(s, f)` says that the vector `s` has just the
members of the map `f`, each once, in the order of `Precedes`.  `TakeIs` and `AddIs` show
that taking a member out and putting one in at its `partition_point` turn the vector
of one map into that of the next, `TakeAllIs` and `AddAllIs` the same of ZREM and ZADD,
where the last of several scores for a name stands (`LatestIs`).  `RankIs` and `WindowIs`
read ranks and the window of ZRANGE off such a vector.  `KeptInOrder`, the inductive
invariant, says that `set` is the vector of the scores that `meant` comes to, whatever
kinds the key goes through.  Two hypotheses come with the theorem.  `ConstantsFit`
says what the constants are.  `WeavingIsExact` says that the shifts and masks of
`interleave` weave two numbers as the arithmetic in `Woven` does, which the prover, to which
a power is an unknown function, cannot work out; TLC evaluates it, as `PlacesAssumption` of
`MCStore`, for the points of the instance and for every place of a grid of 8 by 8
squares.

**What GEOPOS and GEODIST answer** (`AssuranceProofs`).  `ToldTrue` is the inductive
invariant: what a command was told so far are readings of a prefix of what it asked
after (`IsTold`), at moments in order, and the present is the last moment of the
history (`IsHistory`).  `GoesOn` adds a moment, `LooksUp` a reading made now, and
`AllTold` turns a prefix into an answer; a command that gave up at a key of the wrong
kind answers an error, as does one that had read on.  `ConstantsFit` is its
one hypothesis.

**Transactions** (`AssuranceProofs`).  What EXEC finds of a watched key tells exactly
whether it changed.  By itself this is not inductive, since a changed key
could be given back the version it was read with.  `IInv` adds that no version is
ahead of the one counter of changes (`Stamped`), that every version read by WATCH
is one already given out (`Readings`), and that a changed key holds no version or a
later one than was read (`AllTell`).  The lemmas go along the code: what
`drop_if_expired` finds, what a write leaves, what visiting a key, applying a
command, watching and forgetting keep.

**Replication** (`ReplicationProofs`).  `CountsAgree` is about the replicas on the
list, but is settled before they are on it: `Agree` says the same from the moment
PSYNC reads the offset, and `Apart` that nothing is on its way to a replica not yet on the list.
`NothingOwed` says that bytes are sent and not counted only between the two steps of
a send, which makes the sum over all tasks in `Pending` change by what one task does.
`InOrder` is `ReportsAreTrue` for every replica, and `DueIsTold` ties what a
WAIT is due to the offset it read.

**The append-only file** (`AppendOnlyProofs`).  No write is answered before it is whole in the
file, none answered is taken out, none is recorded twice.  `IInv` follows a write
through its task: its number is no other task's and not in the file until the lock
is taken (`Numbered`, `Filed`), then it is the last record and not whole, so that a
failure that takes it out takes nothing else, then whole for good, and only then
answered (`Answered`).  That the clients in line are blocked, each once (`InLine`),
is needed because RPUSH hands the first of them a write of its own.

That an ordered record replays to the store rests on `Accounts`: the commands told of
and those still in the hands of tasks, put in the order they were made in, replay to
what the store holds.  A write made now comes last in that order and is done last
(`AccountsNext`), and recording a command or passing it on only moves it from a
hand to what is told.  With nothing in hand and the words in order, the two sequences have
the same commands in the same order, and are the same (`OrderedSame`).  `FileAccounted`
is this for the file, over restarts, and `StreamAccounted` for what the replicas were
told since the first start.

**Starting over a record** (`AssuranceProofs`).  `SInv` ties three things: the file a
place would be started over (`FileAt`) is the one the running server writes to, the
store of a server that records is what that file holds but for the write under way,
and every write that was answered is in the file of its place, in the part that a loss
of power leaves if it was called durable (`Holds`).  The first step of the proof that
did not go through was a stop of the machine while the manifest is written: a name may
be such that the whole listing is read back and a part of it names another file.
`ListsItself`, under which `KeptIsReadBack` is stated, now asks of what may be left of a
listing what it asked of the whole.

**Sessions** (`SessionsProofs`).  `IInv` has one part for the tally (`TallyIsTrue`,
`EmptyIsForgotten`) and one for each connection alone (`Own`).  The tally is right
only because a connection's own list names no channel twice.  The gates hold only
because a command under way runs outside of any transaction: SUBSCRIBE, run by EXEC
below the gates, finds the transaction already over.  And a channel is confirmed
before it is heard because messages are written only between commands, and between
commands nothing is unconfirmed, since every command under way ends in its reply.

**How sums and sequences are reasoned about** (`CountingProofs`).  The induction
theorems of the library take an operator and cannot be used; `Least`, that a set of
naturals that is not empty has a least element, takes a set and can.  From it come
`AllNaturals`, that recursive functions such as the one in `Open` are what they say,
and what `SumFunction` makes of a function changed at one place or a sequence longer
or shorter by one.

**Only model-checked.**  Liveness, and with it the fairness of `HandOff`: liveness
and `ENABLED` are beyond the prover.  The bounds in the `TypeOK` of `Replication` and
`Sessions` (`offset` up to `MaxStream`, `published` up to `MaxMessages`), which say of
the instance how far its guards let it go; the proofs do without them, and so do
the types of the modules in `store`, `following` and `keeping`, which have no theorem of their
own.  `Glob`, `Dataset` and `Conversation`, whose parsers, matchers and readers are recursive
operators, which the prover cannot take in: `MatchIsExact`, `LoadsAllOrNothing`,
`StreamIsCarriedOut` and `NothingLeftLying`.  In `Places`, that places come back from
their scores (`PlacesComeBack`), which needs powers of two.

## What is not modelled

* What commands answer in words, logging, and INFO, which formats an answer from
  state that does not change.
* The parsing of command names and arguments, and clients whose input is malformed.
  That bytes are text where they have to be is taken for granted.
* The text of values: INCR goes through or is refused, for overflow among others.
* In geo, the floating-point way from degrees to squares and the distance on the
  sphere.  The squares are exact and the distance is one on the grid, so that
  `PlacesComeBack` is about weaving, rounding and searching.  The scores are of the
  size places have: for one far larger, the square past the last in `geo.rs:252` is
  more than 32 bits hold, and the width of that number is not modelled.
* What ACL GETUSER answers, which reads the flag and the passwords under two holds
  of the lock, so that a password set in between is listed beside `nopass`.
* The earlier files of a manifest that a fuller Redis left: only the last is
  replayed, and what the others hold was not written by this server.
* A client that hangs up while blocked in BLPOP is not noticed by the server, whose
  task waits on the channel: it keeps its place, and the element it is sent counts
  here as answered.
* EXEC holds nothing while it runs its commands, as the repository's README says, so
  that other clients run in between; WATCH is checked for what it promises at the
  moment EXEC looks.
* The clock between two runs of the server: commands with a relative expiry, and
  XADD with `*`, are recorded as sent.
* A dataset and a record at once.  The server never writes a dataset, so that the
  replay goes over one that something else put there.
* Names of the file of records with two spaces in them.  `Listing` separates its
  fields by spaces, so that such a name pairs off in another way and the next start
  takes up a file of another name; `KeptIsReadBack` is stated for the names whose
  listing reads back (`ListsItself`), and the instance has one that does not.

## Plan

Next would be the weaving of `Geo`, on words as sets of positions, where no powers are
needed, and the matcher of `Glob` with its recursion written as functions.
