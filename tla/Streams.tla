------------------------------ MODULE Streams ------------------------------
(***************************************************************************)
(* The streams of the store and the clients that read them: XADD, XRANGE   *)
(* and XREAD, which may block until one of its streams grows               *)
(* (src/store/streams.rs, src/commands/streams.rs).                        *)
(*                                                                         *)
(* Every operation of the store holds its mutex once and is one action.  A *)
(* blocking XREAD is several: it resolves `$', reads, registers a waker    *)
(* under every key if there was nothing, and only then waits; anything may *)
(* happen to the store in between.                                         *)
(*                                                                         *)
(* Streams carry no expiry.  A string that does is taken out here when its *)
(* deadline passes: every operation drops it first, so none can tell.      *)
(***************************************************************************)
EXTENDS Integers, Sequences, FiniteSets

CONSTANTS
    Clients,  \* connections that call XREAD
    Keys,
    MaxMs,    \* the largest millisecond of an id, u64::MAX in the code
    MaxSeq,   \* the largest sequence number of an id, u64::MAX in the code
    Dollar,   \* the `$' of XREAD
    Calls     \* bound: per client, the calls of XREAD it makes

Ids == (0 .. MaxMs) \X (0 .. MaxSeq)
Zero == <<0, 0>>

ASSUME StreamsAssumption ==
    /\ IsFiniteSet(Clients)
    /\ MaxMs \in Nat /\ MaxSeq \in Nat \ {0}
    /\ Dollar \notin Ids
    /\ \A c \in Clients : \A call \in Calls[c] :
          /\ DOMAIN call.reads \subseteq Keys
          /\ \A k \in DOMAIN call.reads : call.reads[k] \in Ids \cup {Dollar}
          /\ call.wait \in {"now", "until", "forever"}

VARIABLES
    kind,      \* what each key holds: "none", "string" or "stream"
    stream,    \* the ids of the entries of the stream at each key
    watchers,  \* per key: the clients whose wakers are registered there
    stale,     \* per key: how many wakers are left there by nobody
    pc,        \* per client: "idle", "reading", "watching" or "parked"
    wait,      \* per client: how long its XREAD waits
    after,     \* per client: the keys it reads, with the id to read after
    late,      \* the clients whose deadline has passed
    woken,     \* the clients whose waker holds a permit
    dollar     \* history: per client, the keys read from `$' and never
               \* overwritten since

store == <<kind, stream>>
registry == <<watchers, stale>>
vars == <<kind, stream, watchers, stale, pc, wait, after, late, woken, dollar>>

\* The order of ids: by millisecond, and by sequence number within one.
Less(a, b) == a[1] < b[1] \/ (a[1] = b[1] /\ a[2] < b[2])

\* The type invariant of the streams, the wakers and the reads under way.
TypeOK ==
    /\ kind \in [Keys -> {"none", "string", "stream"}]
    /\ stream \in [Keys -> Seq(Ids)]
    /\ watchers \in [Keys -> SUBSET Clients]
    /\ stale \in [Keys -> Nat]
    /\ pc \in [Clients -> {"idle", "reading", "watching", "parked"}]
    /\ wait \in [Clients -> {"now", "until", "forever"}]
    /\ \A c \in Clients : /\ DOMAIN after[c] \subseteq Keys
                          /\ \A k \in DOMAIN after[c] : after[c][k] \in Ids
                          /\ dollar[c] \subseteq DOMAIN after[c]
    /\ late \subseteq Clients
    /\ woken \subseteq Clients

NoReads == [k \in {} |-> Zero]

Init ==
    /\ kind = [k \in Keys |-> "none"]
    /\ stream = [k \in Keys |-> << >>]
    /\ watchers = [k \in Keys |-> {}]
    /\ stale = [k \in Keys |-> 0]
    /\ pc = [c \in Clients |-> "idle"]
    /\ wait = [c \in Clients |-> "now"]
    /\ after = [c \in Clients |-> NoReads]
    /\ late = {}
    /\ woken = {}
    /\ dollar = [c \in Clients |-> {}]

-----------------------------------------------------------------------------
(* XADD and what else happens to a key.                                    *)

Top(k) == stream[k][Len(stream[k])]

\* What an XADD asks for: an id, a millisecond, or neither, with what the
\* clock then says, which may be anything.
Requests ==
    [form : {"explicit"}, ms : 0 .. MaxMs, seq : 0 .. MaxSeq]
        \cup [form : {"sequence", "auto"}, ms : 0 .. MaxMs]

\* Mutant: the sequence number is counted up without a check.
ResolveUnchecked(request, k) ==
    IF request.form = "explicit" THEN {<<request.ms, request.seq>>}
    ELSE IF stream[k] # << >> /\ Top(k)[1] >= request.ms THEN {<<Top(k)[1], Top(k)[2] + 1>>}
    ELSE {<<request.ms, IF request.ms = 0 THEN 1 ELSE 0>>}

\* The id a request comes to in this stream: none if the sequence numbers of
\* the millisecond are used up.
Resolve(request, k) ==
    LET empty == stream[k] = << >>
        ms == IF request.form = "auto" /\ ~ empty /\ request.ms < Top(k)[1]
              THEN Top(k)[1] ELSE request.ms
    IN  IF request.form = "explicit" THEN {<<request.ms, request.seq>>}
        ELSE IF ~ empty /\ Top(k)[1] = ms
        THEN {<<ms, seq>> : seq \in {Top(k)[2] + 1} \cap 0 .. MaxSeq}
        ELSE {<<ms, IF ms = 0 THEN 1 ELSE 0>>}

\* Mutant: an id as high as the top will do.
AcceptedAtTop(request, k) ==
    {id \in Resolve(request, k) :
        /\ request.form = "explicit" => Less(Zero, id)
        /\ stream[k] = << >> \/ ~ Less(id, Top(k))}

\* An id that was given must be above zero, and any id above the top.
Accepted(request, k) ==
    {id \in Resolve(request, k) :
        /\ request.form = "explicit" => Less(Zero, id)
        /\ stream[k] = << >> \/ Less(Top(k), id)}

\* The entry goes to the end, and these clients, of those registered, are woken.
AddEntry(request, k, woke) ==
    /\ kind[k] # "string"
    /\ \E id \in Accepted(request, k) : stream' = [stream EXCEPT ![k] = Append(@, id)]
    /\ kind' = [kind EXCEPT ![k] = "stream"]
    /\ woken' = woken \cup woke
    /\ watchers' = [watchers EXCEPT ![k] = {}]
    /\ stale' = [stale EXCEPT ![k] = 0]
    /\ UNCHANGED <<pc, wait, after, late, dollar>>

\* Mutants: one client is woken, as a push would; those that are not waiting yet
\* are left out.
XaddWakingOne(request, k) ==
    AddEntry(request, k, {c \in watchers[k] : c = CHOOSE d \in watchers[k] : TRUE})
XaddWakingParked(request, k) ==
    AddEntry(request, k, {c \in watchers[k] : pc[c] = "parked"})

\* A request that is refused, for its id or for what the key holds, changes
\* nothing and wakes nobody.
Xadd(request, k) == AddEntry(request, k, watchers[k])

\* partition_point on a sorted stream: how many entries come before the id, or
\* do not come after it.
Before(k, id) == Cardinality({i \in DOMAIN stream[k] : Less(stream[k][i], id)})
UpTo(k, id) == Cardinality({i \in DOMAIN stream[k] : ~ Less(id, stream[k][i])})

\* Mutant: the start is left out, as XREAD would.
XrangeAfterStart(k, start, end) == SubSeq(stream[k], UpTo(k, start) + 1, UpTo(k, end))

\* XRANGE, for a start that does not lie past the end.
Xrange(k, start, end) == SubSeq(stream[k], Before(k, start) + 1, UpTo(k, end))

\* SET, and the passing of a deadline that SET gave.
Set(k) ==
    /\ kind' = [kind EXCEPT ![k] = "string"]
    /\ stream' = [stream EXCEPT ![k] = << >>]
    /\ dollar' = [c \in Clients |-> dollar[c] \ {k}]
    /\ UNCHANGED <<registry, pc, wait, after, late, woken>>

Expire(k) ==
    /\ kind[k] = "string"
    /\ kind' = [kind EXCEPT ![k] = "none"]
    /\ UNCHANGED <<stream, registry, pc, wait, after, late, woken, dollar>>

-----------------------------------------------------------------------------
(* XREAD.                                                                  *)

\* Mutant: `$' stands for the end of the millisecond the stream ends in.
XreadPastMs(c, asked, w) ==
    /\ pc[c] = "idle"
    /\ after' = [after EXCEPT ![c] = [k \in DOMAIN asked |->
                    IF asked[k] # Dollar THEN asked[k]
                    ELSE IF stream[k] = << >> THEN Zero ELSE <<Top(k)[1], MaxSeq>>]]
    /\ dollar' = [dollar EXCEPT ![c] = {k \in DOMAIN asked : asked[k] = Dollar}]
    /\ wait' = [wait EXCEPT ![c] = w]
    /\ pc' = [pc EXCEPT ![c] = "reading"]
    /\ UNCHANGED <<store, registry, late, woken>>

\* The call: `$' becomes the id each stream ends at right now.  One that holds
\* a string is refused.
Xread(c, asked, w) ==
    /\ pc[c] = "idle"
    /\ \A k \in DOMAIN asked : asked[k] = Dollar => kind[k] # "string"
    /\ after' = [after EXCEPT ![c] = [k \in DOMAIN asked |->
                    IF asked[k] # Dollar THEN asked[k]
                    ELSE IF stream[k] = << >> THEN Zero ELSE Top(k)]]
    /\ dollar' = [dollar EXCEPT ![c] = {k \in DOMAIN asked : asked[k] = Dollar}]
    /\ wait' = [wait EXCEPT ![c] = w]
    /\ pc' = [pc EXCEPT ![c] = "reading"]
    /\ UNCHANGED <<store, registry, late, woken>>

\* The keys with entries past the id to read after: what an answer holds.
Readable(c) ==
    {k \in DOMAIN after[c] : \E i \in DOMAIN stream[k] : Less(after[c][k], stream[k][i])}

\* The waker of c is dropped: where still registered, nobody holds it any more.
DropWaker(c) ==
    /\ watchers' = [k \in Keys |-> watchers[k] \ {c}]
    /\ stale' = [k \in Keys |-> IF c \in watchers[k] THEN stale[k] + 1 ELSE stale[k]]
    /\ woken' = woken \ {c}

\* The client is answered, and its waker dropped.
Answer(c) ==
    /\ pc' = [pc EXCEPT ![c] = "idle"]
    /\ wait' = [wait EXCEPT ![c] = "now"]
    /\ after' = [after EXCEPT ![c] = NoReads]
    /\ dollar' = [dollar EXCEPT ![c] = {}]
    /\ late' = late \ {c}
    /\ DropWaker(c)
    /\ UNCHANGED store

\* The read itself, under the mutex, ends with an answer: entries, the refusal
\* of a string, or for a read that does not block, nothing.
ReadAnswers(c) ==
    /\ pc[c] = "reading"
    /\ \/ Readable(c) # {}
       \/ \E k \in DOMAIN after[c] : kind[k] = "string"
       \/ wait[c] = "now"
    /\ Answer(c)

\* Or, with nothing to answer, a waker is left under these keys, cleared first
\* of the wakers that nobody holds.
Register(c, ks) ==
    /\ pc[c] = "reading"
    /\ wait[c] # "now"
    /\ Readable(c) = {}
    /\ \A k \in DOMAIN after[c] : kind[k] # "string"
    /\ watchers' = [k \in Keys |-> IF k \in ks THEN watchers[k] \cup {c} ELSE watchers[k]]
    /\ stale' = [k \in Keys |-> IF k \in ks THEN 0 ELSE stale[k]]
    /\ pc' = [pc EXCEPT ![c] = "watching"]
    /\ UNCHANGED <<store, wait, after, late, woken, dollar>>

\* Mutant: wakers that nobody holds are not cleared.
ReadWatchesKeepingStale(c) ==
    /\ pc[c] = "reading" /\ wait[c] # "now" /\ Readable(c) = {}
    /\ watchers' = [k \in Keys |-> IF k \in DOMAIN after[c] THEN watchers[k] \cup {c} ELSE watchers[k]]
    /\ pc' = [pc EXCEPT ![c] = "watching"]
    /\ UNCHANGED <<store, stale, wait, after, late, woken, dollar>>

ReadWatches(c) == Register(c, DOMAIN after[c])

\* The deadline is looked at, and then the waker is waited on.
Park(c) ==
    /\ pc[c] = "watching"
    /\ c \notin late
    /\ pc' = [pc EXCEPT ![c] = "parked"]
    /\ UNCHANGED <<store, registry, wait, after, late, woken, dollar>>

TooLate(c) == pc[c] = "watching" /\ c \in late /\ Answer(c)

\* Mutant: the waiting starts over on every wake-up.
WokenStartingOver(c) ==
    /\ pc[c] = "parked" /\ c \in woken
    /\ pc' = [pc EXCEPT ![c] = "reading"]
    /\ late' = late \ {c}
    /\ DropWaker(c)
    /\ UNCHANGED <<store, wait, after, dollar>>

\* A permit is there: the waker has done its work, and the streams are read
\* again.
Woken(c) ==
    /\ pc[c] = "parked" /\ c \in woken
    /\ pc' = [pc EXCEPT ![c] = "reading"]
    /\ DropWaker(c)
    /\ UNCHANGED <<store, wait, after, late, dollar>>

\* No permit, and the time is up.
TimedOut(c) == pc[c] = "parked" /\ c \notin woken /\ c \in late /\ Answer(c)

DeadlinePasses(c) ==
    /\ pc[c] # "idle" /\ wait[c] = "until"
    /\ late' = late \cup {c}
    /\ UNCHANGED <<store, registry, pc, wait, after, woken, dollar>>

-----------------------------------------------------------------------------
Task(c) == ReadAnswers(c) \/ ReadWatches(c) \/ Park(c) \/ TooLate(c) \/ Woken(c) \/ TimedOut(c)

Next ==
    \/ \E k \in Keys : Set(k) \/ Expire(k) \/ \E request \in Requests : Xadd(request, k)
    \/ \E c \in Clients :
          \/ Task(c) \/ DeadlinePasses(c)
          \/ \E call \in Calls[c] : Xread(c, call.reads, call.wait)

\* Tasks that can run do run, and deadlines pass.  Nobody has to add or read.
Fairness == \A c \in Clients : WF_vars(Task(c)) /\ WF_vars(DeadlinePasses(c))

Spec == Init /\ [][Next]_vars
FairSpec == Spec /\ Fairness

-----------------------------------------------------------------------------
(* Properties.                                                             *)

\* A stream is a log: there is one exactly where something was added, and its
\* ids strictly increase from above zero, whatever ids are asked for and however
\* the clock jumps.  The binary searches of XRANGE and XREAD rely on it.
StreamsAreLogs ==
    \A k \in Keys :
        /\ kind[k] = "stream" <=> stream[k] # << >>
        /\ \A i \in DOMAIN stream[k] : Less(Zero, stream[k][i])
        /\ \A i, j \in DOMAIN stream[k] : i < j => Less(stream[k][i], stream[k][j])

\* XRANGE finds all the entries between its bounds, both included, and nothing
\* else, in the order of the stream.
RangeIsExact ==
    \A k \in Keys : \A start, end \in Ids : ~ Less(end, start) =>
        LET found == Xrange(k, start, end)
            between == {i \in DOMAIN stream[k] :
                           ~ Less(stream[k][i], start) /\ ~ Less(end, stream[k][i])}
        IN  /\ {found[i] : i \in DOMAIN found} = {stream[k][i] : i \in between}
            /\ \A i, j \in DOMAIN found : i < j => Less(found[i], found[j])

\* No entry slips past a client that blocks: as long as its waker has not been
\* fired, there is nothing for it to read, and the waker is under every key it
\* reads.
NothingSlipsPast ==
    \A c \in Clients : pc[c] \in {"watching", "parked"} /\ c \notin woken =>
        /\ Readable(c) = {}
        /\ \A k \in DOMAIN after[c] : c \in watchers[k]

\* What is added to a stream after a client asked for it from `$' is past the id
\* that `$' became, so that the client gets to read it.
DollarSeesAll ==
    [][\A c \in Clients : \A k \in dollar[c] :
          Len(stream'[k]) > Len(stream[k]) => Less(after[c][k], stream'[k][Len(stream'[k])])]_vars

\* Wakers do not pile up under a key that never grows: there are never more than
\* clients, although clients woken through another key leave theirs behind.
WakersBounded == \A k \in Keys : Cardinality(watchers[k]) + stale[k] <= Cardinality(Clients)

\* A client is answered if there is something for it to read that stays there,
\* and if it gave a deadline, however often it is woken for entries that it did
\* not ask for.
ReadersAreAnswered ==
    \A c \in Clients :
        /\ []([](Readable(c) # {}) => <>(pc[c] = "idle"))
        /\ wait[c] = "until" ~> pc[c] = "idle"

\* What Store::xrange says of itself: it "returns the entries [...] whose ids fall
\* between", which for a start past the end are none.  The slice it takes of the
\* stream exists only if its ends are in order.
XrangeAnswers == \A k \in Keys : \A start, end \in Ids : Before(k, start) <= UpTo(k, end)
=============================================================================
