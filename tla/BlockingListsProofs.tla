------------------------ MODULE BlockingListsProofs ------------------------
(***************************************************************************)
(* What holds of BlockingLists for any finite set of clients, any keys and *)
(* elements and any size of batch.  First what the operations do to the    *)
(* lists and the queues, and that the two stay in shape; then the line of  *)
(* clients, who is in it and in which order they are served; then the      *)
(* elements, that each is in one place and is lost only to a client that   *)
(* has timed out; and last that abandoned senders do not pile up.          *)
(***************************************************************************)
EXTENDS BlockingLists, FiniteSetTheorems, TLAPS

\* More time for a step than the provers take by themselves.
USE SMTT(20), ZenonT(20)

-----------------------------------------------------------------------------
(* What the sequence operators of the model do, index by index.            *)

\* Dropping the first element moves every other one place forward.
LEMMA TailFacts ==
    ASSUME NEW S, NEW s \in Seq(S), s # << >>
    PROVE  /\ Tail(s) \in Seq(S)
           /\ Head(s) \in S
           /\ Head(s) = s[1]
           /\ Len(s) \in Nat \ {0}
           /\ Len(Tail(s)) = Len(s) - 1
           /\ DOMAIN Tail(s) = 1 .. Len(s) - 1
           /\ \A i \in DOMAIN Tail(s) : i + 1 \in DOMAIN s /\ Tail(s)[i] = s[i + 1]
    OBVIOUS

\* Putting two sequences together.
LEMMA ConcatFacts ==
    ASSUME NEW S, NEW s \in Seq(S), NEW t \in Seq(S)
    PROVE  /\ s \o t \in Seq(S)
           /\ Len(s \o t) = Len(s) + Len(t)
           /\ \A i \in DOMAIN (s \o t) :
                 \/ i \in DOMAIN s /\ (s \o t)[i] = s[i]
                 \/ i - Len(s) \in DOMAIN t /\ (s \o t)[i] = t[i - Len(s)]
           /\ \A i \in DOMAIN s : i \in DOMAIN (s \o t) /\ (s \o t)[i] = s[i]
           /\ \A i \in DOMAIN t :
                 i + Len(s) \in DOMAIN (s \o t) /\ (s \o t)[i + Len(s)] = t[i]
    OBVIOUS

\* A drained front leaves the rest in order.
LEMMA DrainFacts ==
    ASSUME NEW S, NEW s \in Seq(S), NEW n \in 0 .. Len(s)
    PROVE  /\ SubSeq(s, n + 1, Len(s)) \in Seq(S)
           /\ Len(SubSeq(s, n + 1, Len(s))) = Len(s) - n
           /\ \A i \in 1 .. Len(s) - n :
                 i + n \in DOMAIN s /\ SubSeq(s, n + 1, Len(s))[i] = s[i + n]
           /\ SubSeq(s, 1, n) \in Seq(S)
           /\ Len(SubSeq(s, 1, n)) = n
           /\ \A i \in 1 .. n : i \in DOMAIN s /\ SubSeq(s, 1, n)[i] = s[i]
    OBVIOUS

\* Reversing a sequence keeps its elements.
LEMMA ReverseFacts ==
    ASSUME NEW S, NEW s \in Seq(S)
    PROVE  /\ Reverse(s) \in Seq(S)
           /\ Len(Reverse(s)) = Len(s)
           /\ \A i \in DOMAIN Reverse(s) :
                 Len(s) - i + 1 \in DOMAIN s /\ Reverse(s)[i] = s[Len(s) - i + 1]
           /\ \A i \in DOMAIN s :
                 Len(s) - i + 1 \in DOMAIN Reverse(s) /\ Reverse(s)[Len(s) - i + 1] = s[i]
    BY DEF Reverse

\* Marking one client's senders as gone moves nobody.
LEMMA ReplaceAllFacts ==
    ASSUME NEW S, NEW s \in Seq(S), NEW a, NEW b \in S
    PROVE  /\ ReplaceAll(s, a, b) \in Seq(S)
           /\ Len(ReplaceAll(s, a, b)) = Len(s)
           /\ DOMAIN ReplaceAll(s, a, b) = DOMAIN s
           /\ \A i \in DOMAIN s :
                 ReplaceAll(s, a, b)[i] = IF s[i] = a THEN b ELSE s[i]
    BY DEF ReplaceAll

\* Taking out one sender leaves the others in the order they were in.
LEMMA RemoveAtFacts ==
    ASSUME NEW S, NEW s \in Seq(S), NEW n \in 1 .. Len(s)
    PROVE  /\ RemoveAt(s, n) \in Seq(S)
           /\ Len(RemoveAt(s, n)) = Len(s) - 1
           /\ DOMAIN RemoveAt(s, n) = 1 .. Len(s) - 1
           /\ \A i \in 1 .. Len(s) - 1 :
                 RemoveAt(s, n)[i] = IF i < n THEN s[i] ELSE s[i + 1]
PROOF
<1>1. /\ SubSeq(s, 1, n - 1) \in Seq(S)
      /\ Len(SubSeq(s, 1, n - 1)) = n - 1
      /\ \A i \in 1 .. n - 1 : SubSeq(s, 1, n - 1)[i] = s[i]
  OBVIOUS
<1>2. /\ SubSeq(s, n + 1, Len(s)) \in Seq(S)
      /\ Len(SubSeq(s, n + 1, Len(s))) = Len(s) - n
      /\ \A i \in 1 .. Len(s) - n : SubSeq(s, n + 1, Len(s))[i] = s[i + n]
  OBVIOUS
<1>3. ASSUME NEW a \in Seq(S), NEW b \in Seq(S), Len(a) = n - 1, Len(b) = Len(s) - n,
             \A i \in 1 .. n - 1 : a[i] = s[i],
             \A i \in 1 .. Len(s) - n : b[i] = s[i + n]
      PROVE  /\ a \o b \in Seq(S)
             /\ Len(a \o b) = Len(s) - 1
             /\ DOMAIN (a \o b) = 1 .. Len(s) - 1
             /\ \A i \in 1 .. Len(s) - 1 :
                   (a \o b)[i] = IF i < n THEN s[i] ELSE s[i + 1]
  <2>1. /\ a \o b \in Seq(S)
        /\ Len(a \o b) = Len(s) - 1
        /\ DOMAIN (a \o b) = 1 .. Len(s) - 1
    <3>1. Len(a \o b) = Len(a) + Len(b) /\ a \o b \in Seq(S)
      OBVIOUS
    <3>2. Len(a) + Len(b) = Len(s) - 1
      BY <1>3
    <3> QED
      BY <3>1, <3>2
  <2>2. ASSUME NEW i \in 1 .. Len(s) - 1
        PROVE  (a \o b)[i] = IF i < n THEN s[i] ELSE s[i + 1]
    <3>1. CASE i < n
      BY <1>3, <3>1
    <3>2. CASE ~(i < n)
      <4>1. i - (n - 1) \in 1 .. Len(s) - n
        BY <3>2
      <4>2. (a \o b)[i] = b[i - (n - 1)]
        <5>1. i \in 1 .. Len(a) + Len(b) /\ ~(i <= Len(a)) /\ i - Len(a) = i - (n - 1)
          BY <1>3, <3>2
        <5>2. (a \o b)[i] = b[i - Len(a)]
          BY <5>1
        <5> QED
          BY <5>1, <5>2
      <4>3. b[i - (n - 1)] = s[(i - (n - 1)) + n]
        BY <1>3, <4>1
      <4> QED
        BY <3>2, <4>2, <4>3
    <3> QED
      BY <3>1, <3>2, Zenon
  <2> QED
    BY <2>1, <2>2
<1> QED
  BY <1>1, <1>2, <1>3, Zenon DEF RemoveAt

-----------------------------------------------------------------------------
(* The inductive invariant.                                                *)

\* The client whose blpop is going through the queue is not blocked yet, and
\* the key has nothing at it.
RetainingForIdle ==
    \A k \in Keys, c \in Clients : \A i \in 1 .. Len(waiters[k]) + 1 :
        lock = Retain(k, c, i) => pc[c] = "idle" /\ kind[k] = "none"

Shape == TypeOK /\ ListsNeverEmpty /\ NobodyWaitsOnAList /\ RetainingForIdle

\* Replacing one entry.
LEMMA PutFacts ==
    ASSUME TypeOK, NEW k \in Keys, NEW knd \in {"none", "string", "list"},
           NEW list \in Seq(Elements), NEW exp \in {"never", "pending", "passed"},
           Put(k, knd, list, exp)
    PROVE  /\ kind' \in [Keys -> {"none", "string", "list"}]
           /\ items' \in [Keys -> Seq(Elements)]
           /\ expiry' \in [Keys -> {"never", "pending", "passed"}]
           /\ kind'[k] = knd /\ items'[k] = list /\ expiry'[k] = exp
           /\ \A l \in Keys \ {k} :
                 kind'[l] = kind[l] /\ items'[l] = items[l] /\ expiry'[l] = expiry[l]
    BY DEF TypeOK, Put

\* Leaving a list behind, or nothing where it has run empty.
LEMMA PutListFacts ==
    ASSUME TypeOK, NEW k \in Keys, NEW list \in Seq(Elements), PutList(k, list)
    PROVE  /\ kind' \in [Keys -> {"none", "string", "list"}]
           /\ items' \in [Keys -> Seq(Elements)]
           /\ expiry' \in [Keys -> {"never", "pending", "passed"}]
           /\ kind'[k] = IF list = << >> THEN "none" ELSE "list"
           /\ items'[k] = list /\ expiry'[k] = "never"
           /\ \A l \in Keys \ {k} :
                 kind'[l] = kind[l] /\ items'[l] = items[l] /\ expiry'[l] = expiry[l]
PROOF
<1>1. << >> \in Seq(Elements)
  OBVIOUS
<1>2. CASE list = << >>
  BY <1>1, <1>2, PutFacts, Zenon DEF PutList, Delete
<1>3. CASE list # << >>
  BY <1>3, PutFacts DEF PutList
<1> QED
  BY <1>2, <1>3

\* A lookup changes no list.
LEMMA DropFacts ==
    ASSUME TypeOK, ListsNeverEmpty, NEW k \in Keys, DropIfExpired(k)
    PROVE  /\ kind' \in [Keys -> {"none", "string", "list"}]
           /\ expiry' \in [Keys -> {"never", "pending", "passed"}]
           /\ items' = items
           /\ kind'[k] = KindAt(k)
           /\ kind[k] = "list" <=> kind'[k] = "list"
           /\ kind'[k] = "list" => expiry'[k] = "never"
           /\ kind[k] = "none" => kind'[k] = "none"
           /\ \A l \in Keys \ {k} : kind'[l] = kind[l] /\ expiry'[l] = expiry[l]
PROOF
<1>1. << >> \in Seq(Elements)
  OBVIOUS
<1>2. CASE expiry[k] = "passed"
  <2>1. kind[k] # "list" /\ items[k] = << >>
    BY <1>2 DEF ListsNeverEmpty
  <2>2. Put(k, "none", << >>, "never")
    BY <1>2 DEF DropIfExpired, Delete
  <2>3. items' = items
    BY <2>1, <2>2 DEF Put, TypeOK
  <2> QED
    BY <1>1, <1>2, <2>1, <2>2, <2>3, PutFacts, Zenon DEF KindAt
<1>3. CASE expiry[k] # "passed"
  <2>1. kind' = kind /\ items' = items /\ expiry' = expiry
    BY <1>3 DEF DropIfExpired, store
  <2> QED
    BY <1>3, <2>1 DEF KindAt, TypeOK, ListsNeverEmpty
<1> QED
  BY <1>2, <1>3

-----------------------------------------------------------------------------
(* What each operation does to the lists, as the dropping of a front.      *)

StoreTyped ==
    /\ kind' \in [Keys -> {"none", "string", "list"}]
    /\ items' \in [Keys -> Seq(Elements)]
    /\ expiry' \in [Keys -> {"never", "pending", "passed"}]

\* The first t elements leave the list at k, and no other list changes.
Drained(k, t) ==
    /\ t \in 0 .. Len(items[k])
    /\ Len(items'[k]) = Len(items[k]) - t
    /\ \A i \in 1 .. Len(items[k]) - t : items'[k][i] = items[k][i + t]
    /\ \A l \in Keys \ {k} : items'[l] = items[l]

FrontOf(k, t) == {items[k][i] : i \in 1 .. t}

\* Whatever key is looked at, a list stays a list until it runs empty, and
\* nothing else becomes one.
Kept(k) ==
    /\ IF kind'[k] = "list" THEN items'[k] # << >> /\ expiry'[k] = "never"
                            ELSE items'[k] = << >>
    /\ kind'[k] = "list" => kind[k] = "list"
    /\ \A l \in Keys \ {k} : kind'[l] = kind[l] /\ expiry'[l] = expiry[l]

\* SET drops the whole list and leaves a string.
LEMMA SetFacts ==
    ASSUME TypeOK, ListsNeverEmpty, NEW k \in Keys, NEW exp \in {"never", "pending"},
           Set(k, exp)
    PROVE  /\ StoreTyped
           /\ Drained(k, Len(items[k]))
           /\ Kept(k)
           /\ owed' = owed \ FrontOf(k, Len(items[k]))
PROOF
<1>1. << >> \in Seq(Elements) /\ items[k] \in Seq(Elements) /\ Len(items[k]) \in Nat
  BY DEF TypeOK
<1>2. /\ StoreTyped
      /\ kind'[k] = "string" /\ items'[k] = << >>
      /\ \A l \in Keys \ {k} :
            kind'[l] = kind[l] /\ items'[l] = items[l] /\ expiry'[l] = expiry[l]
  <2>1. Put(k, "string", << >>, exp)
    BY DEF Set
  <2> QED
    BY <1>1, <2>1 DEF Put, TypeOK, StoreTyped
<1>3. FrontOf(k, Len(items[k])) = Range(items[k])
  BY <1>1 DEF FrontOf, Range
<1> QED
  BY <1>1, <1>2, <1>3 DEF Drained, Kept, Set

\* A lookup leaves every list as it was.
LEMMA LookFacts ==
    ASSUME TypeOK, ListsNeverEmpty, NEW k \in Keys, DropIfExpired(k)
    PROVE  StoreTyped /\ items' = items /\ Kept(k) /\ kind'[k] = KindAt(k)
PROOF
<1>1. items[k] = << >> <=> kind[k] # "list"
  BY DEF ListsNeverEmpty
<1> QED
  BY <1>1, DropFacts DEF StoreTyped, Kept, TypeOK

\* A list shortened to what lies behind its first t elements.
LEMMA DrainFront ==
    ASSUME TypeOK, ListsNeverEmpty, NEW k \in Keys, kind[k] = "list",
           NEW t \in 0 .. Len(items[k]), NEW rest \in Seq(Elements),
           Len(rest) = Len(items[k]) - t,
           \A i \in 1 .. Len(items[k]) - t : rest[i] = items[k][i + t],
           PutList(k, rest)
    PROVE  StoreTyped /\ Drained(k, t) /\ Kept(k)
PROOF
<1>1. /\ StoreTyped
      /\ kind'[k] = IF rest = << >> THEN "none" ELSE "list"
      /\ items'[k] = rest /\ expiry'[k] = "never"
      /\ \A l \in Keys \ {k} :
            kind'[l] = kind[l] /\ items'[l] = items[l] /\ expiry'[l] = expiry[l]
  BY PutListFacts DEF StoreTyped
<1> QED
  BY <1>1 DEF Drained, Kept

\* LPOP drops a front of the list, of at most the length asked for.
LEMMA LpopFacts ==
    ASSUME TypeOK, ListsNeverEmpty, NEW k \in Keys, NEW n \in 0 .. MaxBatch, Lpop(k, n)
    PROVE  /\ StoreTyped
           /\ Kept(k)
           /\ \E t \in 0 .. Len(items[k]) : Drained(k, t) /\ owed' = owed \ FrontOf(k, t)
PROOF
<1>1. items[k] \in Seq(Elements) /\ Len(items[k]) \in Nat
  BY DEF TypeOK
<1>2. CASE KindAt(k) = "list"
  <2>1. PICK t \in 0 .. Len(items[k]) : t = IF n < Len(items[k]) THEN n ELSE Len(items[k])
    BY <1>1, ConstantsAssumption
  <2> DEFINE rest == SubSeq(items[k], t + 1, Len(items[k]))
             gone == SubSeq(items[k], 1, t)
  <2>2. /\ rest \in Seq(Elements) /\ Len(rest) = Len(items[k]) - t
        /\ \A i \in 1 .. Len(items[k]) - t : rest[i] = items[k][i + t]
        /\ gone \in Seq(Elements) /\ Len(gone) = t
        /\ \A i \in 1 .. t : gone[i] = items[k][i]
    <3>1. PICK s \in Seq(Elements) : s = items[k]
      BY <1>1
    <3>2. t \in 0 .. Len(s)
      BY <3>1
    <3>3. /\ SubSeq(s, t + 1, Len(s)) \in Seq(Elements) /\ Len(SubSeq(s, t + 1, Len(s))) = Len(s) - t
          /\ \A i \in 1 .. Len(s) - t : SubSeq(s, t + 1, Len(s))[i] = s[i + t]
          /\ SubSeq(s, 1, t) \in Seq(Elements) /\ Len(SubSeq(s, 1, t)) = t
          /\ \A i \in 1 .. t : SubSeq(s, 1, t)[i] = s[i]
      BY <3>2, DrainFacts, SMTT(30)
    <3> QED BY <3>1, <3>3, Zenon
  <2>3. PutList(k, rest) /\ owed' = owed \ Range(gone)
    BY <1>2, <2>1 DEF Lpop
  <2> HIDE DEF rest, gone
  <2>4. kind[k] = "list"
    BY <1>2 DEF KindAt
  <2>5. StoreTyped /\ Drained(k, t) /\ Kept(k)
    BY <2>1, <2>2, <2>3, <2>4, DrainFront, Zenon
  <2>6. Range(gone) = FrontOf(k, t)
    <3>1. DOMAIN gone = 1 .. t
      BY <2>2
    <3>2. Range(gone) = {gone[i] : i \in 1 .. t}
      BY <3>1 DEF Range
    <3>3. \A i \in 1 .. t : gone[i] = items[k][i]
      BY <2>2
    <3> QED
      BY <3>2, <3>3 DEF FrontOf
  <2> QED
    BY <2>1, <2>3, <2>5, <2>6
<1>3. CASE KindAt(k) # "list"
  <2>1. StoreTyped /\ items' = items /\ Kept(k) /\ owed' = owed
    BY <1>3, LookFacts DEF Lpop
  <2>2. 0 \in 0 .. Len(items[k]) /\ Drained(k, 0) /\ FrontOf(k, 0) = {}
    BY <1>1, <2>1 DEF Drained, FrontOf
  <2> QED
    BY <2>1, <2>2
<1> QED
  BY <1>2, <1>3

\* The first element leaves for the client at the head of the line.
LEMMA HandOverFacts ==
    ASSUME TypeOK, ListsNeverEmpty, NEW k \in Keys, HandOver(k), Head(waiters[k]) # Gone
    PROVE  /\ StoreTyped /\ Drained(k, 1) /\ Kept(k)
           /\ items[k][1] \in Elements
           /\ slot' = [slot EXCEPT ![Head(waiters[k])] = items[k][1]]
PROOF
<1>1. items[k] \in Seq(Elements) /\ items[k] # << >> /\ kind[k] = "list"
  BY DEF HandOver, ListsNeverEmpty, TypeOK
<1>2. /\ Tail(items[k]) \in Seq(Elements)
      /\ Len(items[k]) \in Nat \ {0}
      /\ Len(Tail(items[k])) = Len(items[k]) - 1
      /\ \A i \in 1 .. Len(items[k]) - 1 : Tail(items[k])[i] = items[k][i + 1]
      /\ Head(items[k]) = items[k][1] /\ Head(items[k]) \in Elements
  BY <1>1, TailFacts
<1>3. PutList(k, Tail(items[k])) /\ 1 \in 0 .. Len(items[k])
  BY <1>2 DEF HandOver
<1> QED
  BY <1>1, <1>2, <1>3, DrainFront, Zenon DEF HandOver

\* The first element is the answer to BLPOP.
LEMMA BlpopFacts ==
    ASSUME TypeOK, ListsNeverEmpty, NEW k \in Keys, NEW c \in Clients, Blpop(c, k)
    PROVE  /\ StoreTyped /\ Kept(k)
           /\ \E t \in 0 .. Len(items[k]) : Drained(k, t) /\ owed' = owed \ FrontOf(k, t)
           /\ \/ lock' = lock
              \/ lock' = Retain(k, c, 1) /\ kind'[k] = "none"
PROOF
<1>1. items[k] \in Seq(Elements) /\ Len(items[k]) \in Nat
  BY DEF TypeOK
<1>2. FrontOf(k, 0) = {}
  BY DEF FrontOf
<1>3. CASE KindAt(k) = "list"
  <2>1. kind[k] = "list" /\ items[k] # << >>
    BY <1>3 DEF KindAt, ListsNeverEmpty
  <2>2. /\ Tail(items[k]) \in Seq(Elements)
        /\ Len(items[k]) \in Nat \ {0}
        /\ Len(Tail(items[k])) = Len(items[k]) - 1
        /\ \A i \in 1 .. Len(items[k]) - 1 : Tail(items[k])[i] = items[k][i + 1]
        /\ Head(items[k]) = items[k][1]
    BY <1>1, <2>1, TailFacts
  <2>3. PutList(k, Tail(items[k])) /\ owed' = owed \ {items[k][1]} /\ lock' = lock
    BY <1>3, <2>2 DEF Blpop
  <2>4. 1 \in 0 .. Len(items[k]) /\ FrontOf(k, 1) = {items[k][1]}
    BY <2>2 DEF FrontOf
  <2>5. StoreTyped /\ Drained(k, 1) /\ Kept(k)
    BY <2>1, <2>2, <2>3, <2>4, DrainFront, Zenon
  <2> QED
    BY <2>3, <2>4, <2>5
<1>4. CASE KindAt(k) = "string"
  <2>1. kind' = kind /\ items' = items /\ expiry' = expiry /\ owed' = owed /\ lock' = lock
    BY <1>4 DEF Blpop
  <2>2. StoreTyped /\ Kept(k)
    BY <2>1 DEF StoreTyped, Kept, TypeOK, ListsNeverEmpty
  <2>3. 0 \in 0 .. Len(items[k]) /\ Drained(k, 0)
    BY <1>1, <2>1 DEF Drained
  <2> QED
    BY <1>2, <2>1, <2>2, <2>3
<1>5. CASE KindAt(k) = "none"
  <2>1. DropIfExpired(k) /\ owed' = owed /\ lock' = Retain(k, c, 1)
    BY <1>5 DEF Blpop
  <2>2. StoreTyped /\ items' = items /\ Kept(k) /\ kind'[k] = "none"
    BY <1>5, <2>1, LookFacts
  <2>3. 0 \in 0 .. Len(items[k]) /\ Drained(k, 0)
    BY <1>1, <2>2 DEF Drained
  <2> QED
    BY <1>2, <2>1, <2>2, <2>3
<1> QED
  BY <1>3, <1>4, <1>5 DEF KindAt, TypeOK

\* What a push that goes through adds, at either end.
LEMMA PushFacts ==
    ASSUME TypeOK, ListsNeverEmpty, NEW k \in Keys, NEW b \in Batches,
           NEW side \in {"left", "right"}, Push(k, b, side), KindAt(k) # "string"
    PROVE  /\ StoreTyped
           /\ b \in Seq(Elements) /\ Len(b) \in Nat \ {0}
           /\ \E new \in Seq(Elements) :
                 /\ Len(new) = Len(b)
                 /\ \A i \in 1 .. Len(b) : \E j \in 1 .. Len(b) : new[i] = b[j]
                 /\ \A i \in 1 .. Len(b) : \E j \in 1 .. Len(b) : new[j] = b[i]
                 /\ \A i, j \in 1 .. Len(b) : new[i] = new[j] => i = j
                 /\ items'[k] = items[k] \o new \/ items'[k] = new \o items[k]
           /\ kind'[k] = "list" /\ expiry'[k] = "never" /\ items'[k] # << >>
           /\ \A l \in Keys \ {k} :
                 kind'[l] = kind[l] /\ items'[l] = items[l] /\ expiry'[l] = expiry[l]
PROOF
<1>1. items[k] \in Seq(Elements) /\ Len(items[k]) \in Nat
  BY DEF TypeOK
<1>2. PICK n \in 1 .. MaxBatch : b \in [1 .. n -> Elements \ owed] /\ \A i, j \in 1 .. n : b[i] = b[j] => i = j
  BY DEF Batches
<1>3. b \in Seq(Elements) /\ Len(b) = n /\ Len(b) \in Nat \ {0}
  BY <1>2, ConstantsAssumption
<1>4. PICK new \in Seq(Elements) :
         /\ new = IF side = "right" THEN b ELSE Reverse(b)
  BY <1>3, ReverseFacts
<1>5. /\ Len(new) = Len(b)
      /\ \A i \in 1 .. Len(b) : \E j \in 1 .. Len(b) : new[i] = b[j]
      /\ \A i \in 1 .. Len(b) : \E j \in 1 .. Len(b) : new[j] = b[i]
      /\ \A i, j \in 1 .. Len(b) : new[i] = new[j] => i = j
  <2>1. CASE side = "right"
    BY <1>2, <1>3, <1>4, <2>1
  <2>2. CASE side # "right"
    <3>1. new = Reverse(b)
      BY <1>4, <2>2
    <3>2. Len(new) = Len(b) /\ \A i \in 1 .. Len(b) : Len(b) - i + 1 \in 1 .. Len(b) /\ new[i] = b[Len(b) - i + 1]
      BY <1>3, <3>1, ReverseFacts
    <3>3. \A i \in 1 .. Len(b) : new[Len(b) - i + 1] = b[i]
      BY <1>3, <3>1, ReverseFacts
    <3> QED
      BY <1>2, <1>3, <3>2, <3>3
  <2> QED
    BY <2>1, <2>2, Zenon
<1>6. PICK list \in Seq(Elements) :
         /\ list = IF side = "right" THEN items[k] \o new ELSE new \o items[k]
  <2>1. items[k] \o new \in Seq(Elements) /\ new \o items[k] \in Seq(Elements)
    BY <1>1, ConcatFacts
  <2> QED
    BY <2>1, Zenon
<1>7. list # << >>
  BY <1>1, <1>3, <1>5, <1>6
<1>8. Put(k, "list", list, "never")
  BY <1>4, <1>6 DEF Push
<1>9. /\ StoreTyped
      /\ kind'[k] = "list" /\ expiry'[k] = "never" /\ items'[k] = list
      /\ \A l \in Keys \ {k} :
            kind'[l] = kind[l] /\ items'[l] = items[l] /\ expiry'[l] = expiry[l]
  BY <1>8, PutFacts DEF StoreTyped
<1>10. items'[k] = items[k] \o new \/ items'[k] = new \o items[k]
  BY <1>6, <1>9, Zenon
<1> QED
  BY <1>3, <1>5, <1>7, <1>9, <1>10, Zenon

-----------------------------------------------------------------------------
(* Types, and the lists and the queues fitting together.                   *)

\* A step keeps every variable within its type.
LEMMA TypeStep ==
    ASSUME Shape, [Next]_vars
    PROVE  TypeOK'
PROOF
<1> USE DEF Shape
<1>1. ASSUME NEW k \in Keys, NEW exp \in {"never", "pending"}, Set(k, exp)
      PROVE  TypeOK'
  BY <1>1, SetFacts DEF Set, TypeOK, StoreTyped
<1>2. ASSUME NEW k \in Keys, Look(k)
      PROVE  TypeOK'
  BY <1>2, LookFacts DEF Look, TypeOK, StoreTyped
<1>3. ASSUME NEW k \in Keys, NEW n \in 0 .. MaxBatch, Lpop(k, n)
      PROVE  TypeOK'
  <2>1. StoreTyped /\ owed' \subseteq owed
    BY <1>3, LpopFacts
  <2> QED
    BY <1>3, <2>1 DEF Lpop, TypeOK, StoreTyped
<1>4. ASSUME NEW k \in Keys, NEW b \in Batches, NEW side \in {"left", "right"},
             Push(k, b, side)
      PROVE  TypeOK'
  <2>1. CASE KindAt(k) = "string"
    BY <1>4, <2>1 DEF Push, TypeOK
  <2>2. CASE KindAt(k) # "string"
    <3>1. StoreTyped /\ Range(b) \subseteq Elements
      BY <1>4, <2>2, PushFacts DEF Range
    <3>2. lock' = Wake(k) /\ owed' = owed \cup Range(b)
      BY <1>4, <2>2 DEF Push
    <3> QED
      BY <1>4, <3>1, <3>2 DEF Push, TypeOK, StoreTyped
  <2> QED
    BY <2>1, <2>2
<1>5. ASSUME NEW k \in Keys, DeadlinePasses(k)
      PROVE  TypeOK'
  BY <1>5 DEF DeadlinePasses, TypeOK
<1>6. ASSUME NEW k \in Keys, HandOver(k)
      PROVE  TypeOK'
  <2>1. /\ waiters[k] \in Seq(Clients \cup {Gone})
        /\ waiters[k] # << >>
        /\ waiters' = [waiters EXCEPT ![k] = Tail(waiters[k])]
    BY <1>6 DEF HandOver, TypeOK
  <2>2. Tail(waiters[k]) \in Seq(Clients \cup {Gone}) /\ Head(waiters[k]) \in Clients \cup {Gone}
    BY <2>1, TailFacts
  <2>3. waiters' \in [Keys -> Seq(Clients \cup {Gone})]
    BY <2>1, <2>2 DEF TypeOK
  <2>4. CASE Head(waiters[k]) = Gone
    BY <1>6, <2>3, <2>4 DEF HandOver, TypeOK, Wake
  <2>5. CASE Head(waiters[k]) # Gone
    <3>1. StoreTyped /\ items[k][1] \in Elements
      BY <1>6, <2>5, HandOverFacts
    <3>2. slot' \in [Clients -> Elements \cup {NoElement}]
      BY <1>6, <2>5, <3>1, HandOverFacts, Zenon DEF TypeOK
    <3> QED
      BY <1>6, <2>3, <3>1, <3>2 DEF HandOver, TypeOK, StoreTyped
  <2> QED
    BY <2>4, <2>5
<1>7. ASSUME NEW k \in Keys, WakeDone(k)
      PROVE  TypeOK'
  BY <1>7 DEF WakeDone, TypeOK
<1>8. ASSUME NEW k \in Keys, NEW c \in Clients, Blpop(c, k)
      PROVE  TypeOK'
  <2>1. StoreTyped /\ owed' \subseteq owed
    BY <1>8, BlpopFacts
  <2>2. waiters' = waiters /\ 1 \in 1 .. Len(waiters[k]) + 1
    BY <1>8 DEF Blpop, TypeOK
  <2>3. lock' = lock \/ lock' = Retain(k, c, 1)
    BY <1>8, BlpopFacts
  <2> QED
    BY <1>8, <2>1, <2>2, <2>3, Zenon DEF Blpop, TypeOK, StoreTyped
<1>9. ASSUME NEW k \in Keys, NEW c \in Clients, NEW i \in 1 .. Len(waiters[k]) + 1,
             RetainNext(k, c, i)
      PROVE  TypeOK'
  <2>1. waiters[k] \in Seq(Clients \cup {Gone}) /\ Len(waiters[k]) \in Nat /\ i \in 1 .. Len(waiters[k])
    BY <1>9 DEF RetainNext, TypeOK
  <2>2. CASE waiters[k][i] = Gone
    <3>1. waiters' = [waiters EXCEPT ![k] = RemoveAt(waiters[k], i)] /\ lock' = Retain(k, c, i)
      BY <1>9, <2>2 DEF RetainNext
    <3>2. /\ RemoveAt(waiters[k], i) \in Seq(Clients \cup {Gone})
          /\ Len(RemoveAt(waiters[k], i)) = Len(waiters[k]) - 1
      BY <2>1, RemoveAtFacts, Zenon
    <3>3. waiters' \in [Keys -> Seq(Clients \cup {Gone})] /\ i \in 1 .. Len(waiters'[k]) + 1
      BY <2>1, <3>1, <3>2 DEF TypeOK
    <3> QED
      BY <1>9, <3>1, <3>3 DEF RetainNext, TypeOK
  <2>3. CASE waiters[k][i] # Gone
    <3>1. waiters' = waiters /\ lock' = Retain(k, c, i + 1)
      BY <1>9, <2>3 DEF RetainNext
    <3>2. i + 1 \in 1 .. Len(waiters[k]) + 1
      BY <2>1
    <3> QED
      BY <1>9, <3>1, <3>2 DEF RetainNext, TypeOK
  <2> QED
    BY <2>2, <2>3
<1>10. ASSUME NEW k \in Keys, NEW c \in Clients, NEW i \in 1 .. Len(waiters[k]) + 1,
              Join(k, c, i)
       PROVE  TypeOK'
  <2>1. waiters' \in [Keys -> Seq(Clients \cup {Gone})]
    BY <1>10 DEF Join, TypeOK
  <2>2. before' \subseteq Clients \X Clients
    BY <1>10 DEF Join, TypeOK
  <2> QED
    BY <1>10, <2>1, <2>2 DEF Join, TypeOK
<1>11. ASSUME NEW c \in Clients, Answered(c)
       PROVE  /\ pc' \in [Clients -> {"idle", "blocked", "late"}]
              /\ slot' \in [Clients -> Elements \cup {NoElement}]
              /\ waiters' \in [Keys -> Seq(Clients \cup {Gone})]
              /\ \A k \in Keys : Len(waiters'[k]) = Len(waiters[k])
              /\ before' \subseteq Clients \X Clients
  <2>1. \A k \in Keys : /\ ReplaceAll(waiters[k], c, Gone) \in Seq(Clients \cup {Gone})
                        /\ Len(ReplaceAll(waiters[k], c, Gone)) = Len(waiters[k])
    BY ReplaceAllFacts DEF TypeOK
  <2> QED
    BY <1>11, <2>1 DEF Answered, TypeOK
<1>12. ASSUME NEW c \in Clients, Receive(c)
       PROVE  TypeOK'
  BY <1>11, <1>12 DEF Receive, TypeOK
<1>13. ASSUME NEW c \in Clients, GiveUp(c)
       PROVE  TypeOK'
  BY <1>11, <1>13 DEF GiveUp, TypeOK
<1>14. ASSUME NEW c \in Clients, TimerFires(c)
       PROVE  TypeOK'
  BY <1>14 DEF TimerFires, TypeOK
<1>15. CASE UNCHANGED vars
  BY <1>15 DEF vars, TypeOK
<1> QED
  BY <1>1, <1>2, <1>3, <1>4, <1>5, <1>6, <1>7, <1>8, <1>9, <1>10, <1>12, <1>13, <1>14,
     <1>15 DEF Next, Operation, WakeStep, RetainStep, Client

\* A step leaves every stored list with something in it, leaves nobody queued
\* on a list once the mutex is free, and goes through a queue only on behalf
\* of a client that is not blocked, for a key with nothing at it.
LEMMA ShapeStep ==
    ASSUME Shape, [Next]_vars
    PROVE  Shape'
PROOF
<1> DEFINE Rest == ListsNeverEmpty /\ NobodyWaitsOnAList /\ RetainingForIdle
<1>0. TypeOK'
  BY TypeStep
<1> SUFFICES Rest'
  BY <1>0 DEF Shape
<1>a. TypeOK /\ ListsNeverEmpty
  BY DEF Shape
\* An operation that turns nothing into a list and leaves the queues alone.
<1>b. ASSUME NEW k \in Keys, Kept(k), \A l \in Keys \ {k} : items'[l] = items[l]
      PROVE  ListsNeverEmpty'
  BY <1>a, <1>b DEF Kept, ListsNeverEmpty
<1>c. ASSUME NEW k \in Keys, Kept(k), waiters' = waiters, lock' = lock, lock = Free
      PROVE  NobodyWaitsOnAList' /\ RetainingForIdle'
  BY <1>c DEF Kept, Shape, NobodyWaitsOnAList, RetainingForIdle, Free, Wake, Retain
<1>1. ASSUME NEW k \in Keys, NEW exp \in {"never", "pending"}, Set(k, exp)
      PROVE  Rest'
  <2>1. Kept(k) /\ \A l \in Keys \ {k} : items'[l] = items[l]
    BY <1>1, <1>a, SetFacts DEF Drained
  <2> QED
    BY <1>1, <1>b, <1>c, <2>1 DEF Set
<1>2. ASSUME NEW k \in Keys, Look(k)
      PROVE  Rest'
  <2>1. Kept(k) /\ items' = items
    BY <1>2, <1>a, LookFacts DEF Look
  <2> QED
    BY <1>2, <1>b, <1>c, <2>1 DEF Look
<1>3. ASSUME NEW k \in Keys, NEW n \in 0 .. MaxBatch, Lpop(k, n)
      PROVE  Rest'
  <2>1. Kept(k) /\ \A l \in Keys \ {k} : items'[l] = items[l]
    BY <1>3, <1>a, LpopFacts DEF Drained
  <2> QED
    BY <1>3, <1>b, <1>c, <2>1 DEF Lpop
<1>4. ASSUME NEW k \in Keys, NEW b \in Batches, NEW side \in {"left", "right"},
             Push(k, b, side)
      PROVE  Rest'
  <2>1. CASE KindAt(k) = "string"
    BY <1>4, <2>1 DEF Push, Shape, ListsNeverEmpty, NobodyWaitsOnAList, RetainingForIdle
  <2>2. CASE KindAt(k) # "string"
    <3>1. /\ kind'[k] = "list" /\ expiry'[k] = "never" /\ items'[k] # << >>
          /\ \A l \in Keys \ {k} :
                kind'[l] = kind[l] /\ items'[l] = items[l] /\ expiry'[l] = expiry[l]
      BY <1>4, <1>a, <2>2, PushFacts
    <3>2. lock = Free /\ lock' = Wake(k) /\ waiters' = waiters
      BY <1>4, <2>2 DEF Push
    <3>3. ListsNeverEmpty'
      BY <3>1, <1>a DEF ListsNeverEmpty
    <3>4. NobodyWaitsOnAList'
      BY <3>1, <3>2 DEF Shape, NobodyWaitsOnAList, Free, Wake
    <3>5. RetainingForIdle'
      BY <3>2 DEF RetainingForIdle, Wake, Retain
    <3> QED
      BY <3>3, <3>4, <3>5
  <2> QED
    BY <2>1, <2>2
<1>5. ASSUME NEW k \in Keys, DeadlinePasses(k)
      PROVE  Rest'
  BY <1>5 DEF DeadlinePasses, Shape, TypeOK, ListsNeverEmpty, NobodyWaitsOnAList, RetainingForIdle
<1>6. ASSUME NEW k \in Keys, HandOver(k)
      PROVE  Rest'
  <2>1. lock = Wake(k) /\ lock' = lock /\ \A l \in Keys \ {k} : waiters'[l] = waiters[l]
    BY <1>6 DEF HandOver, TypeOK, Shape
  <2>2. RetainingForIdle'
    BY <2>1 DEF RetainingForIdle, Wake, Retain
  <2>3. CASE Head(waiters[k]) = Gone
    BY <1>6, <2>1, <2>2, <2>3 DEF HandOver, Shape, ListsNeverEmpty, NobodyWaitsOnAList
  <2>4. CASE Head(waiters[k]) # Gone
    <3>1. Kept(k) /\ \A l \in Keys \ {k} : items'[l] = items[l]
      BY <1>6, <1>a, <2>4, HandOverFacts DEF Drained
    <3>2. NobodyWaitsOnAList'
      BY <2>1, <3>1 DEF Kept, Shape, NobodyWaitsOnAList, Wake
    <3> QED
      BY <1>b, <2>2, <3>1, <3>2
  <2> QED
    BY <2>3, <2>4
<1>7. ASSUME NEW k \in Keys, WakeDone(k)
      PROVE  Rest'
  BY <1>7 DEF WakeDone, Shape, ListsNeverEmpty, NobodyWaitsOnAList, RetainingForIdle, Wake,
              Free, Retain
<1>8. ASSUME NEW k \in Keys, NEW c \in Clients, Blpop(c, k)
      PROVE  Rest'
  <2>1. Kept(k) /\ \A l \in Keys \ {k} : items'[l] = items[l]
    BY <1>8, <1>a, BlpopFacts DEF Drained
  <2>2. lock = Free /\ waiters' = waiters /\ pc' = pc /\ pc[c] = "idle"
    BY <1>8 DEF Blpop
  <2>3. CASE lock' = lock
    BY <1>b, <1>c, <2>1, <2>2, <2>3
  <2>4. CASE lock' = Retain(k, c, 1) /\ kind'[k] = "none"
    <3>1. NobodyWaitsOnAList'
      BY <2>1, <2>2, <2>4 DEF Kept, Shape, NobodyWaitsOnAList, Free, Wake, Retain
    <3>2. RetainingForIdle'
      BY <2>2, <2>4 DEF RetainingForIdle, Retain
    <3> QED
      BY <1>b, <2>1, <3>1, <3>2
  <2> QED
    BY <1>8, <1>a, <2>3, <2>4, BlpopFacts
<1>9. ASSUME NEW k \in Keys, NEW c \in Clients, NEW i \in 1 .. Len(waiters[k]) + 1,
             RetainNext(k, c, i)
      PROVE  Rest'
  <2>1. /\ kind' = kind /\ items' = items /\ expiry' = expiry /\ pc' = pc
        /\ lock = Retain(k, c, i) /\ \E j : lock' = Retain(k, c, j)
        /\ \A l \in Keys \ {k} : waiters'[l] = waiters[l]
    BY <1>9 DEF RetainNext, TypeOK, Shape
  <2>2. kind[k] = "none" /\ pc[c] = "idle"
    BY <2>1 DEF Shape, RetainingForIdle
  <2>3. NobodyWaitsOnAList'
    BY <2>1, <2>2 DEF Shape, NobodyWaitsOnAList, Wake, Retain
  <2>4. RetainingForIdle'
    BY <2>1, <2>2 DEF RetainingForIdle, Retain
  <2> QED
    BY <2>1, <2>3, <2>4, <1>a DEF ListsNeverEmpty
<1>10. ASSUME NEW k \in Keys, NEW c \in Clients, NEW i \in 1 .. Len(waiters[k]) + 1,
              Join(k, c, i)
       PROVE  Rest'
  <2>1. /\ kind' = kind /\ items' = items /\ expiry' = expiry
        /\ lock = Retain(k, c, i) /\ lock' = Free
        /\ \A l \in Keys \ {k} : waiters'[l] = waiters[l]
    BY <1>10 DEF Join, TypeOK, Shape
  <2>2. kind[k] = "none"
    BY <2>1 DEF Shape, RetainingForIdle
  <2>3. NobodyWaitsOnAList'
    BY <2>1, <2>2, Zenon DEF Shape, NobodyWaitsOnAList, Wake, Retain
  <2> QED
    BY <2>1, <2>3, <1>a DEF ListsNeverEmpty, RetainingForIdle, Free, Retain
<1>11. ASSUME NEW c \in Clients, Answered(c), kind' = kind, items' = items, expiry' = expiry,
              lock' = lock
       PROVE  Rest'
  <2>1. \A k \in Keys : waiters'[k] = ReplaceAll(waiters[k], c, Gone)
    BY <1>11 DEF Answered
  <2>2. \A k \in Keys : Len(waiters'[k]) = Len(waiters[k]) /\ (waiters[k] = << >> => waiters'[k] = << >>)
    BY <2>1, <1>a, ReplaceAllFacts DEF TypeOK
  <2>3. NobodyWaitsOnAList'
    BY <1>11, <2>2 DEF Shape, NobodyWaitsOnAList
  <2>4. \A d \in Clients : pc[d] = "idle" => pc'[d] = "idle"
    BY <1>11 DEF Answered, Shape, TypeOK
  <2>5. RetainingForIdle'
    BY <1>11, <2>2, <2>4 DEF Shape, RetainingForIdle
  <2> QED
    BY <1>11, <1>a, <2>3, <2>5 DEF ListsNeverEmpty
<1>12. ASSUME NEW c \in Clients, Receive(c) \/ GiveUp(c)
       PROVE  Rest'
  BY <1>11, <1>12 DEF Receive, GiveUp
<1>13. ASSUME NEW c \in Clients, TimerFires(c)
       PROVE  Rest'
  BY <1>13 DEF TimerFires, Shape, TypeOK, ListsNeverEmpty, NobodyWaitsOnAList, RetainingForIdle
<1>14. CASE UNCHANGED vars
  BY <1>14, Zenon DEF vars, Shape, ListsNeverEmpty, NobodyWaitsOnAList, RetainingForIdle
<1> QED
  BY <1>1, <1>2, <1>3, <1>4, <1>5, <1>6, <1>7, <1>8, <1>9, <1>10, <1>12, <1>13,
     <1>14 DEF Next, Operation, WakeStep, RetainStep, Client

\* An empty store has the shape.
LEMMA ShapeInit == Init => Shape
PROOF
<1> SUFFICES ASSUME Init PROVE Shape
  OBVIOUS
<1>1. TypeOK
  BY DEF Init, TypeOK
<1> QED
  BY <1>1 DEF Init, Shape, ListsNeverEmpty, NobodyWaitsOnAList, RetainingForIdle, Free, Retain

\* Every variable keeps to its type, a stored list is never empty, and once
\* the mutex is free no sender is queued on a key that holds a list.
THEOREM ShapeInvariant ==
    Spec => [](TypeOK /\ ListsInShape)
PROOF
<1>1. Spec => []Shape
  BY ShapeInit, ShapeStep, PTL DEF Spec
<1>2. Shape => TypeOK /\ ListsInShape
  BY DEF Shape, ListsInShape
<1> QED
  BY <1>1, <1>2, PTL

\* Every variable keeps to its type, for any clients, keys, elements and batch
\* size: the queues hold clients and senders left behind, the channels elements,
\* and every client is at some point of wait_for_element (Store in store/mod.rs).
THEOREM TypeInvariant ==
    Spec => []TypeOK
PROOF
  BY ShapeInvariant, PTL

-----------------------------------------------------------------------------
(* The line of clients.                                                    *)

InSomeLine(c) == \E k \in Keys : InLine(c, k)

InLineOnce ==
    \A k, l \in Keys : \A i \in DOMAIN waiters[k], j \in DOMAIN waiters[l] :
        waiters[k][i] = waiters[l][j] /\ waiters[k][i] # Gone => k = l /\ i = j

InLineWhileWaiting ==
    \A c \in Clients : InSomeLine(c) <=> (pc[c] # "idle" /\ slot[c] = NoElement)

\* A client that is not blocked has been sent nothing.
IdleHasNothing == \A c \in Clients : pc[c] = "idle" => slot[c] = NoElement

\* Of two clients in line for the same key, one joined before the other.
Ahead(d, c) ==
    \E k \in Keys : \E i, j \in DOMAIN waiters[k] :
        i < j /\ waiters[k][i] = d /\ waiters[k][j] = c

\* While the one that was there first has been sent nothing, it is still ahead.
LineOrder == \A p \in before : slot[p[1]] = NoElement => Ahead(p[1], p[2])

LineInv == Shape /\ InLineOnce /\ InLineWhileWaiting /\ IdleHasNothing /\ LineOrder

\* The sender at place n is taken out of the queue for k.
TakenOut(k, n) ==
    /\ n \in 1 .. Len(waiters[k])
    /\ DOMAIN waiters'[k] = 1 .. Len(waiters[k]) - 1
    /\ \A i \in 1 .. Len(waiters[k]) - 1 :
          waiters'[k][i] = IF i < n THEN waiters[k][i] ELSE waiters[k][i + 1]
    /\ \A l \in Keys \ {k} : waiters'[l] = waiters[l]

\* Taking one sender out keeps the others in line, once each and in order.
LEMMA TakenOutFacts ==
    ASSUME TypeOK, InLineOnce, NEW k \in Keys, NEW n, TakenOut(k, n),
           NEW w, w = waiters[k][n]
    PROVE  /\ InLineOnce'
           /\ \A c \in Clients \ {w} : InSomeLine(c)' <=> InSomeLine(c)
           /\ w # Gone => ~InSomeLine(w)'
           /\ \A c, d \in Clients \ {w} : Ahead(d, c) => Ahead(d, c)'
PROOF
<1>1. Len(waiters[k]) \in Nat /\ DOMAIN waiters[k] = 1 .. Len(waiters[k]) /\ n \in 1 .. Len(waiters[k])
  BY DEF TypeOK, TakenOut
\* Where the sender now at place i was before.
<1> DEFINE Was(l, i) == IF l = k /\ i >= n THEN i + 1 ELSE i
<1>2. ASSUME NEW l \in Keys, NEW i \in DOMAIN waiters'[l]
      PROVE  /\ Was(l, i) \in DOMAIN waiters[l]
             /\ waiters'[l][i] = waiters[l][Was(l, i)]
             /\ ~(l = k /\ Was(l, i) = n)
  <2>1. CASE l # k
    BY <1>2, <2>1 DEF TakenOut
  <2>2. CASE l = k
    <3>1. i \in 1 .. Len(waiters[k]) - 1
      BY <1>2, <2>2 DEF TakenOut
    <3> QED
      BY <1>1, <2>2, <3>1 DEF TakenOut
  <2> QED
    BY <2>1, <2>2
<1>3. ASSUME NEW l \in Keys, NEW j \in DOMAIN waiters[l], ~(l = k /\ j = n)
      PROVE  \E i \in DOMAIN waiters'[l] : Was(l, i) = j
  <2>1. CASE l = k /\ j > n
    <3>1. j - 1 \in DOMAIN waiters'[l] /\ Was(l, j - 1) = j
      BY <1>1, <1>3, <2>1 DEF TakenOut
    <3> QED
      BY <3>1
  <2>2. CASE ~(l = k /\ j > n)
    <3>1. j \in DOMAIN waiters'[l] /\ Was(l, j) = j
      BY <1>1, <1>3, <2>2 DEF TakenOut, TypeOK
    <3> QED
      BY <3>1
  <2> QED
    BY <2>1, <2>2
<1>4. ASSUME NEW l \in Keys, NEW i \in DOMAIN waiters'[l], NEW j \in DOMAIN waiters'[l]
      PROVE  /\ Was(l, i) = Was(l, j) => i = j
             /\ Was(l, i) < Was(l, j) => i < j
  BY <1>1, <1>4 DEF TakenOut, TypeOK
<1> HIDE DEF Was
<1>5. InLineOnce'
  BY <1>2, <1>4 DEF InLineOnce
<1>6. ASSUME NEW c \in Clients \ {w}
      PROVE  InSomeLine(c)' <=> InSomeLine(c)
  <2>1. ASSUME InSomeLine(c)' PROVE InSomeLine(c)
    BY <1>2, <2>1 DEF InSomeLine, InLine, Range
  <2>2. ASSUME InSomeLine(c) PROVE InSomeLine(c)'
    <3>0. PICK l \in Keys : \E j \in DOMAIN waiters[l] : waiters[l][j] = c
      BY <2>2 DEF InSomeLine, InLine, Range
    <3>1. PICK j \in DOMAIN waiters[l] : waiters[l][j] = c
      BY <3>0
    <3>2. PICK i \in DOMAIN waiters'[l] : Was(l, i) = j
      BY <1>3, <1>6, <3>1
    <3> QED
      BY <1>2, <3>1, <3>2 DEF InSomeLine, InLine, Range
  <2> QED
    BY <2>1, <2>2
<1>7. ASSUME w # Gone, InSomeLine(w)'
      PROVE  FALSE
  <2>0. PICK l \in Keys : \E i \in DOMAIN waiters'[l] : waiters'[l][i] = w
    BY <1>7 DEF InSomeLine, InLine, Range
  <2>1. PICK i \in DOMAIN waiters'[l] : waiters'[l][i] = w
    BY <2>0
  <2> QED
    BY <1>1, <1>2, <1>7, <2>1 DEF InLineOnce
<1>8. ASSUME NEW c \in Clients \ {w}, NEW d \in Clients \ {w}, Ahead(d, c)
      PROVE  Ahead(d, c)'
  <2>0. PICK l \in Keys : \E i, j \in DOMAIN waiters[l] :
           i < j /\ waiters[l][i] = d /\ waiters[l][j] = c
    BY <1>8 DEF Ahead
  <2>1. PICK i, j \in DOMAIN waiters[l] : i < j /\ waiters[l][i] = d /\ waiters[l][j] = c
    BY <2>0
  <2>2. PICK x, y \in DOMAIN waiters'[l] : Was(l, x) = i /\ Was(l, y) = j
    BY <1>3, <1>8, <2>1
  <2> QED
    BY <1>2, <1>4, <2>1, <2>2 DEF Ahead
<1> QED
  BY <1>5, <1>6, <1>7, <1>8

\* A step keeps every waiting client in line, once, behind those it found
\* there.
LEMMA LineStep ==
    ASSUME LineInv, [Next]_vars
    PROVE  LineInv'
PROOF
<1> DEFINE Rest == InLineOnce /\ InLineWhileWaiting /\ IdleHasNothing /\ LineOrder
<1>a. TypeOK /\ ListsNeverEmpty /\ RetainingForIdle /\ Rest
  BY DEF LineInv, Shape
<1>b. Shape' /\ TypeOK'
  BY ShapeStep DEF LineInv, Shape
<1> SUFFICES Rest'
  BY <1>b DEF LineInv
\* A step that leaves the line alone.
<1>1. ASSUME UNCHANGED <<waiters, slot, pc, before>>
      PROVE  Rest'
  BY <1>1, <1>a DEF InLineOnce, InLineWhileWaiting, IdleHasNothing, LineOrder, Ahead,
                    InSomeLine, InLine
<1>2. ASSUME NEW k \in Keys, HandOver(k)
      PROVE  Rest'
  <2>1. waiters[k] \in Seq(Clients \cup {Gone}) /\ waiters[k] # << >>
    BY <1>2, <1>a DEF HandOver, TypeOK
  <2>2. waiters' = [waiters EXCEPT ![k] = Tail(waiters[k])] /\ pc' = pc /\ before' = before
    BY <1>2 DEF HandOver
  <2>3. PICK w \in Clients \cup {Gone} : w = waiters[k][1] /\ w = Head(waiters[k])
    BY <2>1, TailFacts
  <2>4. TakenOut(k, 1)
    BY <2>1, <2>2, <1>a, TailFacts DEF TakenOut, TypeOK
  <2>5. /\ InLineOnce'
        /\ \A c \in Clients \ {w} : InSomeLine(c)' <=> InSomeLine(c)
        /\ w # Gone => ~InSomeLine(w)'
        /\ \A c, d \in Clients \ {w} : Ahead(d, c) => Ahead(d, c)'
    BY <1>a, <2>3, <2>4, TakenOutFacts
  <2>6. CASE w = Gone
    <3>1. slot' = slot /\ Gone \notin Clients /\ before \subseteq Clients \X Clients
      BY <1>2, <1>a, <2>3, <2>6, ConstantsAssumption DEF HandOver, TypeOK
    <3>2. InLineWhileWaiting' /\ IdleHasNothing'
      BY <1>a, <2>2, <2>5, <2>6, <3>1 DEF InLineWhileWaiting, IdleHasNothing
    <3>3. LineOrder'
      BY <1>a, <2>2, <2>5, <2>6, <3>1 DEF LineOrder
    <3> QED
      BY <2>5, <3>2, <3>3
  <2>7. CASE w # Gone
    <3>1. PICK e \in Elements : slot' = [slot EXCEPT ![w] = e]
      BY <1>2, <1>a, <2>3, <2>7, HandOverFacts
    <3>2. w \in Clients /\ e # NoElement
      BY <2>7, ConstantsAssumption
    <3>3. /\ slot'[w] = e
          /\ \A c \in Clients \ {w} : slot'[c] = slot[c]
      BY <1>a, <3>1, <3>2 DEF TypeOK
    <3>4. InLine(w, k)
      BY <2>1, <2>3 DEF InLine, Range
    <3>5. pc[w] # "idle"
      BY <1>a, <3>2, <3>4 DEF InLineWhileWaiting, InSomeLine
    <3>6. InLineWhileWaiting' /\ IdleHasNothing'
      BY <1>a, <2>2, <2>5, <2>7, <3>2, <3>3, <3>5, Zenon DEF InLineWhileWaiting, IdleHasNothing
    <3>7. ASSUME NEW d \in Clients PROVE ~Ahead(d, w)
      BY <1>a, <2>1, <2>3, <2>7 DEF Ahead, InLineOnce, TypeOK
    <3>8. LineOrder'
      <4>1. before \subseteq Clients \X Clients
        BY <1>a DEF TypeOK
      <4>2. SUFFICES ASSUME NEW p \in before, slot'[p[1]] = NoElement
                     PROVE  Ahead(p[1], p[2])'
        BY <2>2 DEF LineOrder
      <4>3. p[1] \in Clients /\ p[2] \in Clients /\ p[1] # w
        BY <4>1, <4>2, <3>2, <3>3
      <4>4. Ahead(p[1], p[2]) /\ p[2] # w
        BY <1>a, <4>2, <4>3, <3>3, <3>7 DEF LineOrder
      <4> QED
        BY <2>5, <4>3, <4>4
    <3> QED
      BY <2>5, <3>6, <3>8
  <2> QED
    BY <2>6, <2>7
<1>3. ASSUME NEW k \in Keys, NEW c \in Clients, NEW i \in 1 .. Len(waiters[k]) + 1,
             RetainNext(k, c, i)
      PROVE  Rest'
  <2>1. CASE waiters[k][i] # Gone
    BY <1>1, <1>3, <2>1 DEF RetainNext
  <2>2. CASE waiters[k][i] = Gone
    <3>1. /\ waiters' = [waiters EXCEPT ![k] = RemoveAt(waiters[k], i)]
          /\ slot' = slot /\ pc' = pc /\ before' = before
      BY <1>3, <2>2 DEF RetainNext
    <3>2. waiters[k] \in Seq(Clients \cup {Gone}) /\ i \in 1 .. Len(waiters[k])
      BY <1>3, <1>a DEF RetainNext, TypeOK
    <3>3. TakenOut(k, i)
      <4>1. waiters'[k] = RemoveAt(waiters[k], i) /\ \A l \in Keys \ {k} : waiters'[l] = waiters[l]
        BY <1>a, <3>1 DEF TypeOK
      <4>2. /\ DOMAIN RemoveAt(waiters[k], i) = 1 .. Len(waiters[k]) - 1
            /\ \A j \in 1 .. Len(waiters[k]) - 1 :
                  RemoveAt(waiters[k], i)[j] = IF j < i THEN waiters[k][j] ELSE waiters[k][j + 1]
        BY <3>2, RemoveAtFacts, Zenon
      <4> QED
        BY <3>2, <4>1, <4>2 DEF TakenOut
    <3>4. /\ InLineOnce'
          /\ \A d \in Clients : InSomeLine(d)' <=> InSomeLine(d)
          /\ \A b, d \in Clients : Ahead(d, b) => Ahead(d, b)'
      BY <1>a, <2>2, <3>3, TakenOutFacts, ConstantsAssumption
    <3>5. before \subseteq Clients \X Clients
      BY <1>a DEF TypeOK
    <3>6. InLineWhileWaiting' /\ IdleHasNothing'
      BY <1>a, <3>1, <3>4 DEF InLineWhileWaiting, IdleHasNothing
    <3>7. LineOrder'
      BY <1>a, <3>1, <3>4, <3>5 DEF LineOrder
    <3> QED
      BY <3>4, <3>6, <3>7
  <2> QED
    BY <2>1, <2>2
<1>4. ASSUME NEW k \in Keys, NEW c \in Clients, NEW i \in 1 .. Len(waiters[k]) + 1,
             Join(k, c, i)
      PROVE  Rest'
  <2>1. /\ waiters' = [waiters EXCEPT ![k] = Append(waiters[k], c)]
        /\ pc' = [pc EXCEPT ![c] = "blocked"] /\ slot' = slot
        /\ before' = before \cup {<<d, c>> : d \in {d \in Clients : InLine(d, k)}}
    BY <1>4 DEF Join
  <2>2. pc[c] = "idle" /\ slot[c] = NoElement /\ ~InSomeLine(c)
    BY <1>4, <1>a DEF Join, RetainingForIdle, IdleHasNothing, InLineWhileWaiting
  <2>3. waiters[k] \in Seq(Clients \cup {Gone}) /\ Len(waiters[k]) \in Nat
    BY <1>a DEF TypeOK
  <2>4. /\ DOMAIN waiters[k] = 1 .. Len(waiters[k])
        /\ DOMAIN waiters'[k] = 1 .. Len(waiters[k]) + 1
        /\ waiters'[k][Len(waiters[k]) + 1] = c
        /\ \A j \in 1 .. Len(waiters[k]) : waiters'[k][j] = waiters[k][j]
        /\ \A l \in Keys \ {k} : waiters'[l] = waiters[l]
    BY <1>a, <2>1, <2>3 DEF TypeOK
  <2>5. InLineOnce'
    <3>1. \A l \in Keys : \A j \in DOMAIN waiters[l] : waiters[l][j] # c
      BY <2>2 DEF InSomeLine, InLine, Range
    <3>2. SUFFICES ASSUME NEW l \in Keys, NEW m \in Keys,
                          NEW x \in DOMAIN waiters'[l], NEW y \in DOMAIN waiters'[m],
                          waiters'[l][x] = waiters'[m][y], waiters'[l][x] # Gone
                   PROVE  l = m /\ x = y
      BY DEF InLineOnce
    <3>3. \/ l = k /\ x = Len(waiters[k]) + 1 /\ waiters'[l][x] = c
          \/ x \in DOMAIN waiters[l] /\ waiters'[l][x] = waiters[l][x]
      BY <2>3, <2>4
    <3>4. \/ m = k /\ y = Len(waiters[k]) + 1 /\ waiters'[m][y] = c
          \/ y \in DOMAIN waiters[m] /\ waiters'[m][y] = waiters[m][y]
      BY <2>3, <2>4
    <3> QED
      BY <1>a, <3>1, <3>2, <3>3, <3>4 DEF InLineOnce
  <2>6. /\ InSomeLine(c)'
        /\ \A d \in Clients \ {c} : InSomeLine(d)' <=> InSomeLine(d)
    <3>1. InSomeLine(c)'
      BY <2>3, <2>4 DEF InSomeLine, InLine, Range
    <3>2. ASSUME NEW d \in Clients \ {c}, NEW l \in Keys
          PROVE  InLine(d, l)' <=> InLine(d, l)
      <4>1. CASE l # k
        BY <2>4, <4>1 DEF InLine
      <4>2. ASSUME l = k, InLine(d, k)'
            PROVE  InLine(d, k)
        <5>1. PICK x \in 1 .. Len(waiters[k]) + 1 : waiters'[k][x] = d
          BY <2>4, <4>2 DEF InLine, Range
        <5>2. x \in 1 .. Len(waiters[k])
          BY <2>3, <2>4, <5>1
        <5> QED
          BY <2>4, <5>1, <5>2 DEF InLine, Range
      <4>3. ASSUME l = k, InLine(d, k)
            PROVE  InLine(d, k)'
        <5>1. PICK x \in 1 .. Len(waiters[k]) : waiters[k][x] = d
          BY <2>4, <4>3 DEF InLine, Range
        <5>2. x \in DOMAIN waiters'[k] /\ waiters'[k][x] = d
          BY <2>3, <2>4, <5>1
        <5> QED
          BY <5>2 DEF InLine, Range
      <4> QED
        BY <4>1, <4>2, <4>3
    <3> QED
      BY <3>1, <3>2 DEF InSomeLine
  <2>7. InLineWhileWaiting' /\ IdleHasNothing'
    BY <1>a, <2>1, <2>2, <2>6, Zenon DEF InLineWhileWaiting, IdleHasNothing, TypeOK
  <2>8. ASSUME NEW d, NEW b, Ahead(d, b) PROVE Ahead(d, b)'
    <3>1. PICK l \in Keys : \E x, y \in DOMAIN waiters[l] :
             x < y /\ waiters[l][x] = d /\ waiters[l][y] = b
      BY <2>8 DEF Ahead
    <3>2. PICK x, y \in DOMAIN waiters[l] : x < y /\ waiters[l][x] = d /\ waiters[l][y] = b
      BY <3>1
    <3>3. /\ x \in DOMAIN waiters'[l] /\ waiters'[l][x] = d
          /\ y \in DOMAIN waiters'[l] /\ waiters'[l][y] = b
      BY <2>3, <2>4, <3>2
    <3> QED
      BY <3>2, <3>3 DEF Ahead
  <2>9. ASSUME NEW d \in Clients, InLine(d, k) PROVE Ahead(d, c)'
    <3>1. PICK j \in 1 .. Len(waiters[k]) : waiters[k][j] = d
      BY <2>4, <2>9 DEF InLine, Range
    <3>2. /\ j \in DOMAIN waiters'[k] /\ Len(waiters[k]) + 1 \in DOMAIN waiters'[k]
          /\ j < Len(waiters[k]) + 1
          /\ waiters'[k][j] = d /\ waiters'[k][Len(waiters[k]) + 1] = c
      BY <2>3, <2>4, <3>1
    <3> QED
      BY <3>2 DEF Ahead
  <2>10. LineOrder'
    BY <1>a, <2>1, <2>8, <2>9 DEF LineOrder
  <2> QED
    BY <2>5, <2>7, <2>10
<1>5. ASSUME NEW c \in Clients, Answered(c)
      PROVE  Rest'
  <2>1. /\ pc' = [pc EXCEPT ![c] = "idle"] /\ slot' = [slot EXCEPT ![c] = NoElement]
        /\ \A k \in Keys : waiters'[k] = ReplaceAll(waiters[k], c, Gone)
        /\ before' = {p \in before : p[1] # c /\ p[2] # c}
    BY <1>5 DEF Answered
  <2>2. \A k \in Keys : /\ DOMAIN waiters'[k] = DOMAIN waiters[k]
                        /\ \A i \in DOMAIN waiters[k] :
                              waiters'[k][i] = IF waiters[k][i] = c THEN Gone ELSE waiters[k][i]
    BY <1>a, <2>1, ReplaceAllFacts DEF TypeOK
  <2>3. InLineOnce'
    BY <1>a, <2>2 DEF InLineOnce
  <2>4. ~InSomeLine(c)' /\ \A d \in Clients \ {c} : InSomeLine(d)' <=> InSomeLine(d)
    <3>1. ASSUME NEW k \in Keys, NEW d \in Clients
          PROVE  InLine(d, k)' <=> d # c /\ InLine(d, k)
      BY <2>2, ConstantsAssumption DEF InLine, Range
    <3> QED
      BY <3>1 DEF InSomeLine
  <2>5. InLineWhileWaiting' /\ IdleHasNothing'
    BY <1>a, <2>1, <2>4 DEF InLineWhileWaiting, IdleHasNothing, TypeOK
  <2>6. \A d, b \in Clients \ {c} : Ahead(d, b) => Ahead(d, b)'
    BY <2>2 DEF Ahead
  <2>7. LineOrder'
    <3>1. before \subseteq Clients \X Clients
      BY <1>a DEF TypeOK
    <3>2. SUFFICES ASSUME NEW p \in before', slot'[p[1]] = NoElement
                   PROVE  Ahead(p[1], p[2])'
      BY DEF LineOrder
    <3>3. p \in before /\ p[1] \in Clients \ {c} /\ p[2] \in Clients \ {c}
      BY <2>1, <3>1, <3>2
    <3>4. Ahead(p[1], p[2])
      BY <1>a, <2>1, <3>2, <3>3 DEF LineOrder, TypeOK
    <3> QED
      BY <2>6, <3>3, <3>4
  <2> QED
    BY <2>3, <2>5, <2>7
<1>6. ASSUME NEW c \in Clients, TimerFires(c)
      PROVE  Rest'
  <2>1. /\ pc[c] = "blocked" /\ pc' = [pc EXCEPT ![c] = "late"]
        /\ waiters' = waiters /\ slot' = slot /\ before' = before
    BY <1>6 DEF TimerFires
  <2>2. \A d \in Clients : pc'[d] = "idle" <=> pc[d] = "idle"
    BY <1>a, <2>1 DEF TypeOK
  <2> QED
    BY <1>a, <2>1, <2>2 DEF InLineOnce, InLineWhileWaiting, IdleHasNothing, LineOrder,
                            Ahead, InSomeLine, InLine
<1>7. ASSUME NEW k \in Keys, Operation(k) \/ WakeDone(k)
      PROVE  Rest'
  BY <1>1, <1>7, Zenon DEF Operation, Set, Look, Lpop, Push, DeadlinePasses, WakeDone
<1>8. ASSUME NEW c \in Clients, Client(c)
      PROVE  Rest'
  BY <1>1, <1>5, <1>6, <1>8, Zenon DEF Client, Blpop, Receive, GiveUp
<1>9. CASE UNCHANGED vars
  BY <1>1, <1>9 DEF vars
<1> QED
  BY <1>2, <1>3, <1>4, <1>7, <1>8, <1>9 DEF Next, WakeStep, RetainStep

\* Nobody is in line at first.
LEMMA LineInit == Init => LineInv
    BY ShapeInit DEF Init, LineInv, InLineOnce, InLineWhileWaiting, IdleHasNothing, LineOrder,
                     InSomeLine, InLine, Range

\* The order of every line holds in every reachable state.
LEMMA LineInvariant == Spec => []LineInv
    BY LineInit, LineStep, PTL DEF Spec

\* A client is in line exactly while it is blocked and has been sent nothing,
\* and in line once.
THEOREM WaitersInvariant == Spec => []EachWaiterInLineOnce
PROOF
<1>1. LineInv => EachWaiterInLineOnce
  BY DEF LineInv, InLineOnce, InLineWhileWaiting, InSomeLine, EachWaiterInLineOnce
<1> QED
  BY <1>1, LineInvariant, PTL

\* Clients blocked on a key are served first come, first served.
THEOREM OrderInvariant == Spec => []ServedInOrder
PROOF
<1>1. ASSUME LineInv, NEW p \in before, slot[p[1]] = NoElement
      PROVE  slot[p[2]] = NoElement
  <2>1. p[2] \in Clients
    BY <1>1 DEF LineInv, Shape, TypeOK
  <2>2. Ahead(p[1], p[2])
    BY <1>1 DEF LineInv, LineOrder
  <2>3. InSomeLine(p[2])
    BY <2>2 DEF Ahead, InSomeLine, InLine, Range
  <2> QED
    BY <1>1, <2>1, <2>3 DEF LineInv, InLineWhileWaiting
<1>2. LineInv => ServedInOrder
  BY <1>1 DEF ServedInOrder
<1> QED
  BY <1>2, LineInvariant, PTL

-----------------------------------------------------------------------------
(* The elements.                                                           *)

StoredOnce ==
    \A k, l \in Keys : \A i \in DOMAIN items[k], j \in DOMAIN items[l] :
        items[k][i] = items[l][j] => k = l /\ i = j

InHandOnce ==
    \A c, d \in Clients : slot[c] = slot[d] /\ slot[c] # NoElement => c = d

\* What was pushed and is stored or in hand is owed to somebody.
HeldIsOwed == Stored \cup InHand \subseteq owed

ElementInv ==
    LineInv /\ StoredOnce /\ InHandOnce /\ Stored \cap InHand = {} /\ HeldIsOwed

\* Dropping the front of a list takes just those elements out of the store.
LEMMA DrainedFacts ==
    ASSUME TypeOK, StoredOnce, StoreTyped, NEW k \in Keys, NEW t, Drained(k, t)
    PROVE  StoredOnce' /\ Stored' = Stored \ FrontOf(k, t) /\ FrontOf(k, t) \subseteq Stored
PROOF
<1> DEFINE Was(l, i) == IF l = k THEN i + t ELSE i
<1>1. /\ items \in [Keys -> Seq(Elements)] /\ items' \in [Keys -> Seq(Elements)]
      /\ Len(items[k]) \in Nat /\ t \in 0 .. Len(items[k])
      /\ DOMAIN items[k] = 1 .. Len(items[k])
      /\ DOMAIN items'[k] = 1 .. Len(items[k]) - t
  BY DEF TypeOK, StoreTyped, Drained
<1>2. ASSUME NEW l \in Keys, NEW i \in DOMAIN items'[l]
      PROVE  /\ Was(l, i) \in DOMAIN items[l]
             /\ items'[l][i] = items[l][Was(l, i)]
             /\ l = k => Was(l, i) > t
  BY <1>1, <1>2 DEF Drained
<1>3. ASSUME NEW l \in Keys, NEW j \in DOMAIN items[l], l = k => j > t
      PROVE  \E i \in DOMAIN items'[l] : Was(l, i) = j
  <2>1. CASE l = k
    <3>1. j - t \in DOMAIN items'[l] /\ Was(l, j - t) = j
      BY <1>1, <1>3, <2>1
    <3> QED
      BY <3>1
  <2>2. CASE l # k
    BY <1>3, <2>2 DEF Drained
  <2> QED
    BY <2>1, <2>2
<1>4. ASSUME NEW l \in Keys, NEW i \in DOMAIN items'[l], NEW j \in DOMAIN items'[l],
             Was(l, i) = Was(l, j)
      PROVE  i = j
  BY <1>1, <1>4 DEF Drained
<1> HIDE DEF Was
<1>5. StoredOnce'
  BY <1>2, <1>4 DEF StoredOnce
<1>6. ASSUME NEW x
      PROVE  /\ x \in Stored <=> \E l \in Keys : \E i \in DOMAIN items[l] : items[l][i] = x
             /\ x \in Stored' <=> \E l \in Keys : \E i \in DOMAIN items'[l] : items'[l][i] = x
             /\ x \in FrontOf(k, t) <=> \E i \in DOMAIN items[k] : i <= t /\ items[k][i] = x
  <2>1. x \in Stored <=> \E l \in Keys : \E i \in DOMAIN items[l] : items[l][i] = x
    BY DEF Stored, Range
  <2>2. x \in Stored' <=> \E l \in Keys : \E i \in DOMAIN items'[l] : items'[l][i] = x
    BY DEF Stored, Range
  <2>3. x \in FrontOf(k, t) <=> \E i \in DOMAIN items[k] : i <= t /\ items[k][i] = x
    <3>1. \A i : i \in 1 .. t <=> i \in DOMAIN items[k] /\ i <= t
      BY <1>1
    <3> QED
      BY <3>1 DEF FrontOf
  <2> QED
    BY <2>1, <2>2, <2>3
<1>7. ASSUME NEW x \in Stored' PROVE x \in Stored \ FrontOf(k, t)
  <2>1. PICK l \in Keys : \E i \in DOMAIN items'[l] : items'[l][i] = x
    BY <1>6, <1>7
  <2>2. PICK i \in DOMAIN items'[l] : items'[l][i] = x
    BY <2>1
  <2>3. Was(l, i) \in DOMAIN items[l] /\ items[l][Was(l, i)] = x /\ (l = k => Was(l, i) > t)
    BY <1>2, <2>2
  <2>4. x \in Stored
    BY <1>6, <2>3
  <2>5. ASSUME NEW j \in DOMAIN items[k], j <= t, items[k][j] = x PROVE FALSE
    <3>1. l = k /\ j = Was(l, i)
      BY <2>3, <2>5 DEF StoredOnce
    <3> QED
      BY <1>1, <2>3, <2>5, <3>1
  <2> QED
    BY <1>6, <2>4, <2>5
<1>8. ASSUME NEW x \in Stored, x \notin FrontOf(k, t) PROVE x \in Stored'
  <2>1. PICK l \in Keys : \E j \in DOMAIN items[l] : items[l][j] = x
    BY <1>6, <1>8
  <2>2. PICK j \in DOMAIN items[l] : items[l][j] = x
    BY <2>1
  <2>3. l = k => j > t
    BY <1>1, <1>6, <1>8, <2>2
  <2>4. PICK i \in DOMAIN items'[l] : Was(l, i) = j
    BY <1>3, <2>2, <2>3
  <2> QED
    BY <1>2, <1>6, <2>2, <2>4
<1>9. FrontOf(k, t) \subseteq Stored
  BY <1>6
<1> QED
  BY <1>5, <1>7, <1>8, <1>9

\* A sequence in which no element comes twice.
Once(q) == \A i, j \in DOMAIN q : q[i] = q[j] => i = j

\* Two such sequences with nothing in common make another.
LEMMA ConcatOnce ==
    ASSUME NEW S, NEW s \in Seq(S), NEW t \in Seq(S), Once(s), Once(t),
           Range(s) \cap Range(t) = {}
    PROVE  Once(s \o t) /\ Range(s \o t) = Range(s) \cup Range(t)
PROOF
<1>1. PICK u \in Seq(S) : u = s \o t
  BY ConcatFacts, Zenon
<1>2. /\ DOMAIN u = 1 .. Len(s) + Len(t) /\ Len(s) \in Nat /\ Len(t) \in Nat
      /\ DOMAIN s = 1 .. Len(s) /\ DOMAIN t = 1 .. Len(t)
  BY <1>1, ConcatFacts
<1>3. /\ \A i \in DOMAIN u : \/ i \in DOMAIN s /\ u[i] = s[i]
                             \/ i - Len(s) \in DOMAIN t /\ u[i] = t[i - Len(s)]
      /\ \A i \in DOMAIN s : i \in DOMAIN u /\ u[i] = s[i]
      /\ \A i \in DOMAIN t : i + Len(s) \in DOMAIN u /\ u[i + Len(s)] = t[i]
  BY <1>1, ConcatFacts
<1>4. \A i \in DOMAIN s, j \in DOMAIN t : s[i] # t[j]
  BY Zenon DEF Range
<1>5. ASSUME NEW i \in DOMAIN u, NEW j \in DOMAIN u, u[i] = u[j]
      PROVE  i = j
  <2>1. CASE i \in DOMAIN s /\ u[i] = s[i] /\ j \in DOMAIN s /\ u[j] = s[j]
    BY <1>5, <2>1, Zenon DEF Once
  <2>2. CASE /\ i - Len(s) \in DOMAIN t /\ u[i] = t[i - Len(s)]
             /\ j - Len(s) \in DOMAIN t /\ u[j] = t[j - Len(s)]
    <3>1. i - Len(s) = j - Len(s)
      BY <1>5, <2>2, Zenon DEF Once
    <3> QED
      BY <1>2, <3>1
  <2> QED
    BY <1>3, <1>4, <1>5, <2>1, <2>2
<1>6. Range(u) = Range(s) \cup Range(t)
  <2>1. Range(u) \subseteq Range(s) \cup Range(t)
    BY <1>3 DEF Range
  <2>2. ASSUME NEW x \in Range(s) PROVE x \in Range(u)
    <3>1. PICK i \in DOMAIN s : x = s[i]
      BY <2>2 DEF Range
    <3> QED
      BY <1>3, <3>1 DEF Range
  <2>3. ASSUME NEW x \in Range(t) PROVE x \in Range(u)
    <3>1. PICK i \in DOMAIN t : x = t[i]
      BY <2>3 DEF Range
    <3>2. i + Len(s) \in DOMAIN u /\ u[i + Len(s)] = x
      BY <1>3, <3>1
    <3> QED
      BY <3>2 DEF Range
  <2> QED
    BY <2>1, <2>2, <2>3
<1> QED
  BY <1>1, <1>5, <1>6 DEF Once

\* No element is stored twice when no list holds one twice and no two lists
\* have one in common.
LEMMA OnceByList ==
    ASSUME NEW f
    PROVE  (\A k, l \in Keys : \A i \in DOMAIN f[k], j \in DOMAIN f[l] :
                f[k][i] = f[l][j] => k = l /\ i = j)
           <=> /\ \A k \in Keys : Once(f[k])
               /\ \A k, l \in Keys : k # l => Range(f[k]) \cap Range(f[l]) = {}
PROOF
<1> DEFINE O == \A k, l \in Keys : \A i \in DOMAIN f[k], j \in DOMAIN f[l] :
                   f[k][i] = f[l][j] => k = l /\ i = j
<1>1. ASSUME O, NEW k \in Keys, NEW l \in Keys, k # l
      PROVE  Range(f[k]) \cap Range(f[l]) = {}
  BY <1>1 DEF Range
<1>2. ASSUME O, NEW k \in Keys
      PROVE  Once(f[k])
  BY <1>2 DEF Once
<1>3. ASSUME \A k \in Keys : Once(f[k]),
             \A k, l \in Keys : k # l => Range(f[k]) \cap Range(f[l]) = {},
             NEW k \in Keys, NEW l \in Keys, NEW i \in DOMAIN f[k], NEW j \in DOMAIN f[l],
             f[k][i] = f[l][j]
      PROVE  k = l /\ i = j
  <2>1. f[k][i] \in Range(f[k]) /\ f[l][j] \in Range(f[l])
    BY DEF Range
  <2>2. k = l
    BY <1>3, <2>1
  <2> QED
    BY <1>3, <2>2 DEF Once
<1> QED
  BY <1>1, <1>2, <1>3

\* A push adds just the elements of its batch.
LEMMA PushedFacts ==
    ASSUME TypeOK, ListsNeverEmpty, StoredOnce, Stored \subseteq owed, NEW k \in Keys,
           NEW b \in Batches, NEW side \in {"left", "right"}, Push(k, b, side),
           KindAt(k) # "string"
    PROVE  StoredOnce' /\ Stored' = Stored \cup Range(b) /\ Range(b) \cap owed = {}
PROOF
<1>0. items[k] \in Seq(Elements)
  BY DEF TypeOK
<1>1. /\ items[k] \in Seq(Elements) /\ b \in Seq(Elements)
      /\ \A l \in Keys \ {k} : items'[l] = items[l]
  BY <1>0, PushFacts
<1>2. PICK new \in Seq(Elements) :
         /\ Len(new) = Len(b)
         /\ \A i \in 1 .. Len(b) : \E j \in 1 .. Len(b) : new[i] = b[j]
         /\ \A i \in 1 .. Len(b) : \E j \in 1 .. Len(b) : new[j] = b[i]
         /\ \A i, j \in 1 .. Len(b) : new[i] = new[j] => i = j
         /\ items'[k] = items[k] \o new \/ items'[k] = new \o items[k]
  BY PushFacts, Zenon
<1>3. DOMAIN b = 1 .. Len(b) /\ DOMAIN new = 1 .. Len(b)
  BY <1>1, <1>2
<1>4. Range(b) \cap owed = {}
  <2>1. PICK n \in 1 .. MaxBatch : b \in [1 .. n -> Elements \ owed]
    BY DEF Batches
  <2> QED
    BY <2>1 DEF Range
<1>5. Range(new) = Range(b)
  <2>1. ASSUME NEW x \in Range(new) PROVE x \in Range(b)
    <3>1. PICK i \in 1 .. Len(b) : x = new[i]
      BY <1>3, <2>1 DEF Range
    <3>2. PICK j \in 1 .. Len(b) : new[i] = b[j]
      BY <1>2
    <3> QED
      BY <1>3, <3>1, <3>2 DEF Range
  <2>2. ASSUME NEW x \in Range(b) PROVE x \in Range(new)
    <3>1. PICK i \in 1 .. Len(b) : x = b[i]
      BY <1>3, <2>2 DEF Range
    <3>2. PICK j \in 1 .. Len(b) : new[j] = b[i]
      BY <1>2
    <3> QED
      BY <1>3, <3>1, <3>2 DEF Range
  <2> QED
    BY <2>1, <2>2, Zenon
<1>6. \A l \in Keys : Range(items[l]) \subseteq Stored /\ Range(items[l]) \cap Range(b) = {}
  BY <1>4 DEF Stored
<1>7. Once(new) /\ Once(items[k])
  BY <1>2, <1>3, OnceByList DEF Once, StoredOnce
<1>8. Once(items'[k]) /\ Range(items'[k]) = Range(items[k]) \cup Range(b)
  <2>1. Range(items[k]) \cap Range(new) = {} /\ Range(new) \cap Range(items[k]) = {}
    BY <1>5, <1>6
  <2>2. Once(items[k] \o new) /\ Range(items[k] \o new) = Range(items[k]) \cup Range(new)
    BY <1>0, <1>7, <2>1, ConcatOnce, SMTT(30)
  <2>3. Once(new \o items[k]) /\ Range(new \o items[k]) = Range(new) \cup Range(items[k])
    BY <1>0, <1>7, <2>1, ConcatOnce, SMTT(30)
  <2>4. CASE items'[k] = items[k] \o new
    BY <1>5, <2>2, <2>4
  <2>5. CASE items'[k] = new \o items[k]
    BY <1>5, <2>3, <2>5
  <2> QED
    BY <1>2, <2>4, <2>5, Zenon
<1>9. StoredOnce'
  <2>1. \A l \in Keys : Once(items'[l])
    BY <1>1, <1>8, OnceByList DEF StoredOnce
  <2>2. ASSUME NEW l \in Keys, NEW m \in Keys, l # m
        PROVE  Range(items'[l]) \cap Range(items'[m]) = {}
    <3>1. Range(items[l]) \cap Range(items[m]) = {}
      BY <2>2, OnceByList, Zenon DEF StoredOnce
    <3>2. \A x \in Keys : items'[x] = items[x] \/ x = k
      BY <1>1
    <3> QED
      BY <1>6, <1>8, <2>2, <3>1, <3>2
  <2>3. PICK f : f = items'
    OBVIOUS
  <2> QED
    BY <2>1, <2>2, <2>3, OnceByList, Zenon DEF StoredOnce
<1>10. Stored' = Stored \cup Range(b)
  BY <1>1, <1>8 DEF Stored
<1> QED
  BY <1>4, <1>9, <1>10

\* A step that only takes elements out of the store, and owes them no more.
LEMMA TakenElements ==
    ASSUME ElementInv, NEW k \in Keys, NEW t, StoreTyped, Drained(k, t), slot' = slot,
           owed' = owed \ FrontOf(k, t)
    PROVE  /\ StoredOnce' /\ InHandOnce' /\ (Stored \cap InHand = {})' /\ HeldIsOwed'
           /\ Lost' \subseteq Lost
PROOF
<1>1. StoredOnce' /\ Stored' = Stored \ FrontOf(k, t) /\ FrontOf(k, t) \subseteq Stored
  BY DrainedFacts DEF ElementInv, LineInv, Shape
<1>2. InHand' = InHand /\ InHandOnce'
  BY DEF ElementInv, InHand, InHandOnce
<1> QED
  BY <1>1, <1>2 DEF ElementInv, HeldIsOwed, Lost

\* A step keeps every element in one place, and loses none unless a client
\* drops its receiver with an element already in it.
LEMMA ElementStep ==
    ASSUME ElementInv, [Next]_vars
    PROVE  /\ ElementInv'
           /\ Lost' \subseteq Lost \cup InLateHands
PROOF
<1> DEFINE Rest == StoredOnce /\ InHandOnce /\ Stored \cap InHand = {} /\ HeldIsOwed
           Lossless == Lost' \subseteq Lost
<1>a. TypeOK /\ ListsNeverEmpty /\ LineInv /\ Rest
  BY DEF ElementInv, LineInv, Shape
<1>b. LineInv'
  BY LineStep DEF ElementInv
<1> SUFFICES Rest' /\ Lost' \subseteq Lost \cup InLateHands
  BY <1>b DEF ElementInv
\* A step that moves no element.
<1>1. ASSUME UNCHANGED <<items, slot, owed>>
      PROVE  Rest' /\ Lossless
  BY <1>1, <1>a DEF StoredOnce, InHandOnce, Stored, InHand, HeldIsOwed, Lost
<1>2. ASSUME NEW k \in Keys, NEW exp \in {"never", "pending"}, Set(k, exp)
      PROVE  Rest' /\ Lossless
  <2>1. slot' = slot
    BY <1>2 DEF Set
  <2> QED
    BY <1>2, <1>a, <2>1, SetFacts, TakenElements
<1>3. ASSUME NEW k \in Keys, Look(k)
      PROVE  Rest' /\ Lossless
  BY <1>1, <1>3, <1>a, LookFacts DEF Look
<1>4. ASSUME NEW k \in Keys, NEW n \in 0 .. MaxBatch, Lpop(k, n)
      PROVE  Rest' /\ Lossless
  <2>1. slot' = slot
    BY <1>4 DEF Lpop
  <2> QED
    BY <1>4, <1>a, <2>1, LpopFacts, TakenElements
<1>5. ASSUME NEW k \in Keys, NEW b \in Batches, NEW side \in {"left", "right"},
             Push(k, b, side)
      PROVE  Rest' /\ Lossless
  <2>1. CASE KindAt(k) = "string"
    BY <1>1, <1>5, <2>1 DEF Push
  <2>2. CASE KindAt(k) # "string"
    <3>1. StoredOnce' /\ Stored' = Stored \cup Range(b) /\ Range(b) \cap owed = {}
      BY <1>5, <1>a, <2>2, PushedFacts DEF HeldIsOwed
    <3>2. slot' = slot /\ owed' = owed \cup Range(b)
      BY <1>5, <2>2 DEF Push
    <3>3. InHand' = InHand /\ InHandOnce'
      BY <1>a, <3>2 DEF InHand, InHandOnce
    <3> QED
      BY <1>a, <3>1, <3>2, <3>3 DEF HeldIsOwed, Lost
  <2> QED
    BY <2>1, <2>2
<1>6. ASSUME NEW k \in Keys, HandOver(k)
      PROVE  Rest' /\ Lossless
  <2>1. CASE Head(waiters[k]) = Gone
    BY <1>1, <1>6, <2>1 DEF HandOver
  <2>2. CASE Head(waiters[k]) # Gone
    <3>1. waiters[k] \in Seq(Clients \cup {Gone}) /\ waiters[k] # << >>
      BY <1>6, <1>a DEF HandOver, TypeOK
    <3>2. PICK w \in Clients : w = Head(waiters[k]) /\ InLine(w, k)
      BY <2>2, <3>1 DEF InLine, Range
    <3>3. slot[w] = NoElement
      BY <1>a, <3>2 DEF LineInv, InLineWhileWaiting, InSomeLine
    <3>4. /\ StoreTyped /\ Drained(k, 1) /\ items[k][1] \in Elements
          /\ slot' = [slot EXCEPT ![w] = items[k][1]] /\ owed' = owed
      BY <1>6, <1>a, <2>2, <3>2, HandOverFacts, Zenon DEF HandOver
    <3>5. /\ StoredOnce' /\ Stored' = Stored \ {items[k][1]} /\ items[k][1] \in Stored
      <4>1. FrontOf(k, 1) = {items[k][1]}
        BY DEF FrontOf
      <4> QED
        BY <1>a, <3>4, <4>1, DrainedFacts
    <3>6. items[k][1] # NoElement /\ items[k][1] \notin InHand
      BY <1>a, <3>4, <3>5, ConstantsAssumption
    <3>7. /\ slot'[w] = items[k][1]
          /\ \A c \in Clients \ {w} : slot'[c] = slot[c]
      BY <1>a, <3>2, <3>4 DEF TypeOK
    <3>8. InHand' = InHand \cup {items[k][1]}
      BY <3>2, <3>3, <3>6, <3>7 DEF InHand
    <3>9. InHandOnce'
      BY <1>a, <3>2, <3>6, <3>7 DEF InHandOnce, InHand
    <3> QED
      BY <1>a, <3>4, <3>5, <3>6, <3>8, <3>9 DEF HeldIsOwed, Lost
  <2> QED
    BY <2>1, <2>2
<1>7. ASSUME NEW k \in Keys, NEW c \in Clients, Blpop(c, k)
      PROVE  Rest' /\ Lossless
  <2>1. slot' = slot
    BY <1>7 DEF Blpop
  <2> QED
    BY <1>7, <1>a, <2>1, BlpopFacts, TakenElements
\* A client that is answered or gives up lets go of what is in its hand.
<1>8. ASSUME NEW c \in Clients, slot' = [slot EXCEPT ![c] = NoElement]
      PROVE  InHandOnce' /\ InHand' = InHand \ {slot[c]}
  <2>1. slot'[c] = NoElement /\ \A d \in Clients \ {c} : slot'[d] = slot[d]
    BY <1>8, <1>a DEF TypeOK
  <2>2. InHandOnce'
    BY <1>a, <2>1, Zenon DEF InHandOnce
  <2>3. \A d \in Clients \ {c} : slot[d] # slot[c] \/ slot[d] = NoElement
    BY <1>a DEF InHandOnce
  <2> QED
    BY <2>1, <2>2, <2>3 DEF InHand
<1>9. ASSUME NEW c \in Clients, Receive(c)
      PROVE  Rest' /\ Lossless
  <2>1. /\ items' = items /\ slot' = [slot EXCEPT ![c] = NoElement]
        /\ owed' = owed \ {slot[c]} /\ slot[c] # NoElement
    BY <1>9 DEF Receive, Answered
  <2>2. Stored' = Stored /\ StoredOnce' /\ slot[c] \in InHand
    BY <1>a, <2>1 DEF Stored, StoredOnce, InHand
  <2> QED
    BY <1>8, <1>a, <2>1, <2>2, Zenon DEF HeldIsOwed, Lost
<1>10. ASSUME NEW c \in Clients, GiveUp(c)
       PROVE  Rest' /\ Lost' \subseteq Lost \cup InLateHands
  <2>1. items' = items /\ slot' = [slot EXCEPT ![c] = NoElement] /\ owed' = owed
    BY <1>10 DEF GiveUp, Answered
  <2>2. Stored' = Stored /\ StoredOnce'
    BY <1>a, <2>1 DEF Stored, StoredOnce
  <2>3. slot[c] \in InLateHands
    BY <1>10 DEF GiveUp, InLateHands
  <2> QED
    BY <1>8, <1>a, <2>1, <2>2, <2>3, Zenon DEF HeldIsOwed, Lost
<1>11. ASSUME NEW k \in Keys, DeadlinePasses(k) \/ WakeDone(k)
       PROVE  Rest' /\ Lossless
  BY <1>1, <1>11 DEF DeadlinePasses, WakeDone
<1>12. CASE RetainStep
  BY <1>1, <1>12, Zenon DEF RetainStep, RetainNext, Join
<1>13. ASSUME NEW c \in Clients, TimerFires(c)
       PROVE  Rest' /\ Lossless
  BY <1>1, <1>13 DEF TimerFires
<1>14. CASE UNCHANGED vars
  BY <1>1, <1>14 DEF vars
<1>15. ASSUME Lossless PROVE Lost' \subseteq Lost \cup InLateHands
  BY <1>15
<1> HIDE DEF Rest, Lossless
<1> QED
  BY <1>2, <1>3, <1>4, <1>5, <1>6, <1>7, <1>9, <1>10, <1>11, <1>12, <1>13, <1>14, <1>15
  DEF Next, Operation, WakeStep, Client

\* There are no elements at first.
LEMMA ElementInit == Init => ElementInv /\ NoElementLost
PROOF
<1>1. Init => Stored = {} /\ InHand = {} /\ StoredOnce /\ InHandOnce
  BY DEF Init, Stored, InHand, StoredOnce, InHandOnce, Range
<1> QED
  BY LineInit, <1>1 DEF Init, ElementInv, HeldIsOwed, NoElementLost, Lost

\* No element is ever in two places, timeouts or not.
THEOREM ElementsInvariant == Spec => []NoElementTwice
PROOF
<1>1. Spec => []ElementInv
  BY ElementInit, ElementStep, PTL DEF Spec
<1>2. ElementInv => NoElementTwice
  BY DEF ElementInv, StoredOnce, InHandOnce, NoElementTwice
<1> QED
  BY <1>1, <1>2, PTL

\* No step loses an element, but for those sent to clients whose timers had
\* already fired, which are dropped with their receivers.
THEOREM OnlyLateLose == Spec => LostOnlyToLate
PROOF
<1>1. Spec => []ElementInv
  BY ElementInit, ElementStep, PTL DEF Spec
<1>2. ElementInv /\ [Next]_vars => [Lost' \subseteq Lost \cup InLateHands]_vars
  BY ElementStep
<1> QED
  BY <1>1, <1>2, PTL DEF Spec, LostOnlyToLate

\* Where no client gives a timeout, no element is ever lost: each one pushed
\* is stored or on its way until it is answered or overwritten.
THEOREM NothingLost ==
    ASSUME Impatient = {}
    PROVE  Spec => []NoElementLost
PROOF
<1> DEFINE Patient == \A c \in Clients : pc[c] # "late"
           Inv == ElementInv /\ NoElementLost /\ Patient
<1>1. Init => Inv
  BY ElementInit DEF Init
<1>2. ASSUME Inv, [Next]_vars
      PROVE  Inv'
  <2>1. ElementInv' /\ NoElementLost'
    BY <1>2, ElementStep DEF NoElementLost, InLateHands
  <2>2. pc \in [Clients -> {"idle", "blocked", "late"}]
    BY <1>2 DEF ElementInv, LineInv, Shape, TypeOK
  <2>3. Patient'
    BY <1>2, <2>2, Zenon DEF Next, Operation, WakeStep, RetainStep, Client, Set, Look, Lpop, Push,
         DeadlinePasses, HandOver, WakeDone, Blpop, RetainNext, Join, Receive, TimerFires,
         GiveUp, Answered, vars
  <2> QED
    BY <2>1, <2>3
<1>3. Inv => NoElementLost
  OBVIOUS
<1> HIDE DEF Inv
<1> QED
  BY <1>1, <1>2, <1>3, PTL DEF Spec

-----------------------------------------------------------------------------
(* The length of the queues.                                               *)

\* Every sender that retain has been past can be given a client of its own,
\* not the one about to join: its client where it is open, and one that has
\* gone idle where it was dropped since.
Owner(k, c, i, f) ==
    /\ f \in Injection(1 .. i - 1, Clients \ {c})
    /\ \A j \in 1 .. i - 1 :
          IF waiters[k][j] = Gone THEN pc[f[j]] = "idle" ELSE f[j] = waiters[k][j]

EachHasItsOwner ==
    \A k \in Keys, c \in Clients : \A i \in 1 .. Len(waiters[k]) + 1 :
        lock = Retain(k, c, i) => \E f : Owner(k, c, i, f)

PileInv == LineInv /\ NoPileUp /\ EachHasItsOwner

\* A queue that retain is through with has room for one more.
LEMMA RoomForOne ==
    ASSUME NEW k \in Keys, NEW c \in Clients, NEW n \in Nat, NEW f, Owner(k, c, n + 1, f)
    PROVE  n + 1 <= Cardinality(Clients)
<1>1. IsFiniteSet(Clients \ {c}) /\ Cardinality(Clients \ {c}) = Cardinality(Clients) - 1
      /\ Cardinality(Clients) \in Nat
  BY ConstantsAssumption, FS_RemoveElement, FS_CardinalityType
<1>2. f \in Injection(1 .. n, Clients \ {c})
  <2>1. (n + 1) - 1 = n
    OBVIOUS
  <2> QED BY <2>1 DEF Owner
<1>3. Cardinality(1 .. n) <= Cardinality(Clients \ {c})
  BY <1>1, <1>2, FS_Injection
<1>4. Cardinality(1 .. n) = IF 1 > n THEN 0 ELSE n - 1 + 1
  BY FS_Interval
<1> QED BY <1>1, <1>3, <1>4

\* A sender that retain keeps is its client's only one, and not the caller's.
LEMMA OneMoreOwner ==
    ASSUME LineInv, NEW k \in Keys, NEW c \in Clients, NEW i \in 1 .. Len(waiters[k]),
           lock = Retain(k, c, i), waiters[k][i] # Gone, NEW f, Owner(k, c, i, f)
    PROVE  \E g : Owner(k, c, i + 1, g)
<1> DEFINE d == waiters[k][i]
           g == [j \in 1 .. i |-> IF j = i THEN d ELSE f[j]]
<1>1. /\ waiters[k] \in Seq(Clients \cup {Gone}) /\ Len(waiters[k]) \in Nat
      /\ DOMAIN waiters[k] = 1 .. Len(waiters[k]) /\ i \in Nat /\ i >= 1
  BY DEF LineInv, Shape, TypeOK
<1>2. d \in Clients /\ InSomeLine(d)
  BY <1>1 DEF InSomeLine, InLine, Range
<1>3. pc[d] # "idle" /\ pc[c] = "idle"
  <2>1. i \in 1 .. Len(waiters[k]) + 1
    BY <1>1
  <2> QED BY <1>2, <2>1 DEF LineInv, Shape, InLineWhileWaiting, RetainingForIdle
<1>4. f \in [1 .. i - 1 -> Clients \ {c}] /\ \A a, b \in 1 .. i - 1 : f[a] = f[b] => a = b
  BY DEF Owner, Injection, IsInjective
<1>5. \A j \in 1 .. i - 1 : f[j] # d
  <2> SUFFICES ASSUME NEW j \in 1 .. i - 1, f[j] = d PROVE FALSE
    OBVIOUS
  <2>1. waiters[k][j] # Gone => f[j] = waiters[k][j]
    BY DEF Owner
  <2>2. waiters[k][j] = Gone => pc[f[j]] = "idle"
    BY DEF Owner
  <2>3. waiters[k][j] = waiters[k][i] /\ waiters[k][j] # Gone
    BY <1>3, <2>1, <2>2
  <2>4. j \in DOMAIN waiters[k] /\ i \in DOMAIN waiters[k] /\ j # i
    BY <1>1
  <2> QED BY <2>3, <2>4 DEF LineInv, InLineOnce
<1>6. g \in [1 .. i -> Clients \ {c}]
  BY <1>1, <1>2, <1>3, <1>4
<1>7. \A a, b \in 1 .. i : g[a] = g[b] => a = b
  BY <1>1, <1>4, <1>5
<1>8. g \in Injection(1 .. i, Clients \ {c})
  <2> HIDE DEF g
  <2> QED BY <1>6, <1>7 DEF Injection, IsInjective
<1>9. ASSUME NEW j \in 1 .. i
      PROVE  IF waiters[k][j] = Gone THEN pc[g[j]] = "idle" ELSE g[j] = waiters[k][j]
  <2>1. CASE j = i
    BY <2>1
  <2>2. CASE j # i
    <3>1. j \in 1 .. i - 1
      BY <1>1, <2>2
    <3>2. IF waiters[k][j] = Gone THEN pc[f[j]] = "idle" ELSE f[j] = waiters[k][j]
      BY <3>1 DEF Owner
    <3>3. g[j] = f[j]
      BY <2>2
    <3> QED BY <3>2, <3>3, Zenon
  <2> QED BY <2>1, <2>2
<1>10. Owner(k, c, i + 1, g)
  <2>1. (i + 1) - 1 = i
    BY <1>1
  <2> HIDE DEF g
  <2> QED BY <1>8, <1>9, <2>1 DEF Owner
<1> QED BY <1>10

\* Nobody but the loop changes the part of the queue it has been past, except
\* for clients that drop out and go idle.
LEMMA OwnersStay ==
    ASSUME NEW k \in Keys, NEW c \in Clients, NEW i \in Nat, NEW f, Owner(k, c, i, f),
           \A j \in 1 .. i - 1 : \/ waiters'[k][j] = waiters[k][j]
                                 \/ waiters'[k][j] = Gone /\ pc'[waiters[k][j]] = "idle",
           \A d \in Clients : pc[d] = "idle" => pc'[d] = "idle"
    PROVE  Owner(k, c, i, f)'
<1>1. f \in [1 .. i - 1 -> Clients \ {c}]
  BY DEF Owner, Injection
<1>2. ASSUME NEW j \in 1 .. i - 1
      PROVE  IF waiters'[k][j] = Gone THEN pc'[f[j]] = "idle" ELSE f[j] = waiters'[k][j]
  <2>1. IF waiters[k][j] = Gone THEN pc[f[j]] = "idle" ELSE f[j] = waiters[k][j]
    BY DEF Owner
  <2>2. f[j] \in Clients
    BY <1>1
  <2>3. CASE waiters'[k][j] = waiters[k][j]
    BY <2>1, <2>2, <2>3
  <2>4. CASE waiters'[k][j] = Gone /\ pc'[waiters[k][j]] = "idle"
    BY <2>1, <2>2, <2>4
  <2> QED BY <2>3, <2>4, Zenon
<1> QED BY <1>2 DEF Owner

\* A step of anyone leaves no queue longer than there are clients.
LEMMA PileStep ==
    ASSUME PileInv, [Next]_vars
    PROVE  PileInv'
<1>0. LineInv /\ TypeOK /\ LineInv' /\ TypeOK'
  BY LineStep DEF PileInv, LineInv, Shape
<1> SUFFICES NoPileUp' /\ EachHasItsOwner'
  BY <1>0 DEF PileInv
<1>a. /\ waiters \in [Keys -> Seq(Clients \cup {Gone})] /\ waiters' \in [Keys -> Seq(Clients \cup {Gone})]
      /\ \A k \in Keys : Len(waiters[k]) \in Nat /\ Len(waiters'[k]) \in Nat
      /\ pc \in [Clients -> {"idle", "blocked", "late"}] /\ Cardinality(Clients) \in Nat
  <2>1. /\ waiters \in [Keys -> Seq(Clients \cup {Gone})] /\ waiters' \in [Keys -> Seq(Clients \cup {Gone})]
        /\ pc \in [Clients -> {"idle", "blocked", "late"}]
    BY <1>0 DEF TypeOK
  <2>2. \A k \in Keys : Len(waiters[k]) \in Nat /\ Len(waiters'[k]) \in Nat
    BY <2>1
  <2>3. Cardinality(Clients) \in Nat
    BY ConstantsAssumption, FS_CardinalityType
  <2> QED BY <2>1, <2>2, <2>3
<1>b. ASSUME \A k \in Keys : Len(waiters'[k]) <= Len(waiters[k])
      PROVE  NoPileUp'
  BY <1>a, <1>b DEF PileInv, NoPileUp
\* A step that has nothing to do with queues or clients.
<1>c. ASSUME waiters' = waiters, pc' = pc, lock' = lock
      PROVE  NoPileUp' /\ EachHasItsOwner'
  <2>1. NoPileUp'
    BY <1>c DEF PileInv, NoPileUp
  <2>2. \A k, c, i, f : Owner(k, c, i, f)' <=> Owner(k, c, i, f)
    BY <1>c, Zenon DEF Owner
  <2>3. EachHasItsOwner'
    BY <1>c, <2>2 DEF PileInv, EachHasItsOwner
  <2> QED BY <2>1, <2>3
\* No loop over a queue is under way after the step.
<1>1. ASSUME \/ lock' = Free
             \/ \E k \in Keys : lock' = Wake(k)
      PROVE  EachHasItsOwner'
  <2>1. \A k \in Keys, c \in Clients, i \in Nat : Retain(k, c, i).phase = "retain"
    BY DEF Retain
  <2>2. Free.phase = "free" /\ \A k \in Keys : Wake(k).phase = "wake"
    BY DEF Free, Wake
  <2>3. \A k \in Keys, c \in Clients, i \in Nat : lock' # Retain(k, c, i)
    BY <1>1, <2>1, <2>2
  <2>4. \A k \in Keys : 1 .. Len(waiters'[k]) + 1 \subseteq Nat
    BY <1>a
  <2> QED BY <2>3, <2>4 DEF EachHasItsOwner
\* The step leaves the loop where it is.
<1>2. ASSUME lock' = lock, \A d \in Clients : pc[d] = "idle" => pc'[d] = "idle",
             \A k \in Keys : /\ Len(waiters'[k]) = Len(waiters[k])
                             /\ \A j \in 1 .. Len(waiters[k]) :
                                   \/ waiters'[k][j] = waiters[k][j]
                                   \/ waiters'[k][j] = Gone /\ pc'[waiters[k][j]] = "idle"
      PROVE  NoPileUp' /\ EachHasItsOwner'
  <2>1. NoPileUp'
    BY <1>2, <1>a, <1>b
  <2>2. ASSUME NEW k \in Keys, NEW c \in Clients, NEW i \in 1 .. Len(waiters'[k]) + 1,
               lock' = Retain(k, c, i)
        PROVE  \E f : Owner(k, c, i, f)'
    <3>1. i \in 1 .. Len(waiters[k]) + 1 /\ i \in Nat /\ \A j \in 1 .. i - 1 : j \in 1 .. Len(waiters[k])
      BY <1>2, <1>a
    <3>2. PICK f : Owner(k, c, i, f)
      BY <1>2, <2>2, <3>1 DEF PileInv, EachHasItsOwner
    <3>3. Owner(k, c, i, f)'
      BY <1>2, <3>1, <3>2, OwnersStay
    <3> QED BY <3>3
  <2> QED BY <2>1, <2>2 DEF EachHasItsOwner
<1>3. ASSUME NEW k \in Keys, Operation(k)
      PROVE  NoPileUp' /\ EachHasItsOwner'
  <2>1. waiters' = waiters /\ pc' = pc /\ (lock' = lock \/ lock' = Wake(k))
    BY <1>3 DEF Operation, Set, Look, Lpop, Push, DeadlinePasses
  <2>2. CASE lock' = Wake(k)
    BY <1>1, <1>a, <1>b, <2>1, <2>2
  <2>3. CASE lock' = lock
    BY <1>c, <2>1, <2>3
  <2> QED BY <2>1, <2>2, <2>3
<1>4. ASSUME NEW k \in Keys, HandOver(k)
      PROVE  NoPileUp' /\ EachHasItsOwner'
  <2>1. /\ waiters' = [waiters EXCEPT ![k] = Tail(waiters[k])] /\ lock' = Wake(k)
        /\ waiters[k] # << >> /\ waiters[k] \in Seq(Clients \cup {Gone})
    BY <1>4, <1>a DEF HandOver
  <2>2. Len(Tail(waiters[k])) = Len(waiters[k]) - 1
    BY <2>1, TailFacts
  <2>3. \A l \in Keys : Len(waiters'[l]) <= Len(waiters[l])
    BY <1>a, <2>1, <2>2
  <2> QED BY <1>1, <1>b, <2>1, <2>3
<1>5. ASSUME NEW k \in Keys, WakeDone(k)
      PROVE  NoPileUp' /\ EachHasItsOwner'
  <2>1. waiters' = waiters /\ lock' = Free
    BY <1>5, Zenon DEF WakeDone
  <2> QED BY <1>1, <1>a, <1>b, <2>1
<1>6. ASSUME NEW k \in Keys, NEW c \in Clients, NEW i \in 1 .. Len(waiters[k]) + 1,
             RetainNext(k, c, i)
      PROVE  NoPileUp' /\ EachHasItsOwner'
  <2>1. lock = Retain(k, c, i) /\ i \in 1 .. Len(waiters[k]) /\ pc' = pc
        /\ waiters[k] \in Seq(Clients \cup {Gone})
    BY <1>6, <1>a DEF RetainNext
  <2>2. PICK f : Owner(k, c, i, f)
    BY <2>1 DEF PileInv, EachHasItsOwner
  <2>3. CASE waiters[k][i] = Gone
    <3>1. waiters' = [waiters EXCEPT ![k] = RemoveAt(waiters[k], i)] /\ lock' = Retain(k, c, i)
      BY <1>6, <2>1, <2>3 DEF RetainNext
    <3>2. /\ Len(RemoveAt(waiters[k], i)) = Len(waiters[k]) - 1
          /\ \A j \in 1 .. Len(waiters[k]) - 1 :
                RemoveAt(waiters[k], i)[j] = IF j < i THEN waiters[k][j] ELSE waiters[k][j + 1]
      BY <2>1, RemoveAtFacts, Zenon
    <3>3. /\ waiters'[k] = RemoveAt(waiters[k], i)
          /\ \A l \in Keys : l # k => waiters'[l] = waiters[l]
      BY <1>a, <3>1
    <3>a. /\ Len(waiters'[k]) = Len(waiters[k]) - 1
          /\ \A j \in 1 .. Len(waiters[k]) - 1 :
                waiters'[k][j] = IF j < i THEN waiters[k][j] ELSE waiters[k][j + 1]
      BY <3>2, <3>3, Zenon
    <3>4. NoPileUp'
      <4>1. \A l \in Keys : Len(waiters'[l]) <= Len(waiters[l])
        <5>1. Len(waiters[k]) \in Nat /\ Len(waiters'[k]) <= Len(waiters[k])
          BY <1>a, <3>a
        <5>2. \A l \in Keys : l # k => Len(waiters'[l]) = Len(waiters[l]) /\ Len(waiters[l]) \in Nat
          BY <1>a, <3>3, Zenon
        <5>3. ASSUME NEW l \in Keys, l # k PROVE Len(waiters'[l]) <= Len(waiters[l])
          <6>1. Len(waiters'[l]) = Len(waiters[l]) /\ Len(waiters[l]) \in Nat
            BY <5>2, <5>3, Zenon
          <6> QED BY <6>1
        <5> QED BY <5>1, <5>3, Zenon
      <4> QED BY <1>b, <4>1
    <3>5. i \in Nat /\ \A j \in 1 .. i - 1 : waiters'[k][j] = waiters[k][j]
      <4>1. Len(waiters[k]) \in Nat /\ i \in Nat /\ 1 <= i /\ i <= Len(waiters[k])
        BY <1>a, <2>1
      <4>2. \A j \in 1 .. i - 1 : j \in 1 .. Len(waiters[k]) - 1 /\ j < i
        BY <4>1
      <4> QED BY <3>a, <4>1, <4>2, Zenon
    <3>6. Owner(k, c, i, f)'
      BY <2>1, <2>2, <3>5, OwnersStay, Zenon
    <3>7. EachHasItsOwner'
      BY <3>1, <3>6 DEF EachHasItsOwner, Retain
    <3> QED BY <3>4, <3>7
  <2>4. CASE waiters[k][i] # Gone
    <3>1. waiters' = waiters /\ lock' = Retain(k, c, i + 1)
      BY <1>6, <2>1, <2>4 DEF RetainNext
    <3>2. PICK g : Owner(k, c, i + 1, g)
      BY <1>0, <2>1, <2>2, <2>4, OneMoreOwner
    <3>3. Owner(k, c, i + 1, g)'
      BY <2>1, <3>1, <3>2 DEF Owner
    <3>4. EachHasItsOwner'
      BY <3>1, <3>3 DEF EachHasItsOwner, Retain
    <3> QED BY <1>a, <1>b, <3>1, <3>4
  <2> QED BY <2>3, <2>4
<1>7. ASSUME NEW k \in Keys, NEW c \in Clients, NEW i \in 1 .. Len(waiters[k]) + 1,
             Join(k, c, i)
      PROVE  NoPileUp' /\ EachHasItsOwner'
  <2>1. /\ lock = Retain(k, c, i) /\ i = Len(waiters[k]) + 1 /\ lock' = Free
        /\ waiters' = [waiters EXCEPT ![k] = Append(waiters[k], c)]
    <3>1. Len(waiters[k]) \in Nat /\ i > Len(waiters[k])
      BY <1>7, <1>a DEF Join
    <3>2. i = Len(waiters[k]) + 1
      BY <3>1
    <3> QED BY <1>7, <3>2 DEF Join
  <2>2. PICK f : Owner(k, c, Len(waiters[k]) + 1, f)
    BY <2>1 DEF PileInv, EachHasItsOwner
  <2>3. Len(waiters[k]) + 1 <= Cardinality(Clients)
    BY <1>a, <2>2, RoomForOne
  <2>4. Len(waiters'[k]) = Len(waiters[k]) + 1 /\ \A l \in Keys : l # k => waiters'[l] = waiters[l]
    BY <1>a, <2>1
  <2>5. NoPileUp'
    BY <2>3, <2>4 DEF PileInv, NoPileUp
  <2> QED BY <1>1, <2>1, <2>5
<1>8. ASSUME NEW c \in Clients, NEW k \in Keys, Blpop(c, k)
      PROVE  NoPileUp' /\ EachHasItsOwner'
  <2>1. waiters' = waiters /\ pc' = pc /\ lock = Free /\ (lock' = lock \/ lock' = Retain(k, c, 1))
    <3>1. lock' = lock \/ lock' = Retain(k, c, 1)
      BY <1>0, <1>8, BlpopFacts DEF LineInv, Shape
    <3> QED BY <1>8, <3>1 DEF Blpop
  <2>2. NoPileUp'
    BY <1>a, <1>b, <2>1
  <2>3. CASE lock' = lock
    BY <1>1, <2>1, <2>2, <2>3
  <2>4. CASE lock' = Retain(k, c, 1)
    <3> DEFINE f == [j \in 1 .. 1 - 1 |-> c]
    <3>1. \A j : j \notin 1 .. 1 - 1
      OBVIOUS
    <3>2. f \in Injection(1 .. 1 - 1, Clients \ {c})
      BY <3>1 DEF Injection, IsInjective
    <3>3. Owner(k, c, 1, f)'
      <4> HIDE DEF f
      <4> QED BY <3>1, <3>2 DEF Owner
    <3> QED BY <2>2, <2>4, <3>3 DEF EachHasItsOwner, Retain
  <2> QED BY <2>1, <2>3, <2>4
<1>9. ASSUME NEW c \in Clients, Receive(c) \/ GiveUp(c)
      PROVE  NoPileUp' /\ EachHasItsOwner'
  <2>1. lock' = lock /\ pc' = [pc EXCEPT ![c] = "idle"]
        /\ \A k \in Keys : waiters'[k] = ReplaceAll(waiters[k], c, Gone)
    BY <1>9 DEF Receive, GiveUp, Answered
  <2>2. pc'[c] = "idle" /\ \A d \in Clients : pc[d] = "idle" => pc'[d] = "idle"
    BY <1>a, <2>1
  <2>3. ASSUME NEW k \in Keys
        PROVE  /\ Len(waiters'[k]) = Len(waiters[k])
               /\ \A j \in 1 .. Len(waiters[k]) :
                     \/ waiters'[k][j] = waiters[k][j]
                     \/ waiters'[k][j] = Gone /\ pc'[waiters[k][j]] = "idle"
    <3>1. waiters[k] \in Seq(Clients \cup {Gone}) /\ Gone \in Clients \cup {Gone}
      BY <1>a
    <3>2. /\ Len(ReplaceAll(waiters[k], c, Gone)) = Len(waiters[k])
          /\ \A j \in DOMAIN waiters[k] :
                ReplaceAll(waiters[k], c, Gone)[j] = IF waiters[k][j] = c THEN Gone ELSE waiters[k][j]
      <4> DEFINE senders == Clients \cup {Gone}
                 queue == waiters[k]
      <4>1. queue \in Seq(senders) /\ Gone \in senders
        BY <3>1
      <4> HIDE DEF senders, queue
      <4>2. /\ Len(ReplaceAll(queue, c, Gone)) = Len(queue)
            /\ \A j \in DOMAIN queue :
                  ReplaceAll(queue, c, Gone)[j] = IF queue[j] = c THEN Gone ELSE queue[j]
        BY <4>1, ReplaceAllFacts
      <4> QED BY <4>2 DEF queue
    <3>3. DOMAIN waiters[k] = 1 .. Len(waiters[k])
      BY <3>1
    <3> QED BY <2>1, <2>2, <3>2, <3>3, Zenon
  <2> QED BY <1>2, <2>1, <2>2, <2>3
<1>10. ASSUME NEW c \in Clients, TimerFires(c)
       PROVE  NoPileUp' /\ EachHasItsOwner'
  <2>1. waiters' = waiters /\ lock' = lock /\ pc[c] = "blocked" /\ pc' = [pc EXCEPT ![c] = "late"]
    BY <1>10 DEF TimerFires
  <2>2. \A d \in Clients : pc[d] = "idle" => pc'[d] = "idle"
    BY <1>a, <2>1
  <2> QED BY <1>2, <2>1, <2>2
<1>11. CASE UNCHANGED vars
  BY <1>c, <1>11 DEF vars
<1> QED
  BY <1>3, <1>4, <1>5, <1>6, <1>7, <1>8, <1>9, <1>10, <1>11 DEF Next, WakeStep, RetainStep, Client

\* Abandoned senders do not pile up: no queue is longer than there are clients.
THEOREM PileInvariant == Spec => []NoPileUp
<1>1. Init => PileInv
  <2>1. Cardinality(Clients) \in Nat
    BY ConstantsAssumption, FS_CardinalityType
  <2>2. ASSUME Init PROVE NoPileUp /\ EachHasItsOwner
    <3>1. \A k \in Keys : waiters[k] = << >>
      BY <2>2 DEF Init
    <3>2. Len(<< >>) = 0 /\ 0 <= Cardinality(Clients)
      BY <2>1
    <3>3. NoPileUp
      BY <3>1, <3>2 DEF NoPileUp
    <3>4. lock.phase = "free" /\ \A k, c, i : Retain(k, c, i).phase = "retain"
      BY <2>2 DEF Init, Free, Retain
    <3>5. EachHasItsOwner
      BY <3>4 DEF EachHasItsOwner
    <3> QED BY <3>3, <3>5
  <2> QED BY <2>2, LineInit DEF PileInv
<1>2. PileInv => NoPileUp
  BY DEF PileInv
<1> QED BY <1>1, <1>2, PileStep, PTL DEF Spec
=============================================================================
