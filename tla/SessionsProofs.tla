--------------------------- MODULE SessionsProofs ---------------------------
(***************************************************************************)
(* Proofs about Sessions: the tally of who listens is true, the gates      *)
(* hold, a message reaches who listens, and nobody hears a channel before  *)
(* being told of it, for any connections, channels and bounds.             *)
(***************************************************************************)
EXTENDS Sessions, CountingProofs

-----------------------------------------------------------------------------
(* Sequences.                                                              *)

LEMMA RangeIs ==
    ASSUME NEW S, NEW s \in Seq(S), NEW x
    PROVE  x \in Range(s) <=> \E i \in 1 .. Len(s) : s[i] = x
<1>1. DOMAIN s = 1 .. Len(s)
  OBVIOUS
<1> QED BY <1>1, Zenon DEF Range

LEMMA NotEmpty ==
    ASSUME NEW S, NEW s \in Seq(S)
    PROVE  Len(s) \in Nat /\ (s # << >> <=> Len(s) # 0)
BY EmptySeq

LEMMA Single ==
    ASSUME NEW S, NEW x \in S
    PROVE  <<x>> \in Seq(S) \ {<< >>}
<1>1. <<x>> \in Seq(S) /\ Len(<<x>>) = 1
  OBVIOUS
<1>2. <<x>> # << >>
  BY <1>1, NotEmpty
<1> QED BY <1>1, <1>2

\* A sequence without the element at one place.
Cut(s, k) == SubSeq(s, 1, k - 1) \o SubSeq(s, k + 1, Len(s))

\* One occurrence is removed (Vec::remove at position).
LEMMA RemovesOne ==
    ASSUME NEW S, NEW s \in Seq(S), NEW e, e \in Range(s)
    PROVE  \E k \in 1 .. Len(s) : s[k] = e /\ Without(s, e) = Cut(s, k)
<1> DEFINE k == CHOOSE i \in DOMAIN s : s[i] = e
<1>1. DOMAIN s = 1 .. Len(s)
  OBVIOUS
<1>2. k \in DOMAIN s /\ s[k] = e
  BY DEF Range
<1>3. Without(s, e) = Cut(s, k)
  BY DEF Without, Cut
<1> QED BY <1>1, <1>2, <1>3, Zenon

LEMMA CutIs ==
    ASSUME NEW S, NEW s \in Seq(S), NEW k \in 1 .. Len(s)
    PROVE  /\ Cut(s, k) \in Seq(S) /\ Len(Cut(s, k)) = Len(s) - 1
           /\ \A i \in 1 .. Len(s) - 1 : Cut(s, k)[i] = IF i < k THEN s[i] ELSE s[i + 1]
<1> DEFINE a == SubSeq(s, 1, k - 1)
           b == SubSeq(s, k + 1, Len(s))
<1>1. Len(s) \in Nat /\ k \in Nat /\ 1 <= k /\ k <= Len(s)
  OBVIOUS
<1>2. a \in Seq(S) /\ Len(a) = k - 1 /\ \A i \in 1 .. k - 1 : a[i] = s[i]
  BY <1>1
<1>3. b \in Seq(S) /\ Len(b) = Len(s) - k /\ \A i \in 1 .. Len(s) - k : b[i] = s[k + i]
  BY <1>1
<1> HIDE DEF a, b
<1>4. a \o b \in Seq(S) /\ Len(a \o b) = Len(s) - 1
  <2>1. a \o b \in Seq(S) /\ Len(a \o b) = Len(a) + Len(b)
    BY <1>2, <1>3, ConcatProperties, Zenon
  <2> QED BY <1>1, <1>2, <1>3, <2>1
<1>5. ASSUME NEW i \in 1 .. Len(s) - 1 PROVE (a \o b)[i] = IF i < k THEN s[i] ELSE s[i + 1]
  <2>1. CASE i < k
    <3>1. i \in 1 .. Len(a) /\ a[i] = s[i]
      BY <1>1, <1>2, <2>1
    <3>2. (a \o b)[i] = a[i]
      BY <1>2, <1>3, <3>1
    <3> QED BY <2>1, <3>1, <3>2
  <2>2. CASE ~ (i < k)
    <3>1. i - Len(a) \in 1 .. Len(b) /\ k + (i - Len(a)) = i + 1 /\ i \notin 1 .. Len(a)
      BY <1>1, <1>2, <1>3, <2>2
    <3>2. b[i - Len(a)] = s[i + 1]
      BY <1>1, <1>2, <1>3, <3>1
    <3>3. (a \o b)[i] = b[i - Len(a)]
      BY <1>2, <1>3, <3>1
    <3> QED BY <2>2, <3>2, <3>3
  <2> QED BY <2>1, <2>2, Zenon
<1>6. Cut(s, k) = a \o b
  BY DEF Cut, a, b
<1> QED BY <1>4, <1>5, <1>6, Zenon

\* No element of the sequence is there twice.
Once(s) == \A i \in 1 .. Len(s) : \A j \in 1 .. Len(s) : s[i] = s[j] => i = j

LEMMA RemovedIsGone ==
    ASSUME NEW S, NEW s \in Seq(S), NEW e, e \in Range(s), Once(s)
    PROVE  /\ Without(s, e) \in Seq(S) /\ Once(Without(s, e))
           /\ \A x : x \in Range(Without(s, e)) <=> x \in Range(s) /\ x # e
<1>1. PICK k \in 1 .. Len(s) : s[k] = e /\ Without(s, e) = Cut(s, k)
  BY RemovesOne
<1> DEFINE t == Cut(s, k)
           n == Len(s)
<1>2. t \in Seq(S) /\ Len(t) = n - 1 /\ \A i \in 1 .. n - 1 : t[i] = IF i < k THEN s[i] ELSE s[i + 1]
  BY CutIs
<1>3. n \in Nat /\ k \in 1 .. n
  OBVIOUS
<1> HIDE DEF t, n
<1>4. \A i \in 1 .. n : \A j \in 1 .. n : s[i] = s[j] => i = j
  BY DEF Once, n
<1> DEFINE from(i) == IF i < k THEN i ELSE i + 1
<1>5. \A i \in 1 .. n - 1 : from(i) \in 1 .. n /\ from(i) # k /\ t[i] = s[from(i)]
  BY <1>2, <1>3
<1>6. \A i \in 1 .. n - 1 : \A j \in 1 .. n - 1 : from(i) = from(j) => i = j
  BY <1>3
<1>7. \A j \in 1 .. n : j # k => \E i \in 1 .. n - 1 : from(i) = j
  <2> SUFFICES ASSUME NEW j \in 1 .. n, j # k PROVE \E i \in 1 .. n - 1 : from(i) = j
    OBVIOUS
  <2>1. CASE j < k
    <3>1. j \in 1 .. n - 1 /\ from(j) = j
      BY <1>3, <2>1
    <3> QED BY <3>1
  <2>2. CASE j > k
    <3>1. j - 1 \in 1 .. n - 1 /\ from(j - 1) = j
      BY <1>3, <2>2
    <3> QED BY <3>1
  <2> QED BY <1>3, <2>1, <2>2
<1> HIDE DEF from
<1>8. Once(t)
  <2>1. ASSUME NEW i \in 1 .. n - 1, NEW j \in 1 .. n - 1, t[i] = t[j] PROVE i = j
    <3>1. s[from(i)] = s[from(j)] /\ from(i) \in 1 .. n /\ from(j) \in 1 .. n
      BY <1>5, <2>1, Zenon
    <3>2. from(i) = from(j)
      BY <1>4, <3>1, Zenon
    <3> QED BY <1>6, <3>2, Zenon
  <2>2. Len(t) = n - 1
    BY <1>2
  <2> QED BY <2>1, <2>2, Zenon DEF Once
<1>9. ASSUME NEW x PROVE x \in Range(t) <=> x \in Range(s) /\ x # e
  <2>1. ASSUME x \in Range(t) PROVE x \in Range(s) /\ x # e
    <3>1. PICK i \in 1 .. n - 1 : t[i] = x
      BY <1>2, <2>1 DEF Range
    <3>2. from(i) \in 1 .. n /\ from(i) # k /\ s[from(i)] = x
      BY <1>5, <3>1
    <3>3. x # e
      BY <1>1, <1>3, <1>4, <3>2
    <3> QED BY <3>2, <3>3 DEF Range, n
  <2>2. ASSUME x \in Range(s), x # e PROVE x \in Range(t)
    <3>1. PICK j \in 1 .. n : s[j] = x
      BY <2>2 DEF Range, n
    <3>2. j # k
      BY <1>1, <2>2, <3>1
    <3>3. PICK i \in 1 .. n - 1 : from(i) = j
      BY <1>7, <3>2
    <3>4. t[i] = x
      BY <1>5, <3>1, <3>3
    <3> QED BY <1>2, <3>4 DEF Range
  <2> QED BY <2>1, <2>2
<1> QED BY <1>1, <1>2, <1>8, <1>9 DEF t

\* What is at the end of it is there as well.
LEMMA AppendedIsThere ==
    ASSUME NEW S, NEW s \in Seq(S), NEW e \in S, e \notin Range(s), Once(s)
    PROVE  /\ Append(s, e) \in Seq(S) /\ Once(Append(s, e))
           /\ \A x : x \in Range(Append(s, e)) <=> x \in Range(s) \/ x = e
<1> DEFINE t == Append(s, e)
           n == Len(s)
<1>1. /\ n \in Nat /\ t \in Seq(S) /\ Len(t) = n + 1 /\ t[n + 1] = e
      /\ \A i \in 1 .. n : t[i] = s[i]
  OBVIOUS
<1>2. \A i \in 1 .. n : s[i] # e
  BY DEF Range
<1>3. \A i \in 1 .. n : \A j \in 1 .. n : s[i] = s[j] => i = j
  BY DEF Once
<1>4. \A x : x \in Range(s) <=> \E i \in 1 .. n : s[i] = x
  BY DEF Range
<1> HIDE DEF t, n
<1>5. \A i \in 1 .. n + 1 : i \in 1 .. n \/ i = n + 1
  BY <1>1
<1>6. Once(t)
  <2> SUFFICES ASSUME NEW i \in 1 .. n + 1, NEW j \in 1 .. n + 1, t[i] = t[j] PROVE i = j
    BY <1>1 DEF Once
  <2>1. CASE i \in 1 .. n /\ j \in 1 .. n
    BY <1>1, <1>3, <2>1
  <2>2. CASE i = n + 1 \/ j = n + 1
    BY <1>1, <1>2, <1>5, <2>2
  <2> QED BY <1>5, <2>1, <2>2
<1>7. ASSUME NEW x PROVE x \in Range(t) <=> x \in Range(s) \/ x = e
  <2>1. ASSUME NEW i \in 1 .. n + 1, t[i] = x PROVE x \in Range(s) \/ x = e
    BY <1>1, <1>4, <1>5, <2>1
  <2>2. ASSUME NEW i \in 1 .. n, s[i] = x PROVE i \in 1 .. n + 1 /\ t[i] = x
    BY <1>1, <2>2
  <2>3. n + 1 \in 1 .. n + 1
    BY <1>1
  <2>4. x \in Range(t) <=> \E i \in 1 .. n + 1 : t[i] = x
    <3>1. t \in Seq(S) /\ Len(t) = n + 1
      BY <1>1
    <3> QED BY <3>1, RangeIs
  <2> QED BY <1>1, <1>4, <2>1, <2>2, <2>3, <2>4
<1> QED BY <1>1, <1>6, <1>7 DEF t

\* What was at the front of it is there no longer.
LEMMA HeadIsGone ==
    ASSUME NEW S, NEW s \in Seq(S), s # << >>, Once(s)
    PROVE  /\ Head(s) \in S /\ Head(s) \in Range(s)
           /\ Tail(s) \in Seq(S) /\ Once(Tail(s))
           /\ \A x : x \in Range(Tail(s)) <=> x \in Range(s) /\ x # Head(s)
<1> DEFINE t == Tail(s)
           n == Len(s)
<1>1. /\ n \in Nat /\ 1 \in 1 .. n /\ Head(s) = s[1] /\ Head(s) \in S /\ t \in Seq(S) /\ Len(t) = n - 1
      /\ \A i \in 1 .. n - 1 : t[i] = s[i + 1]
  OBVIOUS
<1>2. \A i \in 1 .. n : \A j \in 1 .. n : s[i] = s[j] => i = j
  BY DEF Once
<1>3. \A x : x \in Range(s) <=> \E i \in 1 .. n : s[i] = x
  BY DEF Range
<1> HIDE DEF t, n
<1>4. \A i \in 1 .. n - 1 : i + 1 \in 1 .. n /\ i + 1 # 1
  BY <1>1
<1>5. Once(t)
  <2> SUFFICES ASSUME NEW i \in 1 .. n - 1, NEW j \in 1 .. n - 1, t[i] = t[j] PROVE i = j
    BY <1>1 DEF Once
  <2>1. s[i + 1] = s[j + 1] /\ i + 1 \in 1 .. n /\ j + 1 \in 1 .. n
    BY <1>1, <1>4
  <2>2. i + 1 = j + 1
    BY <1>2, <2>1
  <2> QED BY <2>2
<1>6. ASSUME NEW x PROVE x \in Range(t) <=> x \in Range(s) /\ x # Head(s)
  <2>1. ASSUME NEW i \in 1 .. n - 1, t[i] = x PROVE x \in Range(s) /\ x # Head(s)
    <3>1. s[i + 1] = x /\ i + 1 \in 1 .. n /\ i + 1 # 1
      BY <1>1, <1>4, <2>1
    <3> QED BY <1>1, <1>2, <1>3, <3>1
  <2>2. ASSUME NEW i \in 1 .. n, s[i] = x, x # Head(s) PROVE x \in Range(t)
    <3>1. i # 1
      BY <1>1, <2>2
    <3>2. i - 1 \in 1 .. n - 1 /\ (i - 1) + 1 = i
      BY <1>1, <3>1
    <3>3. t[i - 1] = x
      BY <1>1, <2>2, <3>2
    <3> QED BY <1>1, <3>2, <3>3 DEF Range
  <2>3. x \in Range(t) <=> \E i \in 1 .. n - 1 : t[i] = x
    <3>1. t \in Seq(S) /\ Len(t) = n - 1
      BY <1>1
    <3> QED BY <3>1, RangeIs
  <2> QED BY <1>3, <2>1, <2>2, <2>3
<1> QED BY <1>1, <1>3, <1>5, <1>6 DEF t

\* A sequence with nothing in it contains nothing.
LEMMA NoneContained == \A x : x \notin Range(<< >>)
<1>1. Len(<< >>) = 0
  OBVIOUS
<1> QED BY <1>1 DEF Range

-----------------------------------------------------------------------------
(* Commands and what is left of them.                                      *)

LEMMA QueueableIsUnderway == Queueable \subseteq Underway
<1> SUFFICES ASSUME NEW call \in Queueable PROVE call \in Underway
  OBVIOUS
<1>1. CASE call \in Call({"SUBSCRIBE", "UNSUBSCRIBE"}, UNION {[1 .. n -> Channels] : n \in 1 .. MaxArgs})
  <2>1. call.name \in {"SUBSCRIBE", "UNSUBSCRIBE"} /\ call = [name |-> call.name, args |-> call.args]
    BY <1>1 DEF Call
  <2>2. PICK n \in 1 .. MaxArgs : call.args \in [1 .. n -> Channels]
    BY <1>1 DEF Call
  <2>3. MaxArgs \in Nat
    BY SessionsAssumption, Zenon
  <2>4. n \in Nat /\ n # 0
    BY <2>3
  <2>5. call.args \in Seq(Channels) /\ Len(call.args) = n
    BY <2>2, <2>4
  <2>6. call.args # << >>
    BY <2>4, <2>5, EmptySeq
  <2> QED BY <2>1, <2>5, <2>6, Zenon DEF Underway, Call
<1>2. CASE call \in Call({"PUBLISH"}, {<<ch>> : ch \in Channels})
  <2>1. PICK x \in Channels : call.args = <<x>>
    BY <1>2 DEF Call
  <2>2. call.args \in Seq(Channels) \ {<< >>}
    BY <2>1, Single, Zenon
  <2> QED BY <1>2, <2>2, Zenon DEF Call, Underway
<1>3. CASE call \in Call({"SETUSER"}, {<<p>> : p \in Passwords})
  <2>1. PICK x \in Passwords : call.args = <<x>>
    BY <1>3 DEF Call
  <2>2. call.args \in Seq(Passwords) \ {<< >>}
    BY <2>1, Single, Zenon
  <2> QED BY <1>3, <2>2, Zenon DEF Call, Underway
<1>4. CASE call \in Call({"AUTH", "AUTH default"}, {<<p>> : p \in Passwords \cup {Wrong}})
  <2>1. PICK x \in Passwords \cup {Wrong} : call.args = <<x>>
    BY <1>4, Zenon DEF Call
  <2>2. call.args \in Seq(Passwords \cup {Wrong}) \ {<< >>}
    BY <2>1, Single, Zenon
  <2> QED BY <1>4, <2>2, Zenon DEF Call, Underway
<1>5. CASE call \in Call({"UNSUBSCRIBE"}, {<< >>})
  <2>1. call.args = << >> /\ call.name = "UNSUBSCRIBE" /\ call = [name |-> call.name, args |-> call.args]
    BY <1>5 DEF Call
  <2>2. << >> \in Seq(Channels)
    OBVIOUS
  <2>3. call \in Call({"UNSUBSCRIBE"}, Seq(Channels))
    BY <2>1, <2>2, Zenon DEF Call
  <2> QED BY <2>3, Zenon DEF Underway
<1> QED BY <1>1, <1>2, <1>3, <1>4, <1>5, Zenon DEF Queueable

\* What the arguments of a command under way are.
LEMMA UnderwayIs ==
    ASSUME NEW call \in Underway
    PROVE  /\ call.name \in {"SUBSCRIBE", "PUBLISH"} => call.args \in Seq(Channels) \ {<< >>}
           /\ call.name = "UNSUBSCRIBE" => call \in Call({"UNSUBSCRIBE"}, Seq(Channels))
           /\ call.name = "SETUSER" => call.args \in Seq(Passwords) \ {<< >>}
<1>1. CASE call \in Call({"SUBSCRIBE", "PUBLISH"}, Seq(Channels) \ {<< >>})
  <2>1. call.name \in {"SUBSCRIBE", "PUBLISH"} /\ call.args \in Seq(Channels) \ {<< >>}
    BY <1>1, Zenon DEF Call
  <2> QED BY <2>1
<1>2. CASE call \in Call({"UNSUBSCRIBE"}, Seq(Channels))
  <2>1. call.name = "UNSUBSCRIBE"
    BY <1>2 DEF Call
  <2> QED BY <1>2, <2>1
<1>3. CASE call \in Call({"SETUSER"}, Seq(Passwords) \ {<< >>})
  <2>1. call.name = "SETUSER" /\ call.args \in Seq(Passwords) \ {<< >>}
    BY <1>3 DEF Call
  <2> QED BY <2>1
<1>4. CASE call \in Call({"AUTH", "AUTH default"}, Seq(Passwords \cup {Wrong}) \ {<< >>})
  <2>1. call.name \in {"AUTH", "AUTH default"}
    BY <1>4, Zenon DEF Call
  <2> QED BY <2>1, Zenon
<1>5. CASE call = Reply
  BY <1>5 DEF Reply
<1> QED BY <1>1, <1>2, <1>3, <1>4, <1>5, Zenon DEF Underway

\* What is left of several arguments is not nothing.
LEMMA SomeAreLeft ==
    ASSUME NEW S, NEW a \in Seq(S), Len(a) > 1
    PROVE  Tail(a) \in Seq(S) \ {<< >>}
<1>1. Len(a) \in Nat /\ a # << >>
  BY NotEmpty
<1>2. Tail(a) \in Seq(S) /\ Len(Tail(a)) = Len(a) - 1
  BY <1>1
<1>3. \A n \in Nat : n > 1 => n - 1 # 0
  OBVIOUS
<1>4. Len(Tail(a)) # 0
  BY <1>1, <1>2, <1>3, Zenon
<1> QED BY <1>2, <1>4, NotEmpty, Zenon

\* A command with some of its arguments left is one that is under way.
LEMMA LessOfACall ==
    ASSUME NEW call \in Underway, Len(call.args) > 1
    PROVE  /\ [call EXCEPT !.args = Tail(@)] \in Underway
           /\ [call EXCEPT !.args = Tail(@)].name = call.name
           /\ call.name # "reply"
<1> DEFINE less == [call EXCEPT !.args = Tail(@)]
<1>1. ASSUME NEW S, NEW a \in Seq(S), Len(a) > 1 PROVE Tail(a) \in Seq(S) \ {<< >>}
  BY <1>1, SomeAreLeft, Zenon
<1>2. call # Reply
  BY DEF Reply
<1>3. CASE call \in Call({"SUBSCRIBE", "PUBLISH"}, Seq(Channels) \ {<< >>})
  <2>1. Tail(call.args) \in Seq(Channels) \ {<< >>}
    BY <1>1, <1>3 DEF Call
  <2> QED BY <1>3, <2>1, Zenon DEF Call, Underway
<1>4. CASE call \in Call({"UNSUBSCRIBE"}, Seq(Channels))
  <2>1. Tail(call.args) \in Seq(Channels)
    BY <1>1, <1>4 DEF Call
  <2> QED BY <1>4, <2>1, Zenon DEF Call, Underway
<1>5. CASE call \in Call({"SETUSER"}, Seq(Passwords) \ {<< >>})
  <2>1. Tail(call.args) \in Seq(Passwords) \ {<< >>}
    BY <1>1, <1>5 DEF Call
  <2> QED BY <1>5, <2>1, Zenon DEF Call, Underway
<1>6. CASE call \in Call({"AUTH", "AUTH default"}, Seq(Passwords \cup {Wrong}) \ {<< >>})
  <2>1. Tail(call.args) \in Seq(Passwords \cup {Wrong}) \ {<< >>}
    BY <1>1, <1>6, Zenon DEF Call
  <2> QED BY <1>6, <2>1, Zenon DEF Call, Underway
<1> QED BY <1>2, <1>3, <1>4, <1>5, <1>6, Zenon DEF Underway

\* What is left of a command once a step of it is done.
LEMMA AfterIs ==
    ASSUME NEW q \in Seq(Underway), q # << >>, q[Len(q)] = Reply
    PROVE  /\ Head(q) = q[1] /\ Head(q) \in Underway /\ 1 \in DOMAIN q
           /\ After(q) \in Seq(Underway)
           /\ Head(q).name # "reply" => After(q) # << >>
           /\ After(q) # << >> => After(q)[Len(After(q))] = Reply
           /\ \A i \in DOMAIN After(q) : \E j \in DOMAIN q : After(q)[i].name = q[j].name
<1> DEFINE n == Len(q)
<1>1. n \in Nat /\ n # 0 /\ Head(q) = q[1] /\ Head(q) \in Underway /\ DOMAIN q = 1 .. n /\ q[n] = Reply
  OBVIOUS
<1> HIDE DEF n
<1>2. 1 \in DOMAIN q
  BY <1>1
<1>3. CASE Len(Head(q).args) > 1
  <2> DEFINE call == q[1]
             less == [call EXCEPT !.args = Tail(@)]
             t == [q EXCEPT ![1] = less]
  <2>1. After(q) = t
    BY <1>1, <1>3 DEF After
  <2>2. less \in Underway /\ less.name = call.name /\ call.name # "reply"
    <3>1. call \in Underway /\ Len(call.args) > 1
      BY <1>1, <1>3
    <3> HIDE DEF call
    <3> QED BY <3>1, LessOfACall
  <2>3. n # 1
    BY <1>1, <2>2 DEF Reply
  <2>4. call = q[1]
    OBVIOUS
  <2> HIDE DEF call, less
  <2>5. /\ t \in Seq(Underway) /\ Len(t) = n /\ DOMAIN t = 1 .. n /\ t[1] = less
        /\ \A i \in 1 .. n : i # 1 => t[i] = q[i]
    BY <1>1, <2>2 DEF n
  <2>6. t # << >>
    BY <1>1, <2>5, EmptySeq
  <2>7. t[Len(t)] = Reply
    BY <1>1, <2>3, <2>5
  <2>8. ASSUME NEW i \in DOMAIN t PROVE \E j \in DOMAIN q : t[i].name = q[j].name
    BY <1>1, <2>2, <2>4, <2>5
  <2> HIDE DEF t
  <2> QED BY <1>1, <1>2, <2>1, <2>5, <2>6, <2>7, <2>8
<1>4. CASE ~ (Len(Head(q).args) > 1)
  <2> DEFINE t == Tail(q)
  <2>1. After(q) = t
    BY <1>4 DEF After
  <2>2. /\ t \in Seq(Underway) /\ Len(t) = n - 1 /\ DOMAIN t = 1 .. n - 1
        /\ \A i \in 1 .. n - 1 : t[i] = q[i + 1]
    BY DEF n
  <2> HIDE DEF t
  <2>3. t # << >> <=> n # 1
    <3>1. t = << >> <=> Len(t) = 0
      BY <2>2, EmptySeq, Zenon
    <3> QED BY <1>1, <2>2, <3>1
  <2>4. Head(q).name # "reply" => n # 1
    BY <1>1 DEF Reply
  <2>5. n # 1 => t[Len(t)] = Reply
    <3> SUFFICES ASSUME n # 1 PROVE t[n - 1] = Reply
      BY <2>2
    <3>1. n - 1 \in 1 .. n - 1 /\ (n - 1) + 1 = n
      BY <1>1
    <3> QED BY <1>1, <2>2, <3>1
  <2>6. ASSUME NEW i \in DOMAIN t PROVE \E j \in DOMAIN q : t[i].name = q[j].name
    <3>1. i + 1 \in DOMAIN q /\ t[i] = q[i + 1]
      BY <1>1, <2>2
    <3> QED BY <3>1
  <2> QED BY <1>1, <1>2, <2>1, <2>2, <2>3, <2>4, <2>5, <2>6
<1> QED BY <1>3, <1>4

-----------------------------------------------------------------------------
(* The inductive invariant.                                                *)

\* The types of all but the tally, with no bound on the number of messages.
Typed ==
    /\ link \in [Clients -> {"gone", "up", "closed"}]
    /\ on \in [Clients -> Seq(Channels)]
    /\ queued \in [Clients -> Seq(Queueable) \cup {NoQueue}]
    /\ inside \subseteq Clients
    /\ todo \in [Clients -> Seq(Underway)]
    /\ inbox \in [Clients -> Seq(Channels \X Nat)]
    /\ passwords \subseteq Passwords
    /\ published \in Nat
    /\ unheard \in [Clients -> SUBSET Channels]

\* The tally has the channels somebody is on, and no other.
EmptyIsForgotten ==
    /\ DOMAIN listeners \subseteq Channels
    /\ \A ch \in DOMAIN listeners : listeners[ch] \in [Clients -> Nat] /\ listeners[ch] # NoOne

\* What is true of one connection, whatever the others do: it is on a channel
\* once; once it has hung up nothing is under way, and once it is gone nothing is
\* left of it; a command under way ends in a reply, and runs outside of any
\* transaction; between commands every channel joined is confirmed; and the gates
\* hold.
Own(c) ==
    /\ Once(on[c])
    /\ link[c] # "up" => c \notin inside /\ todo[c] = << >> /\ unheard[c] = {}
    /\ link[c] = "gone" => on[c] = << >> /\ queued[c] = NoQueue
    /\ todo[c] # << >> => queued[c] = NoQueue /\ todo[c][Len(todo[c])] = Reply
    /\ todo[c] = << >> => unheard[c] = {}
    /\ link[c] = "up" =>
          /\ on[c] # << >> => queued[c] = NoQueue
          /\ c \notin inside =>
                /\ on[c] = << >> /\ queued[c] = NoQueue
                /\ \A i \in DOMAIN todo[c] : todo[c][i].name \in AllowedWhileOut \cup {"reply"}

IInv == Typed /\ EmptyIsForgotten /\ TallyIsTrue /\ \A c \in Clients : Own(c)

LEMMA GatesFollow == (\A c \in Clients : Own(c)) => GatesHold
BY DEF Own, GatesHold, Listening

-----------------------------------------------------------------------------
(* What the steps share.                                                   *)

\* A connection that a step leaves alone keeps what is true of it.
LEMMA OwnKept ==
    ASSUME NEW d, Own(d), link'[d] = link[d], on'[d] = on[d], queued'[d] = queued[d],
           d \in inside' <=> d \in inside, todo'[d] = todo[d], unheard'[d] = unheard[d]
    PROVE  Own(d)'
BY DEF Own, Once

\* A step of a command that leaves the command going.
LEMMA OwnGoesOn ==
    ASSUME NEW c \in Clients, Typed, Own(c), link[c] = "up", todo[c] # << >>, Head(todo[c]).name # "reply",
           link'[c] = "up", queued'[c] = queued[c], todo'[c] = After(todo[c]),
           Once(on'[c]), c \in inside => c \in inside', c \notin inside' => on'[c] = << >>
    PROVE  Own(c)'
<1> DEFINE q == todo[c]
<1>1. q \in Seq(Underway) /\ q # << >> /\ q[Len(q)] = Reply /\ queued[c] = NoQueue
  BY DEF Typed, Own
<1>2. /\ After(q) # << >> /\ After(q)[Len(After(q))] = Reply
      /\ \A i \in DOMAIN After(q) : \E j \in DOMAIN q : After(q)[i].name = q[j].name
  <2> HIDE DEF q
  <2>1. Head(q).name # "reply"
    BY DEF q
  <2> QED BY <1>1, <2>1, AfterIs
<1>3. c \notin inside' => \A i \in DOMAIN After(q) : After(q)[i].name \in AllowedWhileOut \cup {"reply"}
  <2>1. c \notin inside' => \A i \in DOMAIN q : q[i].name \in AllowedWhileOut \cup {"reply"}
    BY DEF Own
  <2> HIDE DEF q
  <2> QED BY <1>2, <2>1
<1>4. /\ todo'[c] # << >> /\ todo'[c][Len(todo'[c])] = Reply /\ queued'[c] = NoQueue
      /\ c \notin inside' => \A i \in DOMAIN todo'[c] : todo'[c][i].name \in AllowedWhileOut \cup {"reply"}
  BY <1>1, <1>2, <1>3
<1> HIDE DEF q
<1> QED BY <1>4, Zenon DEF Own, AllowedWhileOut, Once

\* A command under way that only clients let in give.
LEMMA OnlyInside ==
    ASSUME NEW c \in Clients, Typed, Own(c), link[c] = "up", todo[c] # << >>,
           Head(todo[c]).name \notin AllowedWhileOut \cup {"reply"}
    PROVE  c \in inside
<1>1. todo[c] \in Seq(Underway)
  BY DEF Typed
<1>2. 1 \in DOMAIN todo[c] /\ Head(todo[c]) = todo[c][1]
  BY <1>1
<1> QED BY <1>2, Zenon DEF Own

\* The channel a step is about.
LEMMA ChannelOfStep ==
    ASSUME NEW c \in Clients, Typed, Own(c), todo[c] # << >>,
           Head(todo[c]).name \in {"SUBSCRIBE", "UNSUBSCRIBE", "PUBLISH"}, Head(todo[c]).args # << >>
    PROVE  Arg(c) \in Channels
<1> DEFINE call == Head(todo[c])
<1>1. call \in Underway
  <2>1. todo[c] \in Seq(Underway) /\ todo[c][Len(todo[c])] = Reply
    BY DEF Typed, Own
  <2> QED BY <2>1, AfterIs
<1>2. call.name \in {"SUBSCRIBE", "UNSUBSCRIBE", "PUBLISH"} /\ call.args # << >>
  OBVIOUS
<1>3. call.args[1] \in Channels
  <2> HIDE DEF call
  <2>1. call.args \in Seq(Channels)
    BY <1>1, <1>2, UnderwayIs DEF Call
  <2> QED BY <1>2, <2>1
<1> QED BY <1>3 DEF Arg

LEMMA OnIs ==
    ASSUME EmptyIsForgotten, NEW ch
    PROVE  On(ch) \in [Clients -> Nat]
BY DEF EmptyIsForgotten, On, NoOne

\* The tally after one channel of it has changed.
LEMMA TallyMoves ==
    ASSUME EmptyIsForgotten, TallyIsTrue, NEW ch \in Channels, NEW them \in [Clients -> Nat],
           listeners' = Tally(ch, them), link' = link,
           \A d \in Clients, x \in Channels : x # ch => (x \in Range(on'[d]) <=> x \in Range(on[d])),
           \A d \in Clients :
               IF link[d] = "up" THEN them[d] = (IF ch \in Range(on'[d]) THEN 1 ELSE 0)
               ELSE them[d] <= (IF ch \in Range(on'[d]) THEN 1 ELSE 0)
    PROVE  EmptyIsForgotten' /\ TallyIsTrue'
<1>1. /\ DOMAIN listeners' = (DOMAIN listeners \ {ch}) \cup {y \in {ch} : them # NoOne}
      /\ \A x \in DOMAIN listeners' : listeners'[x] = IF x = ch THEN them ELSE listeners[x]
  BY DEF Tally
<1>2. EmptyIsForgotten'
  BY <1>1 DEF EmptyIsForgotten, NoOne
<1>3. On(ch)' = them
  BY <1>1 DEF On, NoOne
<1>4. ASSUME NEW x \in Channels, x # ch PROVE On(x)' = On(x)
  BY <1>1, <1>4 DEF On, NoOne
<1>5. TallyIsTrue'
  <2> SUFFICES ASSUME NEW d \in Clients, NEW x \in Channels
               PROVE  IF link'[d] = "up" THEN (On(x)[d])' = (IF x \in Range(on'[d]) THEN 1 ELSE 0)
                      ELSE (On(x)[d])' <= (IF x \in Range(on'[d]) THEN 1 ELSE 0)
    BY DEF TallyIsTrue
  <2>1. CASE x = ch
    BY <1>3, <2>1
  <2>2. CASE x # ch
    <3>1. (On(x)[d])' = On(x)[d] /\ (x \in Range(on'[d]) <=> x \in Range(on[d]))
      BY <1>4, <2>2
    <3>2. IF link[d] = "up" THEN On(x)[d] = (IF x \in Range(on[d]) THEN 1 ELSE 0)
          ELSE On(x)[d] <= (IF x \in Range(on[d]) THEN 1 ELSE 0)
      BY DEF TallyIsTrue
    <3> QED BY <3>1, <3>2
  <2> QED BY <2>1, <2>2
<1> QED BY <1>2, <1>5

\* The tally when neither it nor what the connections are on changes, and no
\* connection comes up that is on a channel.
LEMMA TallyUntouched ==
    ASSUME EmptyIsForgotten, TallyIsTrue, UNCHANGED <<on, listeners>>,
           \A d \in Clients : link'[d] = "up" /\ link[d] # "up" => on[d] = << >>
    PROVE  EmptyIsForgotten' /\ TallyIsTrue'
<1>1. EmptyIsForgotten'
  BY DEF EmptyIsForgotten, NoOne
<1>2. TallyIsTrue'
  <2> SUFFICES ASSUME NEW d \in Clients, NEW x \in Channels
               PROVE  IF link'[d] = "up" THEN (On(x)[d])' = (IF x \in Range(on'[d]) THEN 1 ELSE 0)
                      ELSE (On(x)[d])' <= (IF x \in Range(on'[d]) THEN 1 ELSE 0)
    BY DEF TallyIsTrue
  <2>1. (On(x)[d])' = On(x)[d] /\ on'[d] = on[d]
    BY DEF On
  <2>2. IF link[d] = "up" THEN On(x)[d] = (IF x \in Range(on[d]) THEN 1 ELSE 0)
        ELSE On(x)[d] <= (IF x \in Range(on[d]) THEN 1 ELSE 0)
    BY DEF TallyIsTrue
  <2>3. On(x)[d] \in Nat
    <3>1. On(x) \in [Clients -> Nat]
      BY OnIs
    <3> QED BY <3>1
  <2>4. on[d] = << >> => x \notin Range(on[d])
    BY NoneContained
  <2> QED BY <2>1, <2>2, <2>3, <2>4
<1> QED BY <1>1, <1>2

-----------------------------------------------------------------------------
(* Every step keeps the invariant.                                         *)

LEMMA InitHolds == Init => IInv
<1> SUFFICES ASSUME Init PROVE IInv
  OBVIOUS
<1>1. Typed
  BY DEF Init, Typed
<1>2. DOMAIN listeners = {}
  BY DEF Init
<1>3. EmptyIsForgotten
  BY <1>2 DEF EmptyIsForgotten
<1>4. TallyIsTrue
  <2> SUFFICES ASSUME NEW c \in Clients, NEW ch \in Channels
               PROVE  link[c] # "up" /\ On(ch)[c] <= (IF ch \in Range(on[c]) THEN 1 ELSE 0)
    BY DEF TallyIsTrue
  <2>1. link[c] # "up"
    BY DEF Init
  <2>2. On(ch)[c] = 0
    BY <1>2 DEF On, NoOne
  <2> QED BY <2>1, <2>2
<1>5. ASSUME NEW c \in Clients PROVE Own(c)
  <2>1. on[c] = << >> /\ link[c] = "gone" /\ inside = {} /\ todo[c] = << >> /\ unheard[c] = {} /\ queued[c] = NoQueue
    BY DEF Init
  <2>2. Once(on[c])
    BY <2>1 DEF Once
  <2> QED BY <2>1, <2>2 DEF Own
<1> QED BY <1>1, <1>3, <1>4, <1>5 DEF IInv

LEMMA ConnectKeeps ==
    ASSUME IInv, NEW c \in Clients, Connect(c)
    PROVE  IInv'
<1> USE DEF IInv
<1>1. Typed'
  BY DEF Typed, Connect, history
<1>2. Own(c) /\ link[c] = "gone"
  BY DEF Connect
<1>3. EmptyIsForgotten' /\ TallyIsTrue'
  <2>1. UNCHANGED <<on, listeners>>
    BY DEF Connect
  <2>2. \A d \in Clients : link'[d] = "up" /\ link[d] # "up" => on[d] = << >>
    BY <1>2 DEF Connect, Typed, Own
  <2> QED BY <2>1, <2>2, TallyUntouched
<1>4. ASSUME NEW d \in Clients PROVE Own(d)'
  <2>1. CASE d = c
    <3>1. /\ link'[c] = "up" /\ on'[c] = << >> /\ queued'[c] = NoQueue /\ todo'[c] = << >> /\ unheard'[c] = {}
          /\ on'[c] = on[c]
      BY <1>2 DEF Connect, Typed, Own, history
    <3>2. Once(on'[c])
      BY <1>2, <3>1 DEF Own
    <3>3. DOMAIN todo'[c] = {}
      BY <3>1
    <3> QED BY <2>1, <3>1, <3>2, <3>3 DEF Own, Once
  <2>2. CASE d # c
    BY <2>2, OwnKept, Zenon DEF Connect, Typed, history
  <2> QED BY <2>1, <2>2
<1> QED BY <1>1, <1>3, <1>4

LEMMA AskKeeps ==
    ASSUME IInv, NEW c \in Clients, NEW call \in Queueable, Ask(c, call)
    PROVE  IInv'
<1> USE DEF IInv
<1> DEFINE q == Append(<<call>>, Reply)
<1>1. Own(c) /\ link[c] = "up" /\ todo[c] = << >> /\ MayAsk(c, call.name)
  BY Zenon DEF Ask, Waiting
<1>2. call \in Underway /\ Reply \in Underway /\ Reply.name = "reply"
  BY QueueableIsUnderway, Zenon DEF Underway, Reply
<1>3. /\ q \in Seq(Underway) /\ q # << >> /\ q[Len(q)] = Reply
      /\ \A i \in DOMAIN q : q[i].name \in {call.name, "reply"}
  <2>1. q \in Seq(Underway) /\ Len(q) = 2 /\ DOMAIN q = 1 .. 2 /\ q[1] = call /\ q[2] = Reply
    BY <1>2
  <2> HIDE DEF q
  <2>2. q # << >>
    <3>1. Len(q) # 0
      BY <2>1
    <3> QED BY <2>1, <3>1, NotEmpty, Zenon
  <2> QED BY <1>2, <2>1, <2>2
<1>4. /\ UNCHANGED <<link, on, inside, inbox, listeners, passwords, published, answer, unheard>>
      /\ \/ queued[c] = NoQueue /\ todo' = [todo EXCEPT ![c] = q] /\ queued' = queued
         \/ queued[c] # NoQueue /\ queued' = [queued EXCEPT ![c] = Append(@, call)] /\ todo' = todo
  BY DEF Ask, Begin, history
<1> HIDE DEF q
<1>5. Typed'
  <2>1. todo' \in [Clients -> Seq(Underway)]
    BY <1>3, <1>4, Zenon DEF Typed
  <2>2. queued' \in [Clients -> Seq(Queueable) \cup {NoQueue}]
    <3>1. queued[c] # NoQueue => Append(queued[c], call) \in Seq(Queueable)
      BY DEF Typed
    <3> QED BY <1>4, <3>1, Zenon DEF Typed
  <2> QED BY <1>4, <2>1, <2>2, Zenon DEF Typed
<1>6. EmptyIsForgotten' /\ TallyIsTrue'
  BY <1>4, TallyUntouched
<1>7. ASSUME NEW d \in Clients PROVE Own(d)'
  <2>1. CASE d = c /\ queued[c] = NoQueue
    <3>1. todo'[c] = q /\ queued'[c] = NoQueue /\ link'[c] = "up" /\ on'[c] = on[c] /\ inside' = inside
      BY <1>1, <1>4, <2>1 DEF Typed
    <3>2. c \notin inside => call.name \in AllowedWhileOut /\ on[c] = << >>
      BY <1>1 DEF MayAsk, Own
    <3>3. c \notin inside' =>
             on'[c] = << >> /\ \A i \in DOMAIN todo'[c] : todo'[c][i].name \in AllowedWhileOut \cup {"reply"}
      BY <1>3, <3>1, <3>2
    <3>4. todo'[c] # << >> /\ todo'[c][Len(todo'[c])] = Reply
      BY <1>3, <3>1
    <3>5. Once(on[c])'
      BY <1>1, <3>1 DEF Own, Once
    <3>6. Own(c)'
      BY <3>1, <3>3, <3>4, <3>5, Zenon DEF Own, AllowedWhileOut
    <3> QED BY <2>1, <3>6, Zenon
  <2>2. CASE d = c /\ queued[c] # NoQueue
    <3>1. todo'[c] = todo[c] /\ link'[c] = "up" /\ on'[c] = on[c] /\ inside' = inside /\ unheard'[c] = unheard[c]
      BY <1>1, <1>4, <2>2
    <3>2. c \in inside /\ on[c] = << >>
      BY <1>1, <2>2, Zenon DEF Own
    <3> QED BY <1>1, <2>2, <3>1, <3>2 DEF Own, Once
  <2>3. CASE d # c
    BY <1>4, <2>3, OwnKept, Zenon DEF Typed
  <2> QED BY <2>1, <2>2, <2>3
<1> QED BY <1>5, <1>6, <1>7

LEMMA SteerKeeps ==
    ASSUME IInv, NEW c \in Clients, NEW call \in Steering, Steer(c, call.name)
    PROVE  IInv'
<1> USE DEF IInv
<1> DEFINE q == Append(queued[c], Reply)
<1>1. Own(c) /\ link[c] = "up" /\ todo[c] = << >> /\ MayAsk(c, call.name)
  BY DEF Steer, Waiting
<1>2. call.name \in {"MULTI", "EXEC", "DISCARD"}
  BY DEF Steering, Call
<1>3. c \in inside /\ on[c] = << >>
  BY <1>1, <1>2, Zenon DEF MayAsk, AllowedWhileOut, AllowedWhileListening, Listening
<1>4. UNCHANGED <<link, on, inside, inbox, listeners, passwords, published, answer, unheard>>
  BY DEF Steer, history
<1>5. CASE call.name = "EXEC"
  <2>1. queued' = [queued EXCEPT ![c] = NoQueue] /\ todo' = [todo EXCEPT ![c] = q] /\ queued[c] # NoQueue
    BY <1>5 DEF Steer, Begin
  <2>2. q \in Seq(Underway) /\ q # << >> /\ q[Len(q)] = Reply
    <3> DEFINE steps == queued[c]
    <3>1. steps \in Seq(Queueable)
      BY <2>1 DEF Typed
    <3>2. Reply \in Underway
      BY DEF Underway
    <3> HIDE DEF steps
    <3>5. steps \in Seq(Underway)
      BY <3>1, QueueableIsUnderway
    <3>6. Append(steps, Reply) \in Seq(Underway) /\ Len(Append(steps, Reply)) = Len(steps) + 1
          /\ Len(steps) \in Nat /\ Append(steps, Reply)[Len(steps) + 1] = Reply
      BY <3>2, <3>5
    <3>7. Append(steps, Reply) # << >>
      <4>1. Len(Append(steps, Reply)) # 0
        BY <3>6
      <4> QED BY <3>6, <4>1, EmptySeq, Zenon
    <3> QED BY <3>6, <3>7 DEF steps
  <2> HIDE DEF q
  <2>3. Typed'
    BY <1>4, <2>1, <2>2 DEF Typed
  <2>4. Own(c)'
    <3>1. todo'[c] = q /\ queued'[c] = NoQueue /\ link'[c] = "up" /\ on'[c] = on[c] /\ c \in inside'
      BY <1>1, <1>3, <1>4, <2>1 DEF Typed
    <3> QED BY <1>1, <2>2, <3>1, Zenon DEF Own, Once
  <2>5. ASSUME NEW d \in Clients, d # c PROVE Own(d)'
    BY <1>4, <2>1, <2>5, OwnKept DEF Typed
  <2> QED BY <1>4, <2>3, <2>4, <2>5, TallyUntouched
<1>6. CASE call.name # "EXEC"
  <2>1. todo' = todo /\ queued' = [queued EXCEPT ![c] = IF call.name = "MULTI" THEN << >> ELSE NoQueue]
    BY <1>6 DEF Steer
  <2>2. Typed'
    BY <1>4, <2>1 DEF Typed
  <2>3. Own(c)'
    <3>1. todo'[c] = << >> /\ link'[c] = "up" /\ on'[c] = on[c] /\ c \in inside' /\ unheard'[c] = unheard[c]
      BY <1>1, <1>3, <1>4, <2>1
    <3> QED BY <1>1, <1>3, <3>1 DEF Own, Once
  <2>4. ASSUME NEW d \in Clients, d # c PROVE Own(d)'
    BY <1>4, <2>1, <2>4, OwnKept DEF Typed
  <2> QED BY <1>4, <2>2, <2>3, <2>4, TallyUntouched
<1> QED BY <1>5, <1>6

\* The type of the list of steps after one is done.
LEMMA TodoIsTyped ==
    ASSUME IInv, NEW c \in Clients, todo[c] # << >>, StepDone(c)
    PROVE  /\ todo' \in [Clients -> Seq(Underway)] /\ todo'[c] = After(todo[c])
           /\ \A d \in Clients : d # c => todo'[d] = todo[d]
<1>1. todo[c] \in Seq(Underway) /\ todo[c][Len(todo[c])] = Reply
  BY DEF IInv, Typed, Own
<1>2. After(todo[c]) \in Seq(Underway)
  BY <1>1, AfterIs
<1> QED BY <1>2 DEF IInv, Typed, StepDone

LEMMA SubscribeKeeps ==
    ASSUME IInv, NEW c \in Clients, Subscribe(c)
    PROVE  IInv'
<1> USE DEF IInv
<1> DEFINE ch == Arg(c)
<1>1. /\ Own(c) /\ link[c] = "up" /\ todo[c] # << >> /\ Head(todo[c]).name = "SUBSCRIBE" /\ StepDone(c)
      /\ UNCHANGED <<link, queued, inside, inbox, passwords, published, answer>>
  BY DEF Subscribe, Doing
<1>2. c \in inside
  BY <1>1, OnlyInside, Zenon DEF AllowedWhileOut
<1>3. todo' \in [Clients -> Seq(Underway)] /\ todo'[c] = After(todo[c]) /\ \A d \in Clients : d # c => todo'[d] = todo[d]
  BY <1>1, TodoIsTyped
<1>4. ch \in Channels
  <2>1. Head(todo[c]) \in Underway
    BY <1>1 DEF Typed
  <2>2. Head(todo[c]).args # << >>
    BY <1>1, <2>1, UnderwayIs
  <2> QED BY <1>1, <2>2, ChannelOfStep
<1>5. CASE ch \in Range(on[c])
  <2>1. UNCHANGED <<on, listeners, unheard>>
    BY <1>5 DEF Subscribe
  <2>2. Typed'
    BY <1>1, <1>3, <2>1 DEF Typed
  <2>3. Own(c)'
    <3>1. Once(on'[c])
      BY <1>1, <2>1 DEF Own
    <3> QED BY <1>1, <1>2, <1>3, <3>1, OwnGoesOn
  <2>4. ASSUME NEW d \in Clients, d # c PROVE Own(d)'
    BY <1>1, <1>3, <2>1, <2>4, OwnKept
  <2> QED BY <1>1, <2>1, <2>2, <2>3, <2>4, TallyUntouched
<1>6. CASE ch \notin Range(on[c])
  <2>1. /\ on' = [on EXCEPT ![c] = Append(@, ch)]
        /\ listeners' = Tally(ch, [On(ch) EXCEPT ![c] = @ + 1])
        /\ unheard' = [unheard EXCEPT ![c] = @ \cup {ch}]
    BY <1>6 DEF Subscribe, Joined
  <2> HIDE DEF ch
  <2>2. on[c] \in Seq(Channels) /\ Once(on[c])
    BY <1>1 DEF Typed, Own
  <2>3. /\ Append(on[c], ch) \in Seq(Channels) /\ Once(Append(on[c], ch))
        /\ \A x : x \in Range(Append(on[c], ch)) <=> x \in Range(on[c]) \/ x = ch
    BY <1>4, <1>6, <2>2, AppendedIsThere
  <2>4. /\ on' \in [Clients -> Seq(Channels)] /\ on'[c] = Append(on[c], ch)
        /\ \A d \in Clients : d # c => on'[d] = on[d]
        /\ unheard' \in [Clients -> SUBSET Channels] /\ \A d \in Clients : d # c => unheard'[d] = unheard[d]
    BY <1>4, <2>1, <2>3 DEF Typed
  <2>5. Typed'
    BY <1>1, <1>3, <2>4 DEF Typed
  <2>6. EmptyIsForgotten' /\ TallyIsTrue'
    <3> DEFINE them == [On(ch) EXCEPT ![c] = @ + 1]
    <3>1. On(ch) \in [Clients -> Nat] /\ On(ch)[c] = 0
      BY <1>1, <1>4, <1>6, OnIs DEF TallyIsTrue
    <3>2. them \in [Clients -> Nat] /\ them[c] = 1 /\ \A d \in Clients : d # c => them[d] = On(ch)[d]
      BY <3>1
    <3> HIDE DEF them
    <3>3. \A d \in Clients, x \in Channels : x # ch => (x \in Range(on'[d]) <=> x \in Range(on[d]))
      BY <2>3, <2>4, Zenon
    <3>4. ASSUME NEW d \in Clients
          PROVE  IF link[d] = "up" THEN them[d] = (IF ch \in Range(on'[d]) THEN 1 ELSE 0)
                 ELSE them[d] <= (IF ch \in Range(on'[d]) THEN 1 ELSE 0)
      <4>1. CASE d = c
        <5>1. ch \in Range(on'[c])
          BY <2>3, <2>4
        <5> QED BY <1>1, <3>2, <4>1, <5>1
      <4>2. CASE d # c
        <5>1. them[d] = On(ch)[d] /\ on'[d] = on[d]
          BY <2>4, <3>2, <4>2
        <5> QED BY <1>4, <5>1 DEF TallyIsTrue
      <4> QED BY <4>1, <4>2
    <3>5. listeners' = Tally(ch, them) /\ link' = link
      BY <1>1, <2>1 DEF them
    <3> QED BY <1>4, <3>2, <3>3, <3>4, <3>5, TallyMoves
  <2>7. Own(c)'
    <3>1. Once(on'[c])
      BY <2>3, <2>4
    <3> QED BY <1>1, <1>2, <1>3, <3>1, OwnGoesOn
  <2>8. ASSUME NEW d \in Clients, d # c PROVE Own(d)'
    BY <1>1, <1>3, <2>4, <2>8, OwnKept, Zenon
  <2> QED BY <2>5, <2>6, <2>7, <2>8
<1> QED BY <1>5, <1>6

\* A connection leaves a channel it is on.
LEMMA LeavesTally ==
    ASSUME IInv, NEW c \in Clients, NEW ch \in Channels, NEW rest \in Seq(Channels),
           Left(c, ch), on' = [on EXCEPT ![c] = rest], link' = link,
           \A x : x \in Range(rest) <=> x \in Range(on[c]) /\ x # ch
    PROVE  EmptyIsForgotten' /\ TallyIsTrue'
<1> USE DEF IInv
<1> DEFINE them == [On(ch) EXCEPT ![c] = 0]
<1>1. On(ch) \in [Clients -> Nat]
  BY OnIs
<1>2. them \in [Clients -> Nat] /\ them[c] = 0 /\ \A d \in Clients : d # c => them[d] = On(ch)[d]
  BY <1>1
<1>3. listeners' = Tally(ch, them)
  BY DEF Left
<1> HIDE DEF them
<1>4. on'[c] = rest /\ \A d \in Clients : d # c => on'[d] = on[d]
  BY DEF Typed
<1>5. \A d \in Clients, x \in Channels : x # ch => (x \in Range(on'[d]) <=> x \in Range(on[d]))
  BY <1>4
<1>6. ASSUME NEW d \in Clients
      PROVE  IF link[d] = "up" THEN them[d] = (IF ch \in Range(on'[d]) THEN 1 ELSE 0)
             ELSE them[d] <= (IF ch \in Range(on'[d]) THEN 1 ELSE 0)
  <2>1. CASE d = c
    <3>1. ch \notin Range(on'[c])
      BY <1>4
    <3> QED BY <1>2, <2>1, <3>1
  <2>2. CASE d # c
    <3>1. them[d] = On(ch)[d] /\ on'[d] = on[d]
      BY <1>2, <1>4, <2>2
    <3> QED BY <3>1 DEF TallyIsTrue
  <2> QED BY <2>1, <2>2
<1> QED BY <1>2, <1>3, <1>5, <1>6, TallyMoves

LEMMA UnsubscribeKeeps ==
    ASSUME IInv, NEW c \in Clients, Unsubscribe(c)
    PROVE  IInv'
<1> USE DEF IInv
<1> DEFINE ch == Arg(c)
<1>1. /\ Own(c) /\ link[c] = "up" /\ todo[c] # << >> /\ Head(todo[c]).name = "UNSUBSCRIBE"
      /\ UNCHANGED <<link, queued, inside, inbox, passwords, published, answer, unheard>>
  BY DEF Unsubscribe, Doing, history
<1>2. c \in inside
  BY <1>1, OnlyInside, Zenon DEF AllowedWhileOut
<1>3. CASE Head(todo[c]).args = << >>
  <2>0. UNCHANGED <<on, listeners>>
    BY <1>3 DEF Unsubscribe
  <2>1. CASE on[c] # << >>
    <3> DEFINE p == todo[c]
               call == [p[1] EXCEPT !.args = on[c]]
               q == [p EXCEPT ![1] = call]
    <3>1. todo' = [todo EXCEPT ![c] = q]
      BY <1>3, <2>1 DEF Unsubscribe, Listening, Typed
    <3>2. p \in Seq(Underway) /\ p # << >> /\ p[Len(p)] = Reply /\ p[1].name = "UNSUBSCRIBE" /\ p[1] \in Underway
      BY <1>1 DEF Typed, Own
    <3>3. call \in Underway
      <4>1. on[c] \in Seq(Channels)
        BY DEF Typed
      <4>2. p[1] \in Call({"UNSUBSCRIBE"}, Seq(Channels))
        BY <3>2, UnderwayIs
      <4> HIDE DEF p
      <4> QED BY <4>1, <4>2, Zenon DEF Underway, Call
    <3>4. q \in Seq(Underway) /\ q # << >> /\ q[Len(q)] = Reply
      <4> HIDE DEF p, call
      <4>1. Len(p) \in Nat /\ Len(p) # 0 /\ Len(p) # 1
        BY <3>2, EmptySeq DEF Reply
      <4>2. q \in Seq(Underway) /\ Len(q) = Len(p) /\ \A i \in 1 .. Len(p) : i # 1 => q[i] = p[i]
        BY <3>2, <3>3
      <4>3. q # << >>
        BY <4>1, <4>2, EmptySeq
      <4> QED BY <3>2, <4>1, <4>2, <4>3
    <3> HIDE DEF q
    <3>5. Typed'
      BY <1>1, <2>0, <3>1, <3>4 DEF Typed
    <3>6. Own(c)'
      <4>1. todo'[c] = q /\ on'[c] = on[c] /\ queued'[c] = queued[c] /\ link'[c] = "up" /\ c \in inside'
        BY <1>1, <1>2, <2>0, <3>1 DEF Typed
      <4>2. Once(on[c])' /\ queued'[c] = NoQueue
        BY <1>1, <4>1 DEF Own, Once
      <4>3. todo'[c] # << >> /\ todo'[c][Len(todo'[c])] = Reply
        BY <3>4, <4>1
      <4> QED BY <4>1, <4>2, <4>3, Zenon DEF Own
    <3>7. ASSUME NEW d \in Clients, d # c PROVE Own(d)'
      BY <1>1, <2>0, <3>1, <3>7, OwnKept DEF Typed
    <3> QED BY <1>1, <2>0, <3>5, <3>6, <3>7, TallyUntouched
  <2>2. CASE on[c] = << >>
    <3>1. StepDone(c)
      BY <1>3, <2>2 DEF Unsubscribe, Listening
    <3>2. todo' \in [Clients -> Seq(Underway)] /\ todo'[c] = After(todo[c]) /\ \A d \in Clients : d # c => todo'[d] = todo[d]
      BY <1>1, <3>1, TodoIsTyped
    <3>3. Typed'
      BY <1>1, <2>0, <3>2 DEF Typed
    <3>4. Own(c)'
      <4>1. Once(on'[c])
        BY <1>1, <2>0 DEF Own
      <4> QED BY <1>1, <1>2, <3>2, <4>1, OwnGoesOn
    <3>5. ASSUME NEW d \in Clients, d # c PROVE Own(d)'
      BY <1>1, <2>0, <3>2, <3>5, OwnKept
    <3> QED BY <1>1, <2>0, <3>3, <3>4, <3>5, TallyUntouched
  <2> QED BY <2>1, <2>2
<1>4. CASE Head(todo[c]).args # << >>
  <2>1. StepDone(c)
    BY <1>4 DEF Unsubscribe
  <2>2. todo' \in [Clients -> Seq(Underway)] /\ todo'[c] = After(todo[c]) /\ \A d \in Clients : d # c => todo'[d] = todo[d]
    BY <1>1, <2>1, TodoIsTyped
  <2>3. ch \in Channels
    BY <1>1, <1>4, ChannelOfStep
  <2>4. CASE ch \notin Range(on[c])
    <3>1. UNCHANGED <<on, listeners>>
      BY <1>4, <2>4 DEF Unsubscribe
    <3>2. Typed'
      BY <1>1, <2>2, <3>1 DEF Typed
    <3>3. Own(c)'
      <4>1. Once(on'[c])
        BY <1>1, <3>1 DEF Own
      <4> QED BY <1>1, <1>2, <2>2, <4>1, OwnGoesOn
    <3>4. ASSUME NEW d \in Clients, d # c PROVE Own(d)'
      BY <1>1, <2>2, <3>1, <3>4, OwnKept
    <3> QED BY <1>1, <3>1, <3>2, <3>3, <3>4, TallyUntouched
  <2>5. CASE ch \in Range(on[c])
    <3> DEFINE rest == Without(on[c], ch)
    <3>1. on' = [on EXCEPT ![c] = rest] /\ Left(c, ch)
      BY <1>4, <2>5 DEF Unsubscribe
    <3> HIDE DEF ch
    <3>2. on[c] \in Seq(Channels) /\ Once(on[c])
      BY <1>1 DEF Typed, Own
    <3>3. /\ rest \in Seq(Channels) /\ Once(rest)
          /\ \A x : x \in Range(rest) <=> x \in Range(on[c]) /\ x # ch
      BY <2>5, <3>2, RemovedIsGone
    <3> HIDE DEF rest
    <3>4. on' \in [Clients -> Seq(Channels)] /\ on'[c] = rest /\ \A d \in Clients : d # c => on'[d] = on[d]
      BY <3>1, <3>3 DEF Typed
    <3>5. Typed'
      BY <1>1, <2>2, <3>4 DEF Typed
    <3>6. EmptyIsForgotten' /\ TallyIsTrue'
      BY <1>1, <2>3, <3>1, <3>3, LeavesTally, Zenon
    <3>7. Own(c)'
      <4>1. Once(on'[c])
        BY <3>3, <3>4
      <4> QED BY <1>1, <1>2, <2>2, <4>1, OwnGoesOn
    <3>8. ASSUME NEW d \in Clients, d # c PROVE Own(d)'
      BY <1>1, <2>2, <3>4, <3>8, OwnKept, Zenon
    <3> QED BY <3>5, <3>6, <3>7, <3>8
  <2> QED BY <2>4, <2>5
<1> QED BY <1>3, <1>4

\* Who a message reaches: a connection that is up once, if it is on the channel.
LEMMA ReachedIs ==
    ASSUME IInv, NEW ch \in Channels
    PROVE  /\ Reached(ch) \in [Clients -> {0, 1}]
           /\ \A d \in Clients : Reached(ch)[d] = IF link[d] = "up" /\ ch \in Range(on[d]) THEN 1 ELSE 0
<1> SUFFICES ASSUME NEW d \in Clients
             PROVE  (IF link[d] = "up" THEN On(ch)[d] ELSE 0) = IF link[d] = "up" /\ ch \in Range(on[d]) THEN 1 ELSE 0
  BY DEF Reached
<1> QED BY DEF IInv, TallyIsTrue

\* What a message does to the queues.
LEMMA DeliveredIs ==
    ASSUME IInv, NEW c \in Clients, NEW ch \in Channels, Deliver(c, ch, Reached(ch)), NEW d \in Clients
    PROVE  inbox'[d] \in Seq(Channels \X Nat) /\ Len(inbox'[d]) = Len(inbox[d]) + Reached(ch)[d]
<1> DEFINE m == <<ch, published + 1>>
           n == Reached(ch)[d]
           more == [i \in 1 .. n |-> m]
<1>1. inbox'[d] = inbox[d] \o more
  BY Zenon DEF Deliver
<1>2. inbox[d] \in Seq(Channels \X Nat) /\ m \in Channels \X Nat
  BY DEF IInv, Typed
<1>3. n \in Nat
  BY ReachedIs
<1> HIDE DEF m, n
<1>4. more \in Seq(Channels \X Nat) /\ Len(more) = n
  <2>1. more \in [1 .. n -> Channels \X Nat]
    BY <1>2
  <2> HIDE DEF more
  <2> QED BY <1>3, <2>1
<1> HIDE DEF more
<1>5. inbox[d] \o more \in Seq(Channels \X Nat) /\ Len(inbox[d] \o more) = Len(inbox[d]) + n
  BY <1>2, <1>4, ConcatProperties, Zenon
<1> QED BY <1>1, <1>5 DEF n

LEMMA PublishKeeps ==
    ASSUME IInv, NEW c \in Clients, Publish(c)
    PROVE  IInv'
<1> USE DEF IInv
<1>0. PICK ch \in Channels : Deliver(c, ch, Reached(ch))
  BY DEF Publish
<1>1. /\ Own(c) /\ link[c] = "up" /\ todo[c] # << >> /\ Head(todo[c]).name = "PUBLISH" /\ StepDone(c)
      /\ UNCHANGED <<link, on, queued, inside, passwords, unheard>>
      /\ published' = published + 1 /\ listeners' = Tally(ch, Reached(ch))
  BY <1>0 DEF Deliver, Doing
<1>2. c \in inside
  BY <1>1, OnlyInside, Zenon DEF AllowedWhileOut
<1>3. todo' \in [Clients -> Seq(Underway)] /\ todo'[c] = After(todo[c]) /\ \A d \in Clients : d # c => todo'[d] = todo[d]
  BY <1>1, TodoIsTyped
<1>4. inbox' \in [Clients -> Seq(Channels \X Nat)]
  <2>1. inbox' = [d \in Clients |-> inbox[d] \o [i \in 1 .. Reached(ch)[d] |-> <<ch, published + 1>>]]
    BY <1>0 DEF Deliver
  <2>2. \A d \in Clients : inbox'[d] \in Seq(Channels \X Nat)
    BY <1>0, DeliveredIs
  <2>3. inbox' = [d \in Clients |-> inbox'[d]]
    BY <2>1, Zenon
  <2> QED BY <2>2, <2>3
<1>5. Typed'
  <2>1. published' \in Nat
    BY <1>1 DEF Typed
  <2> QED BY <1>1, <1>3, <1>4, <2>1 DEF Typed
<1>6. EmptyIsForgotten' /\ TallyIsTrue'
  <2> DEFINE them == Reached(ch)
  <2>1. /\ them \in [Clients -> {0, 1}]
        /\ \A d \in Clients : them[d] = IF link[d] = "up" /\ ch \in Range(on[d]) THEN 1 ELSE 0
    BY ReachedIs
  <2>2. listeners' = Tally(ch, them) /\ link' = link /\ on' = on
    BY <1>1
  <2> HIDE DEF them
  <2>3. them \in [Clients -> Nat]
    BY <2>1
  <2>4. \A d \in Clients, x \in Channels : x # ch => (x \in Range(on'[d]) <=> x \in Range(on[d]))
    BY <2>2
  <2>5. \A d \in Clients :
            IF link[d] = "up" THEN them[d] = (IF ch \in Range(on'[d]) THEN 1 ELSE 0)
            ELSE them[d] <= (IF ch \in Range(on'[d]) THEN 1 ELSE 0)
    BY <2>1, <2>2
  <2> QED BY <2>2, <2>3, <2>4, <2>5, TallyMoves
<1>7. Own(c)'
  <2>1. Once(on'[c])
    BY <1>1, Zenon DEF Own
  <2> QED BY <1>1, <1>2, <1>3, <2>1, OwnGoesOn
<1>8. ASSUME NEW d \in Clients, d # c PROVE Own(d)'
  BY <1>1, <1>3, <1>8, OwnKept, Zenon
<1> QED BY <1>5, <1>6, <1>7, <1>8

LEMMA SetUserKeeps ==
    ASSUME IInv, NEW c \in Clients, SetUser(c)
    PROVE  IInv'
<1> USE DEF IInv
<1>1. /\ Own(c) /\ link[c] = "up" /\ todo[c] # << >> /\ Head(todo[c]).name = "SETUSER" /\ StepDone(c)
      /\ UNCHANGED <<link, on, queued, inside, inbox, listeners, published, answer, unheard>>
      /\ passwords' = passwords \cup {Arg(c)}
  BY Zenon DEF SetUser, Doing, history
<1>2. todo' \in [Clients -> Seq(Underway)] /\ todo'[c] = After(todo[c]) /\ \A d \in Clients : d # c => todo'[d] = todo[d]
  BY <1>1, TodoIsTyped, Zenon
<1>3. Arg(c) \in Passwords
  <2> DEFINE call == Head(todo[c])
  <2>1. call \in Underway /\ call.name = "SETUSER"
    BY <1>1 DEF Typed
  <2>2. call.args[1] \in Passwords
    <3> HIDE DEF call
    <3>1. call.args \in Seq(Passwords) \ {<< >>}
      BY <2>1, UnderwayIs
    <3> QED BY <3>1
  <2> QED BY <2>2 DEF Arg
<1>4. Typed'
  BY <1>1, <1>2, <1>3 DEF Typed
<1>5. Own(c)'
  <2>1. Once(on'[c]) /\ (c \notin inside' => on'[c] = << >>)
    BY <1>1, Zenon DEF Own
  <2> QED BY <1>1, <1>2, <2>1, OwnGoesOn, Zenon
<1>6. ASSUME NEW d \in Clients, d # c PROVE Own(d)'
  BY <1>1, <1>2, <1>6, OwnKept, Zenon
<1> QED BY <1>1, <1>4, <1>5, <1>6, TallyUntouched, Zenon

LEMMA AuthKeeps ==
    ASSUME IInv, NEW c \in Clients, Auth(c)
    PROVE  IInv'
<1> USE DEF IInv
<1>1. /\ Own(c) /\ link[c] = "up" /\ todo[c] # << >> /\ Head(todo[c]).name \in {"AUTH", "AUTH default"} /\ StepDone(c)
      /\ UNCHANGED <<link, on, queued, inbox, listeners, passwords, published, answer, unheard>>
  BY Zenon DEF Auth, Doing, history
<1>2. inside \subseteq inside' /\ inside' \subseteq inside \cup {c}
  BY Zenon DEF Auth
<1>3. todo' \in [Clients -> Seq(Underway)] /\ todo'[c] = After(todo[c]) /\ \A d \in Clients : d # c => todo'[d] = todo[d]
  BY <1>1, TodoIsTyped, Zenon
<1>4. Typed'
  <2>1. inside' \subseteq Clients
    BY <1>2 DEF Typed
  <2> QED BY <1>1, <1>3, <2>1, Zenon DEF Typed
<1>5. Own(c)'
  <2>1. Once(on'[c]) /\ (c \notin inside' => on'[c] = << >>)
    BY <1>1, <1>2, Zenon DEF Own
  <2> QED BY <1>1, <1>2, <1>3, <2>1, OwnGoesOn, Zenon
<1>6. ASSUME NEW d \in Clients, d # c PROVE Own(d)'
  <2>1. d \in inside' <=> d \in inside
    BY <1>2, <1>6
  <2> QED BY <1>1, <1>3, <1>6, <2>1, OwnKept, Zenon
<1> QED BY <1>1, <1>4, <1>5, <1>6, TallyUntouched, Zenon

LEMMA WriteReplyKeeps ==
    ASSUME IInv, NEW c \in Clients, WriteReply(c)
    PROVE  IInv'
<1> USE DEF IInv
<1> DEFINE q == todo[c]
<1>1. /\ Own(c) /\ link[c] = "up" /\ q # << >> /\ StepDone(c)
      /\ UNCHANGED <<link, on, queued, inside, inbox, listeners, passwords, published>>
      /\ unheard' = [unheard EXCEPT ![c] = {}]
  BY DEF WriteReply, Doing
<1>2. todo' \in [Clients -> Seq(Underway)] /\ todo'[c] = After(q) /\ \A d \in Clients : d # c => todo'[d] = todo[d]
  BY <1>1, TodoIsTyped
<1>3. unheard' \in [Clients -> SUBSET Channels] /\ unheard'[c] = {} /\ \A d \in Clients : d # c => unheard'[d] = unheard[d]
  BY <1>1 DEF Typed
<1>4. Typed'
  BY <1>1, <1>2, <1>3 DEF Typed
<1>5. Own(c)'
  <2>1. q \in Seq(Underway) /\ q[Len(q)] = Reply /\ queued[c] = NoQueue
    BY <1>1, Zenon DEF Typed, Own
  <2>2. c \notin inside => on[c] = << >> /\ \A i \in DOMAIN q : q[i].name \in AllowedWhileOut \cup {"reply"}
    BY <1>1, Zenon DEF Own
  <2>3. Once(on[c])' /\ on'[c] = on[c] /\ inside' = inside /\ queued'[c] = NoQueue /\ link'[c] = "up"
    BY <1>1, <2>1, Zenon DEF Own, Once
  <2> HIDE DEF q
  <2>4. /\ After(q) # << >> => After(q)[Len(After(q))] = Reply
        /\ \A i \in DOMAIN After(q) : \E j \in DOMAIN q : After(q)[i].name = q[j].name
    BY <1>1, <2>1, AfterIs, Zenon
  <2>5. c \notin inside => \A i \in DOMAIN After(q) : After(q)[i].name \in AllowedWhileOut \cup {"reply"}
    BY <2>2, <2>4
  <2>6. /\ todo'[c] # << >> => todo'[c][Len(todo'[c])] = Reply
        /\ c \notin inside' => /\ on'[c] = << >>
                               /\ \A i \in DOMAIN todo'[c] : todo'[c][i].name \in AllowedWhileOut \cup {"reply"}
    BY <1>2, <2>2, <2>3, <2>4, <2>5, Zenon
  <2> QED BY <1>3, <2>3, <2>6, Zenon DEF Own, AllowedWhileOut
<1>6. ASSUME NEW d \in Clients, d # c PROVE Own(d)'
  BY <1>1, <1>2, <1>3, <1>6, OwnKept, Zenon
<1> QED BY <1>1, <1>4, <1>5, <1>6, TallyUntouched, Zenon

LEMMA WriteMessageKeeps ==
    ASSUME IInv, NEW c \in Clients, WriteMessage(c)
    PROVE  IInv'
<1> USE DEF IInv
<1>1. UNCHANGED <<link, on, queued, inside, todo, listeners, passwords, published, answer, unheard>>
  BY DEF WriteMessage, session, history
<1>2. Typed'
  <2>1. inbox[c] \in Seq(Channels \X Nat) /\ Tail(inbox[c]) \in Seq(Channels \X Nat)
    BY DEF Typed, WriteMessage
  <2>2. inbox' \in [Clients -> Seq(Channels \X Nat)]
    BY <2>1 DEF Typed, WriteMessage
  <2> QED BY <1>1, <2>2 DEF Typed
<1>3. ASSUME NEW d \in Clients PROVE Own(d)'
  BY <1>1, OwnKept
<1> QED BY <1>1, <1>2, <1>3, TallyUntouched

LEMMA HangUpKeeps ==
    ASSUME IInv, NEW c \in Clients, HangUp(c)
    PROVE  IInv'
<1> USE DEF IInv
<1>1. Typed'
  BY DEF Typed, HangUp
<1>2. EmptyIsForgotten' /\ TallyIsTrue'
  <2>1. UNCHANGED <<on, listeners>> /\ \A d \in Clients : link'[d] = "up" => link[d] = "up"
    BY DEF HangUp, Typed
  <2> QED BY <2>1, TallyUntouched
<1>3. Own(c)'
  <2>1. Own(c)
    OBVIOUS
  <2>2. /\ link'[c] = "closed" /\ on'[c] = on[c] /\ c \notin inside' /\ todo'[c] = << >> /\ unheard'[c] = {}
    BY DEF HangUp, Typed
  <2>3. Once(on[c])'
    BY <2>1, <2>2 DEF Own, Once
  <2> QED BY <2>2, <2>3 DEF Own
<1>4. ASSUME NEW d \in Clients, d # c PROVE Own(d)'
  BY <1>4, OwnKept, Zenon DEF HangUp, Typed
<1> QED BY <1>1, <1>2, <1>3, <1>4

LEMMA DropKeeps ==
    ASSUME IInv, NEW c \in Clients, Drop(c)
    PROVE  IInv'
<1> USE DEF IInv
<1>1. /\ Own(c) /\ link[c] = "closed"
      /\ UNCHANGED <<inside, todo, inbox, passwords, published, answer, unheard>>
  BY DEF Drop, history
<1>2. CASE on[c] # << >>
  <2> DEFINE ch == Head(on[c])
             rest == Tail(on[c])
  <2>1. Left(c, ch) /\ on' = [on EXCEPT ![c] = rest] /\ UNCHANGED <<link, queued>>
    BY <1>2 DEF Drop, Listening
  <2>2. on[c] \in Seq(Channels) /\ Once(on[c])
    BY <1>1, Zenon DEF Typed, Own
  <2>3. /\ ch \in Channels /\ rest \in Seq(Channels) /\ Once(rest)
        /\ \A x : x \in Range(rest) <=> x \in Range(on[c]) /\ x # ch
    BY <1>2, <2>2, HeadIsGone, Zenon
  <2> HIDE DEF ch, rest
  <2>4. on' \in [Clients -> Seq(Channels)] /\ on'[c] = rest /\ \A d \in Clients : d # c => on'[d] = on[d]
    BY <2>1, <2>3 DEF Typed
  <2>5. Typed'
    BY <1>1, <2>1, <2>4 DEF Typed
  <2>6. EmptyIsForgotten' /\ TallyIsTrue'
    BY <2>1, <2>3, LeavesTally, Zenon
  <2>7. Own(c)'
    <3>1. Once(on[c])'
      BY <2>3, <2>4
    <3>2. link'[c] = "closed" /\ todo'[c] = << >> /\ unheard'[c] = {} /\ c \notin inside'
      BY <1>1, <2>1 DEF Own
    <3> QED BY <3>1, <3>2 DEF Own
  <2>8. ASSUME NEW d \in Clients, d # c PROVE Own(d)'
    BY <1>1, <2>1, <2>4, <2>8, OwnKept
  <2> QED BY <2>5, <2>6, <2>7, <2>8
<1>3. CASE on[c] = << >>
  <2>1. /\ link' = [link EXCEPT ![c] = "gone"] /\ queued' = [queued EXCEPT ![c] = NoQueue]
        /\ UNCHANGED <<on, listeners>>
    BY <1>3 DEF Drop, Listening
  <2>2. Typed'
    BY <1>1, <2>1 DEF Typed
  <2>3. EmptyIsForgotten' /\ TallyIsTrue'
    <3>1. \A d \in Clients : link'[d] = "up" => link[d] = "up"
      BY <2>1 DEF Typed
    <3> QED BY <2>1, <3>1, TallyUntouched
  <2>4. Own(c)'
    <3>1. /\ link'[c] = "gone" /\ queued'[c] = NoQueue /\ on'[c] = << >> /\ on'[c] = on[c]
          /\ todo'[c] = << >> /\ unheard'[c] = {} /\ c \notin inside'
      BY <1>1, <1>3, <2>1, Zenon DEF Typed, Own
    <3>2. Once(on[c])'
      <4>1. Once(on[c])
        BY <1>1, Zenon DEF Own
      <4> QED BY <2>1, <4>1, Zenon DEF Once
    <3> QED BY <3>1, <3>2 DEF Own
  <2>5. ASSUME NEW d \in Clients, d # c PROVE Own(d)'
    BY <1>1, <2>1, <2>5, OwnKept DEF Typed
  <2> QED BY <2>2, <2>3, <2>4, <2>5
<1> QED BY <1>2, <1>3

LEMMA StutterKeeps == IInv /\ UNCHANGED vars => IInv'
<1> SUFFICES ASSUME IInv, UNCHANGED vars PROVE IInv'
  OBVIOUS
<1> USE DEF IInv
<1>1. UNCHANGED <<link, on, queued, inside, todo, inbox, listeners, passwords, published, answer, unheard>>
  BY DEF vars, history
<1>2. Typed'
  BY <1>1 DEF Typed
<1>3. ASSUME NEW d \in Clients PROVE Own(d)'
  BY <1>1, OwnKept
<1> QED BY <1>1, <1>2, <1>3, TallyUntouched

-----------------------------------------------------------------------------
(* The theorems.                                                           *)

LEMMA Invariant == Spec => []IInv
<1>1. ASSUME IInv, [Next]_vars PROVE IInv'
  <2>1. CASE UNCHANGED vars
    BY <1>1, <2>1, StutterKeeps
  <2>2. ASSUME NEW c \in Clients, Connect(c) PROVE IInv'
    BY <1>1, <2>2, ConnectKeeps
  <2>3. ASSUME NEW c \in Clients, NEW call \in Queueable, Ask(c, call) PROVE IInv'
    BY <1>1, <2>3, AskKeeps
  <2>4. ASSUME NEW c \in Clients, NEW call \in Steering, Steer(c, call.name) PROVE IInv'
    BY <1>1, <2>4, SteerKeeps
  <2>5. ASSUME NEW c \in Clients, Step(c) PROVE IInv'
    BY <1>1, <2>5, SubscribeKeeps, UnsubscribeKeeps, PublishKeeps, SetUserKeeps, AuthKeeps,
       WriteReplyKeeps, DropKeeps DEF Step
  <2>6. ASSUME NEW c \in Clients, WriteMessage(c) PROVE IInv'
    BY <1>1, <2>6, WriteMessageKeeps
  <2>7. ASSUME NEW c \in Clients, HangUp(c) PROVE IInv'
    BY <1>1, <2>7, HangUpKeeps
  <2> QED BY <1>1, <2>1, <2>2, <2>3, <2>4, <2>5, <2>6, <2>7 DEF Next
<1> QED BY <1>1, InitHolds, PTL DEF Spec

\* A channel nobody is on is forgotten: however connections join, leave, fall
\* away and publish, the tally has no entry without a listener (Channels::left
\* and Channels::send drop an entry that is left empty).
THEOREM EmptyIsForgottenAlways == Spec => []EmptyIsForgotten
<1>1. IInv => EmptyIsForgotten
  BY DEF IInv
<1> QED BY <1>1, Invariant, PTL

\* The tally of listeners agrees with the connections' own lists after every
\* channel joined or left, every message and every hang-up, for any number of
\* clients and channels (Subscriptions, Channels).
THEOREM TallyIsTrueAlways == Spec => []TallyIsTrue
<1>1. IInv => TallyIsTrue
  BY DEF IInv
<1> QED BY <1>1, Invariant, PTL

\* The gates of run hold: who listens has no transaction open, and who was not
\* let in has no channel, no transaction and no command under way but AUTH.
THEOREM GatesHoldAlways == Spec => []GatesHold
<1>1. IInv => GatesHold
  BY GatesFollow DEF IInv
<1> QED BY <1>1, Invariant, PTL

\* Only PUBLISH counts a message.
LEMMA OnlyPublishCounts ==
    ASSUME Next, published' # published
    PROVE  \E c \in Clients : Publish(c)
<1>1. PICK c \in Clients :
          \/ Connect(c)
          \/ \E call \in Queueable : Ask(c, call)
          \/ \E call \in Steering : Steer(c, call.name)
          \/ Step(c) \/ WriteMessage(c) \/ HangUp(c)
  BY DEF Next
<1>2. ~ Connect(c) /\ ~ WriteMessage(c) /\ ~ HangUp(c)
  BY DEF Connect, WriteMessage, HangUp, history
<1>3. (\A call \in Queueable : ~ Ask(c, call)) /\ (\A call \in Steering : ~ Steer(c, call.name))
  BY DEF Ask, Steer, history
<1>4. Step(c)
  BY <1>1, <1>2, <1>3
<1>5. ~ Subscribe(c) /\ ~ Unsubscribe(c) /\ ~ SetUser(c) /\ ~ Auth(c) /\ ~ WriteReply(c) /\ ~ Drop(c)
  BY Zenon DEF Subscribe, Unsubscribe, SetUser, Auth, WriteReply, Drop, history
<1> QED BY <1>4, <1>5 DEF Step

\* A message reaches the connections that are up and on its channel, each once
\* and nobody else, and PUBLISH answers how many they are (Channels::send).
THEOREM ReachesWhoListensAlways == Spec => ReachesWhoListens
<1> DEFINE there(ch) == {c \in Clients : link[c] = "up" /\ ch \in Range(on[c])}
<1>1. ASSUME IInv, Next, published' # published
      PROVE  /\ answer'[2] = Cardinality(there(answer'[1]))
             /\ \A c \in Clients :
                   Len(inbox'[c]) - Len(inbox[c]) = IF c \in there(answer'[1]) THEN 1 ELSE 0
  <2>1. PICK p \in Clients : Publish(p)
    BY <1>1, OnlyPublishCounts
  <2>2. PICK ch \in Channels : Deliver(p, ch, Reached(ch)) /\ answer' = <<ch, SumFunction(Reached(ch))>>
    BY <2>1 DEF Publish
  <2>3. answer'[1] = ch /\ answer'[2] = SumFunction(Reached(ch))
    BY <2>2
  <2>4. /\ Reached(ch) \in [Clients -> {0, 1}]
        /\ \A d \in Clients : Reached(ch)[d] = IF d \in there(ch) THEN 1 ELSE 0
    BY <1>1, ReachedIs
  <2>5. SumFunction(Reached(ch)) = Cardinality(there(ch))
    <3> DEFINE f == Reached(ch)
    <3>1. {x \in Clients : f[x] = 1} = there(ch)
      BY <2>4
    <3>2. IsFiniteSet(Clients)
      BY SessionsAssumption
    <3>3. SumFunction(f) = Cardinality({x \in Clients : f[x] = 1})
      BY <2>4, <3>2, SumOfMarks, Zenon
    <3> QED BY <3>1, <3>3, Zenon
  <2>6. ASSUME NEW c \in Clients
        PROVE  Len(inbox'[c]) - Len(inbox[c]) = IF c \in there(ch) THEN 1 ELSE 0
    <3>1. Len(inbox'[c]) = Len(inbox[c]) + Reached(ch)[c]
      BY <1>1, <2>2, DeliveredIs
    <3>2. Len(inbox[c]) \in Nat
      BY <1>1 DEF IInv, Typed
    <3>3. Reached(ch)[c] = IF c \in there(ch) THEN 1 ELSE 0
      BY <2>4
    <3> HIDE DEF there
    <3> QED BY <3>1, <3>2, <3>3
  <2> HIDE DEF there
  <2> QED BY <2>3, <2>5, <2>6, Zenon
<1>2. IInv /\ [Next]_vars =>
        [published' # published =>
          LET seats == {c \in Clients : link[c] = "up" /\ answer'[1] \in Range(on[c])}
          IN  /\ answer'[2] = Cardinality(seats)
              /\ \A c \in Clients : Len(inbox'[c]) - Len(inbox[c]) = IF c \in seats THEN 1 ELSE 0]_vars
  BY <1>1, Zenon
<1> QED BY <1>2, Invariant, PTL DEF Spec, ReachesWhoListens

\* A client hears nothing on a channel before the reply that confirms it, for a
\* connection writes messages out only between commands (the loop of serve).
THEOREM ConfirmedBeforeHeardAlways == Spec => ConfirmedBeforeHeard
<1>1. ASSUME IInv, Next, NEW d \in Clients, link'[d] = "up", Len(inbox'[d]) < Len(inbox[d])
      PROVE  unheard[d] = {}
  <2>0. Len(inbox[d]) \in Nat
    BY <1>1 DEF IInv, Typed
  <2>1. inbox' # inbox
    BY <1>1, <2>0
  <2>2. PICK c \in Clients :
            \/ Connect(c)
            \/ \E call \in Queueable : Ask(c, call)
            \/ \E call \in Steering : Steer(c, call.name)
            \/ Step(c) \/ WriteMessage(c) \/ HangUp(c)
    BY <1>1 DEF Next
  <2>3. Publish(c) \/ WriteMessage(c) \/ HangUp(c)
    BY <2>1, <2>2, Zenon DEF Connect, Ask, Steer, Step, Subscribe, Unsubscribe, SetUser, Auth, WriteReply, Drop
  <2>4. ~ Publish(c)
    <3> SUFFICES ASSUME Publish(c) PROVE FALSE
      OBVIOUS
    <3>1. PICK ch \in Channels : Deliver(c, ch, Reached(ch))
      BY DEF Publish
    <3>2. Len(inbox'[d]) = Len(inbox[d]) + Reached(ch)[d] /\ Reached(ch)[d] \in {0, 1}
      BY <1>1, <3>1, DeliveredIs, ReachedIs
    <3> QED BY <1>1, <2>0, <3>2
  <2>5. ~ HangUp(c)
    <3> SUFFICES ASSUME HangUp(c) PROVE FALSE
      OBVIOUS
    <3>1. d # c => inbox'[d] = inbox[d]
      BY <1>1 DEF HangUp, IInv, Typed
    <3>2. link'[c] = "closed"
      BY <1>1 DEF HangUp, IInv, Typed
    <3> QED BY <1>1, <2>0, <3>1, <3>2
  <2>6. WriteMessage(c) /\ c = d
    <3>1. WriteMessage(c)
      BY <2>3, <2>4, <2>5
    <3>2. d # c => inbox'[d] = inbox[d]
      BY <1>1, <3>1 DEF WriteMessage, IInv, Typed
    <3> QED BY <1>1, <2>0, <3>1, <3>2
  <2> QED BY <1>1, <2>6, Zenon DEF WriteMessage, Waiting, IInv, Own
<1>2. IInv /\ [Next]_vars =>
        [\A c \in Clients :
            link'[c] = "up" /\ Len(inbox'[c]) < Len(inbox[c]) => inbox[c][1][1] \notin unheard[c]]_vars
  BY <1>1
<1> QED BY <1>2, Invariant, PTL DEF Spec, ConfirmedBeforeHeard
=============================================================================
