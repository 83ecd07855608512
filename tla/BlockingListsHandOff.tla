------------------------ MODULE BlockingListsHandOff ------------------------
(***************************************************************************)
(* Every step of BlockingLists is a step of HandOff or leaves what HandOff *)
(* sees as it was.                                                         *)
(***************************************************************************)
EXTENDS BlockingListsPromise, BlockingListsProofs, CountingProofs

-----------------------------------------------------------------------------
(* The open senders of a queue.                                            *)

\* What one sender adds to the line.
Piece(w) == IF w = Gone THEN << >> ELSE <<w>>

\* The open senders among the first i, for every i.
Counted(q, f) ==
    \A i \in 0 .. Len(q) : f[i] = IF i = 0 THEN << >> ELSE f[i - 1] \o Piece(q[i])

LEMMA PieceIs ==
    ASSUME NEW S, NEW w \in S
    PROVE  Piece(w) \in Seq(S \ {Gone})
<1>1. CASE w = Gone
  BY <1>1 DEF Piece
<1>2. CASE w # Gone
  <2>1. w \in S \ {Gone}
    BY <1>2
  <2>2. <<w>> \in Seq(S \ {Gone})
    BY <2>1
  <2> QED BY <1>2, <2>2 DEF Piece
<1> QED BY <1>1, <1>2

\* The recursive function that Open is defined with exists.
LEMMA OpenStepwise ==
    ASSUME NEW S, NEW q \in Seq(S)
    PROVE  \E f \in [0 .. Len(q) -> Seq(S \ {Gone})] : Counted(q, f) /\ Open(q) = f[Len(q)]
<1> DEFINE n == Len(q)
           P == Seq(S \ {Gone})
           Upto(m, f) == /\ f \in [0 .. m -> P]
                         /\ \A i \in 0 .. m : f[i] = IF i = 0 THEN << >> ELSE f[i - 1] \o Piece(q[i])
           T == {m \in Nat : m <= n => \E f : Upto(m, f)}
<1>1. n \in Nat /\ << >> \in P /\ \A i \in 1 .. n : q[i] \in S
  OBVIOUS
<1>2. \A i \in 1 .. n : Piece(q[i]) \in P
  BY <1>1, PieceIs
<1>a. ASSUME NEW s \in P, NEW t \in P PROVE s \o t \in P
  BY <1>a, ConcatProperties
<1> HIDE DEF n, P
<1>3. 0 \in T
  <2> DEFINE g == [i \in 0 .. 0 |-> << >>]
  <2>1. Upto(0, g)
    BY <1>1
  <2> QED BY <2>1, Zenon
<1>4. ASSUME NEW m \in T PROVE m + 1 \in T
  <2>0. m \in Nat
    OBVIOUS
  <2> SUFFICES ASSUME m + 1 <= n PROVE \E f : Upto(m + 1, f)
    <3> HIDE DEF Upto
    <3> QED BY <2>0
  <2>1. PICK f : Upto(m, f)
    <3> HIDE DEF Upto
    <3>1. m <= n
      BY <1>1, <2>0
    <3> QED BY <3>1
  <2>2. PICK y \in P : y = f[m] \o Piece(q[m + 1])
    <3>1. m + 1 \in 1 .. n /\ m \in 0 .. m
      BY <1>1, <2>0
    <3> QED BY <1>2, <1>a, <2>1, <3>1, Zenon
  <2> DEFINE g == [i \in 0 .. m + 1 |-> IF i <= m THEN f[i] ELSE y]
  <2>3. g \in [0 .. m + 1 -> P]
    BY <2>0, <2>1, <2>2
  <2>4. ASSUME NEW i \in 0 .. m + 1 PROVE g[i] = IF i = 0 THEN << >> ELSE g[i - 1] \o Piece(q[i])
    <3>1. CASE i = 0
      BY <2>0, <2>1, <3>1
    <3>2. CASE i # 0 /\ i <= m
      <4>1. i \in 0 .. m /\ i - 1 \in 0 .. m + 1 /\ i - 1 <= m
        BY <2>0, <3>2
      <4> QED BY <2>1, <3>2, <4>1
    <3>3. CASE i = m + 1
      <4>1. m \in 0 .. m + 1 /\ m <= m /\ i # 0 /\ ~ (i <= m) /\ i - 1 = m
        BY <2>0, <3>3
      <4> QED BY <2>2, <3>3, <4>1, Zenon
    <3> QED BY <2>0, <3>1, <3>2, <3>3
  <2>5. Upto(m + 1, g)
    <3> HIDE DEF g
    <3> QED BY <2>3, <2>4
  <2> QED BY <2>5, Zenon
<1>5. T = Nat
  <2>1. T \in SUBSET Nat
    OBVIOUS
  <2> HIDE DEF T
  <2> QED BY <1>3, <1>4, <2>1, AllNaturals
<1>6. PICK f : Upto(n, f)
  <2> HIDE DEF T, Upto
  <2>1. n \in T /\ n <= n
    BY <1>1, <1>5
  <2> QED BY <2>1 DEF T
<1> DEFINE upto == CHOOSE h : h = [i \in 0 .. n |-> IF i = 0 THEN << >> ELSE h[i - 1] \o Piece(q[i])]
<1>7. f = [i \in 0 .. n |-> IF i = 0 THEN << >> ELSE f[i - 1] \o Piece(q[i])]
  BY <1>6, Zenon
<1>8. upto = [i \in 0 .. n |-> IF i = 0 THEN << >> ELSE upto[i - 1] \o Piece(q[i])]
  BY <1>7, Zenon
<1>9. Open(q) = upto[n]
  BY DEF Open, Piece, n
<1> HIDE DEF upto
<1>10. upto = f
  <2> DEFINE U == {m \in Nat : m <= n => upto[m] = f[m]}
  <2>1. 0 \in U
    BY <1>1, <1>6, <1>8
  <2>2. ASSUME NEW m \in U PROVE m + 1 \in U
    <3>1. m \in Nat
      OBVIOUS
    <3> SUFFICES ASSUME m + 1 <= n PROVE upto[m + 1] = f[m + 1]
      BY <3>1
    <3>2. m + 1 \in 0 .. n /\ m + 1 # 0 /\ (m + 1) - 1 = m /\ upto[m] = f[m]
      BY <1>1, <3>1
    <3>3. /\ upto[m + 1] = IF m + 1 = 0 THEN << >> ELSE upto[(m + 1) - 1] \o Piece(q[m + 1])
          /\ f[m + 1] = IF m + 1 = 0 THEN << >> ELSE f[(m + 1) - 1] \o Piece(q[m + 1])
      BY <1>6, <1>8, <3>2, Zenon
    <3> QED BY <3>2, <3>3, Zenon
  <2>3. U = Nat
    <3>1. U \in SUBSET Nat
      OBVIOUS
    <3> HIDE DEF U
    <3> QED BY <2>1, <2>2, <3>1, AllNaturals
  <2>4. \A i \in 0 .. n : upto[i] = f[i]
    BY <1>1, <2>3
  <2>5. upto = [i \in 0 .. n |-> upto[i]] /\ f = [i \in 0 .. n |-> f[i]]
    BY <1>6, <1>8
  <2> QED BY <2>4, <2>5
<1> QED BY <1>6, <1>9, <1>10, Zenon DEF Counted, n, P

\* A sender put at the back of the queue is the last of the open ones, if open.
LEMMA OpenAppend ==
    ASSUME NEW S, NEW q \in Seq(S), NEW w \in S
    PROVE  Open(q) \in Seq(S \ {Gone}) /\ Open(Append(q, w)) = Open(q) \o Piece(w)
<1> DEFINE more == Append(q, w)
           n == Len(q)
<1>1. n \in Nat /\ more \in Seq(S) /\ Len(more) = n + 1 /\ more[n + 1] = w
      /\ \A i \in 1 .. n : more[i] = q[i]
  OBVIOUS
<1> HIDE DEF more
<1>2. PICK f \in [0 .. n -> Seq(S \ {Gone})] : Counted(q, f) /\ Open(q) = f[n]
  BY OpenStepwise
<1>3. PICK g : Counted(more, g) /\ Open(more) = g[n + 1]
  <2>1. PICK g \in [0 .. Len(more) -> Seq(S \ {Gone})] : Counted(more, g) /\ Open(more) = g[Len(more)]
    BY <1>1, OpenStepwise, Zenon
  <2> QED BY <1>1, <2>1
<1>4. /\ \A i \in 0 .. n : f[i] = IF i = 0 THEN << >> ELSE f[i - 1] \o Piece(q[i])
      /\ \A i \in 0 .. n + 1 : g[i] = IF i = 0 THEN << >> ELSE g[i - 1] \o Piece(more[i])
  BY <1>1, <1>2, <1>3, Zenon DEF Counted
<1> HIDE DEF n
<1> DEFINE U == {m \in Nat : m <= n => g[m] = f[m]}
<1>5. 0 \in U
  <2>1. 0 \in 0 .. n /\ 0 \in 0 .. n + 1
    BY <1>1
  <2>2. f[0] = << >> /\ g[0] = << >>
    BY <1>4, <2>1, Zenon
  <2> QED BY <2>2
<1>6. ASSUME NEW m \in U PROVE m + 1 \in U
  <2>1. m \in Nat
    OBVIOUS
  <2> SUFFICES ASSUME m + 1 <= n PROVE g[m + 1] = f[m + 1]
    BY <2>1
  <2>2. /\ m + 1 \in 1 .. n /\ m + 1 \in 0 .. n /\ m + 1 \in 0 .. n + 1 /\ m + 1 # 0 /\ (m + 1) - 1 = m
        /\ g[m] = f[m]
    BY <1>1, <2>1
  <2>3. more[m + 1] = q[m + 1]
    BY <1>1, <2>2
  <2>4. /\ f[m + 1] = IF m + 1 = 0 THEN << >> ELSE f[(m + 1) - 1] \o Piece(q[m + 1])
        /\ g[m + 1] = IF m + 1 = 0 THEN << >> ELSE g[(m + 1) - 1] \o Piece(more[m + 1])
    BY <1>4, <2>2, Zenon
  <2> QED BY <2>2, <2>3, <2>4, Zenon
<1>7. U = Nat
  <2>1. U \in SUBSET Nat
    OBVIOUS
  <2> HIDE DEF U
  <2> QED BY <1>5, <1>6, <2>1, AllNaturals
<1>8. n <= n /\ n \in 0 .. n /\ n + 1 \in 0 .. n + 1 /\ n + 1 # 0 /\ (n + 1) - 1 = n
  BY <1>1
<1>9. g[n] = f[n]
  BY <1>1, <1>7, <1>8, Zenon
<1>10. g[n + 1] = IF n + 1 = 0 THEN << >> ELSE g[(n + 1) - 1] \o Piece(more[n + 1])
  BY <1>4, <1>8, Zenon
<1>11. g[n + 1] = g[n] \o Piece(w)
  BY <1>1, <1>8, <1>10, Zenon
<1>12. f[n] \in Seq(S \ {Gone})
  BY <1>2, <1>8
<1> QED BY <1>2, <1>3, <1>9, <1>11, <1>12, Zenon DEF more

LEMMA OpenNone == Open(<< >>) = << >>
<1>1. << >> \in Seq({}) /\ Len(<< >>) = 0
  OBVIOUS
<1>2. PICK f : Counted(<< >>, f) /\ Open(<< >>) = f[0]
  BY <1>1, OpenStepwise, Zenon
<1> QED BY <1>1, <1>2 DEF Counted

\* An element joins the back of two sequences when it joins the back of the second.
LEMMA ConcatAppend ==
    ASSUME NEW S, NEW q \in Seq(S), NEW t \in Seq(S), NEW w \in S
    PROVE  q \o Append(t, w) = Append(q \o t, w)
<1>1. q \o t \in Seq(S) /\ <<w>> \in Seq(S)
  BY ConcatProperties
<1>2. Append(t, w) = t \o <<w>> /\ Append(q \o t, w) = (q \o t) \o <<w>>
  BY <1>1, AppendIsConcat
<1>3. (q \o t) \o <<w>> = q \o (t \o <<w>>)
  BY <1>1, ConcatAssociative, SMTT(30)
<1> QED BY <1>2, <1>3, Zenon

\* The open senders of two queues, one behind the other.
LEMMA OpenConcat ==
    ASSUME NEW S, NEW q \in Seq(S), NEW r \in Seq(S)
    PROVE  /\ Open(q) \in Seq(S \ {Gone}) /\ Open(r) \in Seq(S \ {Gone})
           /\ Open(q \o r) = Open(q) \o Open(r)
<1> DEFINE P == S \ {Gone}
           Fine(s) == Open(s) \in Seq(P) /\ Open(q \o s) = Open(q) \o Open(s)
           T == {n \in Nat : \A s \in Seq(S) : Len(s) = n => Fine(s)}
<1>1. << >> \in Seq(S) /\ Open(<< >>) = << >> /\ << >> \in Seq(P)
  BY OpenNone
<1>5. \A a, b, c \in Seq(P) : (a \o b) \o c = a \o (b \o c)
  <2> HIDE DEF P
  <2> QED BY ConcatAssociative, SMTT(30)
<1>2. CASE S = {}
  <2>1. q = << >> /\ r = << >>
    BY <1>2
  <2>2. << >> \o << >> = << >>
    OBVIOUS
  <2> QED BY <1>1, <2>1, <2>2, Zenon
<1>3. CASE S # {}
  <2>1. Open(q) \in Seq(P)
    <3>1. PICK w : w \in S
      BY <1>3
    <3> QED BY <3>1, OpenAppend
  <2>2. 0 \in T
    <3> SUFFICES ASSUME NEW s \in Seq(S), Len(s) = 0 PROVE Fine(s)
      OBVIOUS
    <3>1. s = << >>
      BY EmptySeq
    <3>2. q \o << >> = q /\ Open(q) \o << >> = Open(q)
      BY <2>1, ConcatEmptySeq
    <3> QED BY <1>1, <3>1, <3>2, Zenon
  <2>3. ASSUME NEW n \in T PROVE n + 1 \in T
    <3>1. n \in Nat /\ \A s \in Seq(S) : Len(s) = n => Fine(s)
      OBVIOUS
    <3> HIDE DEF Fine
    <3> SUFFICES ASSUME NEW s \in Seq(S), Len(s) = n + 1 PROVE Fine(s)
      BY <3>1
    <3>2. s # << >>
      BY <3>1, EmptySeq
    <3>3. PICK t \in Seq(S), w \in S : s = Append(t, w)
      BY <3>2, SequenceEmptyOrAppend, Zenon
    <3>4. Len(t) = n
      BY <3>1, <3>3
    <3>5. Open(t) \in Seq(P) /\ Open(q \o t) = Open(q) \o Open(t)
      BY <3>1, <3>4 DEF Fine
    <3>6. Piece(w) \in Seq(P) /\ q \o t \in Seq(S)
      BY PieceIs, ConcatProperties
    <3>7. Open(s) = Open(t) \o Piece(w) /\ Open(Append(q \o t, w)) = Open(q \o t) \o Piece(w)
      BY <3>3, <3>6, OpenAppend, Zenon
    <3>8. q \o s = Append(q \o t, w)
      <4>1. q \o Append(t, w) = Append(q \o t, w)
        BY ConcatAppend, SMTT(30)
      <4> QED BY <3>3, <4>1, Zenon
    <3>9. (Open(q) \o Open(t)) \o Piece(w) = Open(q) \o (Open(t) \o Piece(w))
      <4>1. Open(q) \in Seq(P) /\ Open(t) \in Seq(P) /\ Piece(w) \in Seq(P)
        BY <2>1, <3>5, <3>6
      <4> QED BY <1>5, <4>1, Zenon
    <3>10. Open(t) \o Piece(w) \in Seq(P)
      BY <3>5, <3>6, ConcatProperties
    <3> QED BY <3>5, <3>7, <3>8, <3>9, <3>10, Zenon DEF Fine
  <2>4. T = Nat
    <3>1. T \in SUBSET Nat
      OBVIOUS
    <3> HIDE DEF T
    <3> QED BY <2>2, <2>3, <3>1, AllNaturals
  <2>5. Len(r) \in Nat
    OBVIOUS
  <2>6. Fine(r)
    <3> HIDE DEF Fine
    <3> QED BY <2>4, <2>5
  <2> QED BY <2>1, <2>6
<1> QED BY <1>2, <1>3

\* The open senders ahead of place n of a queue, and those behind it.
Before(q, n) == Open(SubSeq(q, 1, n - 1))
Behind(q, n) == Open(SubSeq(q, n + 1, Len(q)))

\* A queue taken apart at its place n.
LEMMA OpenSplit ==
    ASSUME NEW S, NEW q \in Seq(S), NEW n \in 1 .. Len(q)
    PROVE  /\ Before(q, n) \in Seq(S \ {Gone}) /\ Behind(q, n) \in Seq(S \ {Gone})
           /\ Open(q) = (Before(q, n) \o Piece(q[n])) \o Behind(q, n)
           /\ Open(RemoveAt(q, n)) = Before(q, n) \o Behind(q, n)
<1>a. PICK a, b : a = Before(q, n) /\ b = Behind(q, n)
  OBVIOUS
<1> DEFINE x == SubSeq(q, 1, n - 1)
           y == SubSeq(q, n + 1, Len(q))
           xw == Append(x, q[n])
<1>1. x \in Seq(S) /\ Len(x) = n - 1 /\ \A i \in 1 .. n - 1 : x[i] = q[i]
  OBVIOUS
<1>2. y \in Seq(S) /\ Len(y) = Len(q) - n /\ \A i \in 1 .. Len(q) - n : y[i] = q[i + n]
  OBVIOUS
<1>3. q[n] \in S /\ n \in Nat /\ Len(q) \in Nat /\ n >= 1 /\ n <= Len(q)
  OBVIOUS
<1> HIDE DEF x, y
<1>4. xw \in Seq(S) /\ Len(xw) = n /\ xw[n] = q[n] /\ \A i \in 1 .. n - 1 : xw[i] = x[i]
  BY <1>1, <1>3
<1> HIDE DEF xw
<1>0. x \in Seq(S) /\ y \in Seq(S) /\ xw \in Seq(S)
  BY <1>1, <1>2, <1>4
<1>5. q = xw \o y
  <2> DEFINE z == xw \o y
  <2>1. /\ z \in Seq(S) /\ Len(z) = n + (Len(q) - n)
        /\ \A i \in 1 .. n + (Len(q) - n) : z[i] = IF i <= n THEN xw[i] ELSE y[i - n]
    <3>1. /\ z \in Seq(S) /\ Len(z) = Len(xw) + Len(y)
          /\ \A i \in 1 .. Len(xw) + Len(y) : z[i] = IF i <= Len(xw) THEN xw[i] ELSE y[i - Len(xw)]
      BY <1>0, ConcatProperties
    <3> HIDE DEF z
    <3> QED BY <1>2, <1>4, <3>1
  <2> HIDE DEF z
  <2>2. Len(z) = Len(q)
    BY <1>3, <2>1
  <2>3. ASSUME NEW i \in 1 .. Len(q) PROVE q[i] = z[i]
    <3>1. CASE i < n
      <4>1. i \in 1 .. n - 1 /\ i <= n /\ i \in 1 .. n + (Len(q) - n)
        BY <1>3, <3>1
      <4> QED BY <1>1, <1>4, <2>1, <4>1
    <3>2. CASE i = n
      BY <1>3, <1>4, <2>1, <3>2
    <3>3. CASE i > n
      <4>1. i - n \in 1 .. Len(q) - n /\ (i - n) + n = i /\ ~ (i <= n) /\ i \in 1 .. n + (Len(q) - n)
        BY <1>3, <3>3
      <4>2. z[i] = y[i - n]
        BY <2>1, <4>1
      <4>3. y[i - n] = q[(i - n) + n]
        BY <1>2, <4>1
      <4> QED BY <4>1, <4>2, <4>3
    <3> QED BY <1>3, <3>1, <3>2, <3>3
  <2>4. q = z
    BY <2>1, <2>2, <2>3, SeqEqual
  <2> QED BY <2>4 DEF z
<1>6. a = Open(x) /\ b = Open(y) /\ RemoveAt(q, n) = x \o y
  BY <1>a DEF x, y, RemoveAt, Before, Behind
<1>7. a \in Seq(S \ {Gone}) /\ b \in Seq(S \ {Gone}) /\ Open(x \o y) = a \o b
  <2>1. Open(x) \in Seq(S \ {Gone}) /\ Open(y) \in Seq(S \ {Gone}) /\ Open(x \o y) = Open(x) \o Open(y)
    BY <1>0, OpenConcat, Zenon
  <2> QED BY <1>6, <2>1, Zenon
<1>8. Open(xw \o y) = Open(xw) \o b
  <2>1. Open(xw \o y) = Open(xw) \o Open(y)
    BY <1>0, OpenConcat, Zenon
  <2> QED BY <1>6, <2>1, Zenon
<1>9. Open(xw) = a \o Piece(q[n])
  BY <1>1, <1>3, <1>6, OpenAppend, Zenon DEF xw
<1> QED BY <1>a, <1>5, <1>6, <1>7, <1>8, <1>9, Zenon

\* A sender whose client is gone can be taken out.
LEMMA OpenWithoutGone ==
    ASSUME NEW S, NEW q \in Seq(S), NEW n \in 1 .. Len(q), q[n] = Gone
    PROVE  Open(RemoveAt(q, n)) = Open(q)
<1>1. PICK a, b \in Seq(S \ {Gone}) :
         Open(q) = (a \o Piece(q[n])) \o b /\ Open(RemoveAt(q, n)) = a \o b
  <2>1. /\ Before(q, n) \in Seq(S \ {Gone}) /\ Behind(q, n) \in Seq(S \ {Gone})
        /\ Open(q) = (Before(q, n) \o Piece(q[n])) \o Behind(q, n)
        /\ Open(RemoveAt(q, n)) = Before(q, n) \o Behind(q, n)
    BY OpenSplit, Zenon
  <2> QED BY <2>1, Zenon
<1>2. Piece(q[n]) = << >>
  BY DEF Piece
<1>3. a \o << >> = a
  BY <1>1, ConcatEmptySeq
<1> QED BY <1>1, <1>2, <1>3, Zenon

\* The first of the queue, where open, is the first in line.
LEMMA OpenTail ==
    ASSUME NEW S, NEW q \in Seq(S), q # << >>
    PROVE  /\ Head(q) = Gone => Open(Tail(q)) = Open(q)
           /\ Head(q) # Gone => /\ Open(q) # << >> /\ Head(Open(q)) = Head(q)
                                /\ Tail(Open(q)) = Open(Tail(q))
<1>1. 1 \in 1 .. Len(q) /\ Head(q) = q[1] /\ q[1] \in S
  BY TailFacts
<1>2. PICK a, b \in Seq(S \ {Gone}) :
         a = Before(q, 1) /\ b = Behind(q, 1) /\ Open(q) = (a \o Piece(q[1])) \o b
  <2>1. /\ Before(q, 1) \in Seq(S \ {Gone}) /\ Behind(q, 1) \in Seq(S \ {Gone})
        /\ Open(q) = (Before(q, 1) \o Piece(q[1])) \o Behind(q, 1)
    BY <1>1, OpenSplit, Zenon
  <2> QED BY <2>1, Zenon
<1>3. a = << >>
  <2>1. SubSeq(q, 1, 0) = << >>
    BY SubSeqEmpty
  <2>2. 1 - 1 = 0 /\ Open(<< >>) = << >>
    BY OpenNone
  <2> QED BY <1>2, <2>1, <2>2, Zenon DEF Before
<1>4. b = Open(Tail(q))
  <2>1. Tail(q) = SubSeq(q, 2, Len(q))
    BY TailIsSubSeq
  <2>2. 1 + 1 = 2
    OBVIOUS
  <2> QED BY <1>2, <2>1, <2>2, Zenon DEF Behind
<1>5. Piece(q[1]) \in Seq(S \ {Gone})
  BY <1>1, PieceIs
<1>6. << >> \o Piece(q[1]) = Piece(q[1])
  BY <1>5, ConcatEmptySeq
<1>7. Open(q) = Piece(q[1]) \o b
  BY <1>2, <1>3, <1>6, Zenon
<1>8. ASSUME Head(q) = Gone PROVE Open(Tail(q)) = Open(q)
  <2>1. Piece(q[1]) = << >>
    BY <1>1, <1>8 DEF Piece
  <2>2. << >> \o b = b
    BY <1>2, ConcatEmptySeq
  <2> QED BY <1>4, <1>7, <2>1, <2>2, Zenon
<1>9. ASSUME Head(q) # Gone
      PROVE  Open(q) # << >> /\ Head(Open(q)) = Head(q) /\ Tail(Open(q)) = Open(Tail(q))
  <2> DEFINE P == S \ {Gone}
             w == q[1]
             z == <<w>> \o b
  <2>1. Open(q) = z /\ w \in P /\ w = Head(q) /\ b \in Seq(P)
    BY <1>1, <1>2, <1>7, <1>9, Zenon DEF Piece
  <2> HIDE DEF P, w
  <2>2. <<w>> \in Seq(P) /\ Len(<<w>>) = 1 /\ <<w>>[1] = w
    BY <2>1
  <2>3. z \in Seq(P) /\ Len(z) = 1 + Len(b) /\ z[1] = w /\ \A i \in 1 .. Len(b) : z[i + 1] = b[i]
    BY <2>1, <2>2
  <2> HIDE DEF z
  <2>4. Len(b) \in Nat
    BY <2>1
  <2>5. z # << >>
    <3>1. Len(z) # 0
      BY <2>3, <2>4
    <3> QED BY <2>3, <3>1, EmptySeq
  <2>6. /\ Head(z) = w /\ Tail(z) \in Seq(P) /\ Len(Tail(z)) = Len(b)
        /\ \A i \in 1 .. Len(b) : Tail(z)[i] = z[i + 1]
    BY <2>3, <2>4, <2>5
  <2>7. \A i \in 1 .. Len(Tail(z)) : Tail(z)[i] = b[i]
    BY <2>3, <2>6
  <2>8. Tail(z) = b
    BY <2>1, <2>6, <2>7, SeqEqual
  <2> QED BY <1>4, <2>1, <2>5, <2>6, <2>8, Zenon
<1> QED BY <1>8, <1>9

\* Who is not in the queue is not in line.
LEMMA OpenAreQueued ==
    ASSUME NEW S, NEW q \in Seq(S), NEW w, w \notin Range(q)
    PROVE  w \notin Range(Open(q))
<1> DEFINE R == S \ {w}
<1>1. \A i \in 1 .. Len(q) : q[i] \in R
  BY DEF Range
<1>2. q \in Seq(R)
  BY <1>1
<1>3. Open(q) \in Seq(R \ {Gone})
  BY <1>2, OpenConcat, Zenon
<1>4. \A i \in DOMAIN Open(q) : Open(q)[i] \in R \ {Gone}
  BY <1>3
<1> QED BY <1>4 DEF Range

\* Marking a client that is not in the queue marks nobody.
LEMMA NobodyMarked ==
    ASSUME NEW S, NEW q \in Seq(S), NEW c, c \notin Range(q), Gone \in S
    PROVE  ReplaceAll(q, c, Gone) = q
<1>1. /\ ReplaceAll(q, c, Gone) \in Seq(S) /\ Len(ReplaceAll(q, c, Gone)) = Len(q)
      /\ \A i \in DOMAIN q : ReplaceAll(q, c, Gone)[i] = IF q[i] = c THEN Gone ELSE q[i]
  BY ReplaceAllFacts
<1>2. \A i \in 1 .. Len(q) : ReplaceAll(q, c, Gone)[i] = q[i]
  BY <1>1 DEF Range
<1> QED BY <1>1, <1>2, SeqEqual

\* Marking the one sender of a client takes the client out of line.
LEMMA OpenMarked ==
    ASSUME NEW S, NEW q \in Seq(S), Gone \in S, NEW c, c # Gone, NEW n \in 1 .. Len(q), q[n] = c,
           \A i \in 1 .. Len(q) : q[i] = c => i = n
    PROVE  \E j \in DOMAIN Open(q) :
              Open(q)[j] = c /\ Open(ReplaceAll(q, c, Gone)) = RemoveAt(Open(q), j)
<1> DEFINE r == ReplaceAll(q, c, Gone)
           P == S \ {Gone}
<1>1. /\ r \in Seq(S) /\ Len(r) = Len(q)
      /\ \A i \in 1 .. Len(q) : r[i] = IF q[i] = c THEN Gone ELSE q[i]
  BY ReplaceAllFacts
<1> HIDE DEF r
<1>2. n \in 1 .. Len(r) /\ r[n] = Gone /\ Len(q) \in Nat
  BY <1>1
<1>3. RemoveAt(r, n) = RemoveAt(q, n)
  <2>1. /\ RemoveAt(r, n) \in Seq(S) /\ Len(RemoveAt(r, n)) = Len(q) - 1
        /\ \A i \in 1 .. Len(q) - 1 : RemoveAt(r, n)[i] = IF i < n THEN r[i] ELSE r[i + 1]
    <3>1. /\ RemoveAt(r, n) \in Seq(S) /\ Len(RemoveAt(r, n)) = Len(r) - 1
          /\ \A i \in 1 .. Len(r) - 1 : RemoveAt(r, n)[i] = IF i < n THEN r[i] ELSE r[i + 1]
      BY <1>1, <1>2, RemoveAtFacts, Zenon
    <3> QED BY <1>1, <3>1
  <2>2. /\ RemoveAt(q, n) \in Seq(S) /\ Len(RemoveAt(q, n)) = Len(q) - 1
        /\ \A i \in 1 .. Len(q) - 1 : RemoveAt(q, n)[i] = IF i < n THEN q[i] ELSE q[i + 1]
    BY RemoveAtFacts
  <2>3. ASSUME NEW i \in 1 .. Len(q) - 1 PROVE RemoveAt(r, n)[i] = RemoveAt(q, n)[i]
    <3>1. CASE i < n
      <4>1. i \in 1 .. Len(q) /\ i # n
        BY <1>2, <3>1
      <4>2. r[i] = q[i]
        BY <1>1, <4>1
      <4> QED BY <2>1, <2>2, <3>1, <4>2
    <3>2. CASE ~ (i < n)
      <4>1. i + 1 \in 1 .. Len(q) /\ i + 1 # n
        BY <1>2, <3>2
      <4>2. r[i + 1] = q[i + 1]
        BY <1>1, <4>1
      <4> QED BY <2>1, <2>2, <3>2, <4>2
    <3> QED BY <3>1, <3>2
  <2> QED BY <2>1, <2>2, <2>3, SeqEqual
<1>4. Open(r) = Open(RemoveAt(q, n))
  BY <1>1, <1>2, <1>3, OpenWithoutGone
<1>5. PICK a, b \in Seq(P) : Open(q) = (a \o Piece(q[n])) \o b /\ Open(RemoveAt(q, n)) = a \o b
  <2>1. /\ Before(q, n) \in Seq(P) /\ Behind(q, n) \in Seq(P)
        /\ Open(q) = (Before(q, n) \o Piece(q[n])) \o Behind(q, n)
        /\ Open(RemoveAt(q, n)) = Before(q, n) \o Behind(q, n)
    BY OpenSplit, Zenon
  <2> QED BY <2>1, Zenon
<1>6. Piece(q[n]) = <<c>> /\ c \in P
  BY DEF Piece
<1> HIDE DEF P
<1> DEFINE z == (a \o <<c>>) \o b
<1>a. PICK j \in Nat : j = Len(a) + 1
  OBVIOUS
<1>7. Len(a) \in Nat /\ Len(b) \in Nat /\ j \in Nat /\ j = Len(a) + 1
  BY <1>a
<1>8. /\ z \in Seq(P) /\ Len(z) = Len(a) + 1 + Len(b) /\ z[j] = c
      /\ \A i \in 1 .. Len(a) : z[i] = a[i]
      /\ \A i \in 1 .. Len(b) : z[i + j] = b[i]
  <2> DEFINE y == a \o <<c>>
  <2>1. y \in Seq(P) /\ Len(y) = j /\ y[j] = c /\ \A i \in 1 .. Len(a) : y[i] = a[i]
    BY <1>6, <1>7
  <2> HIDE DEF y
  <2>2. /\ y \o b \in Seq(P) /\ Len(y \o b) = j + Len(b)
        /\ \A i \in 1 .. j : (y \o b)[i] = y[i]
        /\ \A i \in 1 .. Len(b) : (y \o b)[i + j] = b[i]
    <3>1. /\ y \o b \in Seq(P) /\ Len(y \o b) = Len(y) + Len(b)
          /\ \A i \in 1 .. Len(y) + Len(b) : (y \o b)[i] = IF i <= Len(y) THEN y[i] ELSE b[i - Len(y)]
      BY <2>1, ConcatProperties, Zenon
    <3>2. \A i \in 1 .. j : i \in 1 .. j + Len(b) /\ i <= j
      BY <1>7
    <3>3. \A i \in 1 .. Len(b) : i + j \in 1 .. j + Len(b) /\ ~ (i + j <= j) /\ (i + j) - j = i
      BY <1>7
    <3> QED BY <2>1, <3>1, <3>2, <3>3
  <2>3. z = y \o b
    BY DEF y
  <2> HIDE DEF z
  <2>4. j \in 1 .. j /\ \A i \in 1 .. Len(a) : i \in 1 .. j
    BY <1>7
  <2> QED BY <1>7, <2>1, <2>2, <2>3, <2>4
<1> HIDE DEF z
<1>9. j \in 1 .. Len(z) /\ j \in DOMAIN z
  BY <1>7, <1>8
<1>10. RemoveAt(z, j) = a \o b
  <2>1. /\ RemoveAt(z, j) \in Seq(P) /\ Len(RemoveAt(z, j)) = Len(z) - 1
        /\ \A i \in 1 .. Len(z) - 1 : RemoveAt(z, j)[i] = IF i < j THEN z[i] ELSE z[i + 1]
    BY <1>8, <1>9, RemoveAtFacts, Zenon
  <2>2. /\ a \o b \in Seq(P) /\ Len(a \o b) = Len(a) + Len(b)
        /\ \A i \in 1 .. Len(a) + Len(b) : (a \o b)[i] = IF i <= Len(a) THEN a[i] ELSE b[i - Len(a)]
    BY <1>7, ConcatProperties
  <2>3. Len(z) - 1 = Len(a) + Len(b)
    BY <1>7, <1>8
  <2>4. ASSUME NEW i \in 1 .. Len(a) + Len(b) PROVE RemoveAt(z, j)[i] = (a \o b)[i]
    <3>1. CASE i <= Len(a)
      <4>1. i < j /\ i \in 1 .. Len(a)
        BY <1>7, <3>1
      <4> QED BY <1>8, <2>1, <2>2, <2>3, <3>1, <4>1, Zenon
    <3>2. CASE ~ (i <= Len(a))
      <4>1. ~ (i < j) /\ i - Len(a) \in 1 .. Len(b) /\ (i - Len(a)) + j = i + 1
        BY <1>7, <3>2
      <4>2. RemoveAt(z, j)[i] = z[i + 1] /\ (a \o b)[i] = b[i - Len(a)]
        BY <2>1, <2>2, <2>3, <3>2, <4>1, Zenon
      <4>3. z[(i - Len(a)) + j] = b[i - Len(a)]
        BY <1>8, <4>1, Zenon
      <4> QED BY <4>1, <4>2, <4>3
    <3> QED BY <3>1, <3>2
  <2>5. Len(RemoveAt(z, j)) = Len(a \o b)
        /\ \A i \in 1 .. Len(RemoveAt(z, j)) : RemoveAt(z, j)[i] = (a \o b)[i]
    BY <2>1, <2>2, <2>3, <2>4
  <2> QED BY <2>1, <2>2, <2>5, SeqEqual, Zenon
<1>11. Open(q) = z
  BY <1>5, <1>6 DEF z
<1> QED BY <1>4, <1>5, <1>8, <1>9, <1>10, <1>11, Zenon DEF r

-----------------------------------------------------------------------------
(* The steps.                                                              *)

\* The line as it was, since every queue is.
LEMMA SameLine ==
    ASSUME \A k \in Keys : Open(waiters[k])' = Open(waiters[k])
    PROVE  OpenLine' = OpenLine
    BY DEF OpenLine

\* Elements drained from the front are taken, and nobody was in line for them.
LEMMA DrainIsTake ==
    ASSUME LineInv, NEW k \in Keys, lock = Free, waiters' = waiters, slot' = slot, StoreTyped,
           NEW t \in 0 .. Len(items[k]), Drained(k, t)
    PROVE  [Promise!Next]_Promise!vars
<1>1. /\ items \in [Keys -> Seq(Elements)] /\ items' \in [Keys -> Seq(Elements)]
      /\ items[k] \in Seq(Elements) /\ items'[k] \in Seq(Elements) /\ Len(items[k]) \in Nat
  BY DEF LineInv, Shape, TypeOK, StoreTyped
<1>2. OpenLine' = OpenLine
  BY DEF OpenLine
<1> DEFINE rest == SubSeq(items[k], t + 1, Len(items[k]))
<1>3. /\ rest \in Seq(Elements) /\ Len(rest) = Len(items[k]) - t
      /\ \A i \in 1 .. Len(items[k]) - t : rest[i] = items[k][i + t]
  BY <1>1, DrainFacts
<1>4. items'[k] = rest
  <2> HIDE DEF rest
  <2>1. /\ Len(items'[k]) = Len(items[k]) - t
        /\ \A i \in 1 .. Len(items[k]) - t : items'[k][i] = items[k][i + t]
    BY DEF Drained
  <2>2. Len(items'[k]) = Len(rest) /\ \A i \in 1 .. Len(items'[k]) : items'[k][i] = rest[i]
    BY <1>3, <2>1
  <2> QED BY <1>1, <1>3, <2>2, SeqEqual, Zenon
<1>5. \A l \in Keys \ {k} : items'[l] = items[l]
  BY DEF Drained
<1>6. CASE t = 0
  <2>1. rest = items[k]
    <3>1. SubSeq(items[k], 1, Len(items[k])) = items[k]
      BY <1>1, SubSeqFull
    <3> QED BY <1>6, <3>1
  <2>2. items' = items
    BY <1>1, <1>4, <1>5, <2>1
  <2> QED BY <1>2, <2>2 DEF Promise!vars
<1>7. CASE t # 0
  <2>1. t \in 1 .. Len(items[k]) /\ items[k] # << >>
    BY <1>1, <1>7
  <2>2. waiters[k] = << >>
    BY <2>1, Zenon DEF LineInv, Shape, ListsNeverEmpty, NobodyWaitsOnAList, Free, Wake
  <2>3. OpenLine[k] = << >>
    BY <2>2, OpenNone, Zenon DEF OpenLine
  <2>4. items' = [items EXCEPT ![k] = rest]
    <3> HIDE DEF rest
    <3> QED BY <1>1, <1>4, <1>5
  <2>5. Promise!Take(k)
    BY <1>2, <2>1, <2>3, <2>4, Zenon DEF Promise!Take
  <2> QED BY <2>5 DEF Promise!Next
<1> QED BY <1>6, <1>7

\* A push that is not refused offers its elements, whoever is in line.
LEMMA PushIsOffer ==
    ASSUME LineInv, NEW k \in Keys, NEW b \in Batches, NEW side \in {"left", "right"},
           Push(k, b, side)
    PROVE  [Promise!Next]_Promise!vars
<1>1. waiters' = waiters /\ slot' = slot /\ OpenLine' = OpenLine
  BY DEF Push, OpenLine
<1>2. CASE KindAt(k) = "string"
  <2>1. items' = items
    BY <1>2 DEF Push
  <2> QED BY <1>1, <2>1 DEF Promise!vars
<1>3. CASE KindAt(k) # "string"
  <2>1. items' = [items EXCEPT ![k] = IF side = "right" THEN items[k] \o b ELSE Reverse(b) \o items[k]]
    BY <1>3 DEF Push, Put
  <2>2. PICK n \in 1 .. MaxBatch : b \in [1 .. n -> Elements \ owed]
    BY DEF Batches
  <2>3. n \in 0 .. MaxBatch /\ n \in Nat /\ b \in [1 .. n -> Elements]
    BY <2>2, ConstantsAssumption
  <2>4. Len(b) = n
    BY <2>3
  <2>5. Reverse(b) \in [1 .. n -> Elements]
    BY <2>3, <2>4 DEF Reverse
  <2>6. PICK new \in [1 .. n -> Elements] :
           items' = [items EXCEPT ![k] = items[k] \o new] \/ items' = [items EXCEPT ![k] = new \o items[k]]
    <3>1. CASE side = "right"
      BY <2>1, <2>3, <3>1, Zenon
    <3>2. CASE side # "right"
      BY <2>1, <2>3, <2>5, <3>2, Zenon
    <3> QED BY <3>1, <3>2
  <2>7. Promise!Offer(k)
    BY <1>1, <2>3, <2>6, Zenon DEF Promise!Offer
  <2> QED BY <2>7 DEF Promise!Next
<1> QED BY <1>2, <1>3

\* A turn of wake_waiters serves the first in line, or passes over a sender
\* that HandOff does not see.
LEMMA HandOverIsServe ==
    ASSUME LineInv, NEW k \in Keys, HandOver(k)
    PROVE  [Promise!Next]_Promise!vars
<1> DEFINE q == waiters[k]
<1>1. /\ TypeOK /\ ListsNeverEmpty /\ q \in Seq(Clients \cup {Gone}) /\ q # << >>
      /\ waiters \in [Keys -> Seq(Clients \cup {Gone})]
      /\ waiters' = [waiters EXCEPT ![k] = Tail(q)]
      /\ items \in [Keys -> Seq(Elements)] /\ items[k] # << >>
  BY DEF LineInv, Shape, TypeOK, ListsNeverEmpty, HandOver
<1>2. waiters'[k] = Tail(q) /\ \A l \in Keys \ {k} : waiters'[l] = waiters[l]
  BY <1>1
<1>3. /\ Head(q) = Gone => Open(Tail(q)) = Open(q)
      /\ Head(q) # Gone => /\ Open(q) # << >> /\ Head(Open(q)) = Head(q)
                           /\ Tail(Open(q)) = Open(Tail(q))
  BY <1>1, OpenTail
<1> HIDE DEF q
<1>4. CASE Head(q) = Gone
  <2>1. items' = items /\ slot' = slot
    BY <1>4 DEF HandOver, q
  <2>2. OpenLine' = OpenLine
    BY <1>2, <1>3, <1>4, SameLine DEF q
  <2> QED BY <2>1, <2>2 DEF Promise!vars
<1>5. CASE Head(q) # Gone
  <2>1. OpenLine[k] = Open(q) /\ OpenLine'[k] = Open(Tail(q))
    BY <1>2, Zenon DEF OpenLine, q
  <2>2. OpenLine' = [OpenLine EXCEPT ![k] = Tail(OpenLine[k])]
    <3>1. \A l \in Keys \ {k} : OpenLine'[l] = OpenLine[l]
      BY <1>2, Zenon DEF OpenLine
    <3>2. OpenLine' = [l \in Keys |-> OpenLine'[l]] /\ OpenLine = [l \in Keys |-> OpenLine[l]]
      BY DEF OpenLine
    <3>3. OpenLine'[k] = Tail(OpenLine[k])
      BY <1>3, <1>5, <2>1, Zenon
    <3> HIDE DEF OpenLine
    <3> QED BY <3>1, <3>2, <3>3
  <2>3. slot' = [slot EXCEPT ![Head(OpenLine[k])] = Head(items[k])]
    <3>1. slot' = [slot EXCEPT ![Head(q)] = Head(items[k])]
      BY <1>5 DEF HandOver, q
    <3> QED BY <1>3, <1>5, <2>1, <3>1, Zenon
  <2>4. items' = [items EXCEPT ![k] = Tail(items[k])]
    BY <1>5, Zenon DEF HandOver, q, PutList, Delete, Put
  <2>5. OpenLine[k] # << >>
    BY <1>3, <1>5, <2>1, Zenon
  <2>6. Promise!Serve(k)
    BY <1>1, <2>2, <2>3, <2>4, <2>5, Zenon DEF Promise!Serve
  <2> QED BY <2>6 DEF Promise!Next
<1> QED BY <1>4, <1>5

\* A turn of retain takes out a sender that HandOff does not see, if any.
LEMMA RetainIsNothing ==
    ASSUME LineInv, NEW k \in Keys, NEW c \in Clients, NEW i \in 1 .. Len(waiters[k]) + 1,
           RetainNext(k, c, i)
    PROVE  [Promise!Next]_Promise!vars
<1> DEFINE q == waiters[k]
<1>1. /\ q \in Seq(Clients \cup {Gone}) /\ i \in 1 .. Len(q)
      /\ waiters \in [Keys -> Seq(Clients \cup {Gone})]
      /\ items' = items /\ slot' = slot
  BY DEF LineInv, Shape, TypeOK, RetainNext
<1> HIDE DEF q
<1>2. CASE q[i] = Gone
  <2>1. Open(RemoveAt(q, i)) = Open(q)
    BY <1>1, <1>2, OpenWithoutGone
  <2>2. waiters'[k] = RemoveAt(q, i) /\ \A l \in Keys \ {k} : waiters'[l] = waiters[l]
    BY <1>1, <1>2 DEF RetainNext, q
  <2>3. OpenLine' = OpenLine
    BY <2>1, <2>2, SameLine DEF q
  <2> QED BY <1>1, <2>3 DEF Promise!vars
<1>3. CASE q[i] # Gone
  <2>1. waiters' = waiters
    BY <1>3 DEF RetainNext, q
  <2>2. OpenLine' = OpenLine
    BY <2>1 DEF OpenLine
  <2> QED BY <1>1, <2>2 DEF Promise!vars
<1> QED BY <1>2, <1>3

\* Once retain is through, the client joins the back of a line it is not in.
LEMMA JoinIsJoinLine ==
    ASSUME LineInv, NEW k \in Keys, NEW c \in Clients, NEW i \in 1 .. Len(waiters[k]) + 1,
           Join(k, c, i)
    PROVE  [Promise!Next]_Promise!vars
<1> DEFINE q == waiters[k]
           S == Clients \cup {Gone}
<1>1. /\ q \in Seq(S) /\ waiters \in [Keys -> Seq(S)]
      /\ waiters' = [waiters EXCEPT ![k] = Append(q, c)] /\ items' = items /\ slot' = slot
  BY DEF LineInv, Shape, TypeOK, Join
<1>2. pc[c] = "idle" /\ kind[k] = "none"
  BY DEF LineInv, Shape, RetainingForIdle, Join
<1>3. items[k] = << >> /\ slot[c] = NoElement /\ ~InSomeLine(c)
  BY <1>2 DEF LineInv, Shape, ListsNeverEmpty, IdleHasNothing, InLineWhileWaiting
<1>4. \A l \in Keys : c \notin Range(OpenLine[l])
  <2> SUFFICES ASSUME NEW l \in Keys PROVE c \notin Range(OpenLine[l])
    OBVIOUS
  <2>1. waiters[l] \in Seq(S) /\ c \notin Range(waiters[l])
    BY <1>1, <1>3 DEF InSomeLine, InLine
  <2>2. c \notin Range(Open(waiters[l]))
    BY <2>1, OpenAreQueued
  <2> QED BY <2>2, Zenon DEF OpenLine
<1>5. OpenLine' = [OpenLine EXCEPT ![k] = Append(OpenLine[k], c)]
  <2>1. waiters'[k] = Append(q, c) /\ \A l \in Keys \ {k} : waiters'[l] = waiters[l]
    BY <1>1
  <2>2. \A l \in Keys \ {k} : OpenLine'[l] = OpenLine[l]
    BY <2>1, Zenon DEF OpenLine
  <2>3. OpenLine[k] = Open(q) /\ OpenLine'[k] = Open(Append(q, c))
    BY <2>1, Zenon DEF OpenLine
  <2>4. OpenLine' = [l \in Keys |-> OpenLine'[l]] /\ OpenLine = [l \in Keys |-> OpenLine[l]]
    BY DEF OpenLine
  <2>5. c \in S /\ c # Gone /\ c \in S \ {Gone}
    BY ConstantsAssumption
  <2>6. Open(q) \in Seq(S \ {Gone}) /\ Open(Append(q, c)) = Open(q) \o Piece(c)
    <3> HIDE DEF q, S
    <3> QED BY <1>1, <2>5, OpenAppend, Zenon
  <2>7. Piece(c) = <<c>>
    BY <2>5 DEF Piece
  <2>8. Append(Open(q), c) = Open(q) \o <<c>>
    <3> HIDE DEF q, S
    <3> QED BY <2>5, <2>6, AppendIsConcat
  <2>9. OpenLine'[k] = Append(OpenLine[k], c)
    BY <2>3, <2>6, <2>7, <2>8, Zenon
  <2> HIDE DEF OpenLine
  <2> QED BY <2>2, <2>4, <2>9
<1>6. Promise!JoinLine(c, k)
  BY <1>1, <1>3, <1>4, <1>5, Zenon DEF Promise!JoinLine, Range
<1> QED BY <1>6 DEF Promise!Next

\* A client that is answered lets go of what it was handed, or walks away from
\* its place in line.
LEMMA AnsweredIsFinishOrLeave ==
    ASSUME LineInv, NEW c \in Clients, pc[c] # "idle", Answered(c), items' = items
    PROVE  [Promise!Next]_Promise!vars
<1> DEFINE S == Clients \cup {Gone}
<1>1. /\ waiters \in [Keys -> Seq(S)] /\ slot \in [Clients -> Elements \cup {NoElement}]
      /\ waiters' = [k \in Keys |-> ReplaceAll(waiters[k], c, Gone)]
      /\ slot' = [slot EXCEPT ![c] = NoElement]
  BY DEF LineInv, Shape, TypeOK, Answered
<1>2. InSomeLine(c) <=> slot[c] = NoElement
  BY DEF LineInv, InLineWhileWaiting
<1>3. c # Gone /\ Gone \in S
  BY ConstantsAssumption
<1>4. ASSUME NEW l \in Keys, c \notin Range(waiters[l])
      PROVE  Open(waiters'[l]) = Open(waiters[l]) /\ OpenLine'[l] = OpenLine[l]
  <2>1. waiters[l] \in Seq(S)
    BY <1>1
  <2>2. ReplaceAll(waiters[l], c, Gone) = waiters[l]
    BY <1>3, <1>4, <2>1, NobodyMarked
  <2>3. waiters'[l] = waiters[l]
    BY <1>1, <2>2, Zenon
  <2> QED BY <2>3, Zenon DEF OpenLine
<1>5. CASE slot[c] # NoElement
  <2>1. OpenLine' = OpenLine
    BY <1>2, <1>4, <1>5, SameLine DEF InSomeLine, InLine
  <2>2. Promise!Finish(c)
    BY <1>1, <1>5, <2>1, Zenon DEF Promise!Finish
  <2> QED BY <2>2 DEF Promise!Next
<1>6. CASE slot[c] = NoElement
  <2>1. slot' = slot
    BY <1>1, <1>6
  <2>2. PICK k \in Keys : c \in Range(waiters[k])
    BY <1>2, <1>6 DEF InSomeLine, InLine
  <2> DEFINE q == waiters[k]
  <2>3. q \in Seq(S) /\ DOMAIN q = 1 .. Len(q)
    BY <1>1
  <2>4. PICK n \in 1 .. Len(q) : q[n] = c
    BY <2>2, <2>3 DEF Range
  <2>5. \A i \in 1 .. Len(q) : q[i] = c => i = n
    BY <1>3, <2>3, <2>4 DEF LineInv, InLineOnce
  <2>6. \A l \in Keys \ {k} : c \notin Range(waiters[l])
    BY <1>3, <2>3, <2>4 DEF LineInv, InLineOnce, Range
  <2> HIDE DEF S, q
  <2>7. PICK j \in DOMAIN Open(q) : Open(q)[j] = c /\ Open(ReplaceAll(q, c, Gone)) = RemoveAt(Open(q), j)
    BY <1>3, <2>3, <2>4, <2>5, OpenMarked
  <2>8. OpenLine[k] = Open(q) /\ OpenLine'[k] = Open(ReplaceAll(q, c, Gone))
    <3>1. waiters'[k] = ReplaceAll(q, c, Gone)
      BY <1>1 DEF q
    <3> QED BY <3>1, Zenon DEF OpenLine, q
  <2>9. OpenLine' = [OpenLine EXCEPT ![k] = RemoveAt(OpenLine[k], j)]
    <3>1. OpenLine' = [l \in Keys |-> OpenLine'[l]] /\ OpenLine = [l \in Keys |-> OpenLine[l]]
      BY DEF OpenLine
    <3>2. \A l \in Keys \ {k} : OpenLine'[l] = OpenLine[l]
      BY <1>4, <2>6
    <3>3. OpenLine'[k] = RemoveAt(OpenLine[k], j)
      BY <2>7, <2>8, Zenon
    <3> HIDE DEF OpenLine
    <3> QED BY <3>1, <3>2, <3>3
  <2>10. j \in DOMAIN OpenLine[k] /\ OpenLine[k][j] = c
    BY <2>7, <2>8, Zenon
  <2>11. Promise!Leave(c)
    BY <2>1, <2>9, <2>10, Zenon DEF Promise!Leave, RemoveAt
  <2> QED BY <2>11 DEF Promise!Next
<1> QED BY <1>5, <1>6

\* Every step is a step of HandOff or one that it does not see.
LEMMA StepKeepsPromise ==
    ASSUME LineInv, [Next]_vars
    PROVE  [Promise!Next]_Promise!vars
<1>0. TypeOK /\ ListsNeverEmpty
  BY DEF LineInv, Shape
\* A step that touches neither lists nor queues nor channels.
<1>1. ASSUME UNCHANGED <<items, waiters, slot>>
      PROVE  [Promise!Next]_Promise!vars
  BY <1>1 DEF Promise!vars, OpenLine
<1>2. ASSUME NEW k \in Keys, NEW exp \in {"never", "pending"}, Set(k, exp)
      PROVE  [Promise!Next]_Promise!vars
  <2>1. StoreTyped /\ Drained(k, Len(items[k])) /\ Len(items[k]) \in 0 .. Len(items[k])
    BY <1>0, <1>2, SetFacts DEF Drained
  <2>2. lock = Free /\ waiters' = waiters /\ slot' = slot
    BY <1>2 DEF Set
  <2> QED BY <2>1, <2>2, DrainIsTake
<1>3. ASSUME NEW k \in Keys, Look(k)
      PROVE  [Promise!Next]_Promise!vars
  BY <1>0, <1>1, <1>3, LookFacts DEF Look
<1>4. ASSUME NEW k \in Keys, NEW n \in 0 .. MaxBatch, Lpop(k, n)
      PROVE  [Promise!Next]_Promise!vars
  <2>1. StoreTyped /\ \E t \in 0 .. Len(items[k]) : Drained(k, t)
    BY <1>0, <1>4, LpopFacts
  <2>2. lock = Free /\ waiters' = waiters /\ slot' = slot
    BY <1>4 DEF Lpop
  <2> QED BY <2>1, <2>2, DrainIsTake
<1>5. ASSUME NEW k \in Keys, NEW c \in Clients, Blpop(c, k)
      PROVE  [Promise!Next]_Promise!vars
  <2>1. StoreTyped /\ \E t \in 0 .. Len(items[k]) : Drained(k, t)
    BY <1>0, <1>5, BlpopFacts
  <2>2. lock = Free /\ waiters' = waiters /\ slot' = slot
    BY <1>5 DEF Blpop
  <2> QED BY <2>1, <2>2, DrainIsTake
<1>6. ASSUME NEW k \in Keys, DeadlinePasses(k) \/ WakeDone(k)
      PROVE  [Promise!Next]_Promise!vars
  BY <1>1, <1>6 DEF DeadlinePasses, WakeDone
<1>7. ASSUME NEW k \in Keys, Operation(k)
      PROVE  [Promise!Next]_Promise!vars
  BY <1>2, <1>3, <1>4, <1>6, <1>7, PushIsOffer DEF Operation
<1>8. ASSUME NEW c \in Clients, Receive(c) \/ GiveUp(c)
      PROVE  [Promise!Next]_Promise!vars
  <2>1. pc[c] # "idle" /\ Answered(c) /\ items' = items
    BY <1>8 DEF Receive, GiveUp
  <2> QED BY <2>1, AnsweredIsFinishOrLeave
<1>9. ASSUME NEW c \in Clients, TimerFires(c)
      PROVE  [Promise!Next]_Promise!vars
  BY <1>1, <1>9 DEF TimerFires
<1>10. CASE UNCHANGED vars
  BY <1>1, <1>10 DEF vars
<1> QED
  BY <1>5, <1>6, <1>7, <1>8, <1>9, <1>10, HandOverIsServe, RetainIsNothing, JoinIsJoinLine
     DEF Next, WakeStep, RetainStep, Client

\* HandOff starts with nothing to offer, nobody in line and nobody served.
LEMMA InitKeepsPromise == Init => Promise!Init
    BY OpenNone DEF Init, Promise!Init, OpenLine

\* The loops over the queue, the abandoned senders and the timeouts implement
\* the direct hand-over of elements to clients, one step at a time.
THEOREM HandsOver == Spec => Promise!Init /\ [][Promise!Next]_Promise!vars
<1>1. LineInv /\ [Next]_vars => [Promise!Next]_Promise!vars
  BY StepKeepsPromise
<1> QED BY <1>1, InitKeepsPromise, LineInvariant, PTL DEF Spec
=============================================================================
