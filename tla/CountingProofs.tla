--------------------------- MODULE CountingProofs ---------------------------
(***************************************************************************)
(* What the proofs of several components need of numbers and sums.         *)
(*                                                                         *)
(* Induction is used in the form that takes no operator as a parameter: a  *)
(* set of naturals that is not empty has a least element.                  *)
(***************************************************************************)
EXTENDS Functions, Sequences, FiniteSetTheorems, SequenceTheorems, TLAPS

\* A set of naturals that is not empty has a least element.
LEMMA Least ==
    ASSUME NEW T \in SUBSET Nat, T # {}
    PROVE  \E n \in T : \A m \in T : n <= m
<1> DEFINE R == {p \in Nat \X Nat : p[1] < p[2]}
<1>1. IsWellFoundedOn(R, Nat)
  BY NatLessThanWellFounded DEF OpToRel
<1>2. \A m, n \in Nat : m < n => <<m, n>> \in R
  OBVIOUS
<1> HIDE DEF R
<1>3. PICK n \in T : \A m \in T : ~ (<<m, n>> \in R)
  BY <1>1, WFMin
<1>4. ASSUME NEW m \in T PROVE n <= m
  <2>1. m \in Nat /\ n \in Nat
    OBVIOUS
  <2>2. ~ (m < n)
    BY <1>2, <1>3, <2>1
  <2> QED BY <2>1, <2>2
<1> QED BY <1>4

\* So a set of them that has zero, and with every number the next, is all of them.
LEMMA AllNaturals ==
    ASSUME NEW T \in SUBSET Nat, 0 \in T, \A n \in T : n + 1 \in T
    PROVE  T = Nat
<1> DEFINE U == Nat \ T
<1> SUFFICES ASSUME U # {} PROVE FALSE
  OBVIOUS
<1>1. PICK n \in U : \A m \in U : n <= m
  BY Least, Zenon
<1>2. n \in Nat /\ n # 0 /\ n \notin T
  OBVIOUS
<1>3. n - 1 \in Nat /\ ~ (n <= n - 1) /\ (n - 1) + 1 = n
  BY <1>2
<1>4. n - 1 \in T
  BY <1>1, <1>3
<1>5. (n - 1) + 1 \in T
  BY <1>4
<1> QED BY <1>2, <1>3, <1>5

\* f tells what n steps come to, from a on; and f and g do the same at each.
Steps(f, a, n, step) == f[0] = a /\ \A i \in 1 .. n : f[i] = step[i][f[i - 1]]
Alike(f, g, n) == f[0] = g[0] /\ \A i \in 1 .. n : f[i - 1] = g[i - 1] => f[i] = g[i]

\* What is done in steps comes to something after each.
LEMMA StepsExist ==
    ASSUME NEW X, NEW a \in X, NEW n \in Nat, NEW step \in [1 .. n -> [X -> X]]
    PROVE  \E f \in [0 .. n -> X] : Steps(f, a, n, step)
<1> DEFINE Upto(m, f) == /\ f \in [0 .. m -> X]
                         /\ f[0] = a /\ \A i \in 1 .. m : f[i] = step[i][f[i - 1]]
           T == {m \in Nat : m <= n => \E f : Upto(m, f)}
<1>1. 0 \in T
  <2> DEFINE g == [i \in 0 .. 0 |-> a]
  <2>1. Upto(0, g)
    OBVIOUS
  <2> QED BY <2>1, Zenon
<1>2. ASSUME NEW m \in T PROVE m + 1 \in T
  <2>0. m \in Nat
    OBVIOUS
  <2> SUFFICES ASSUME m + 1 <= n PROVE \E f : Upto(m + 1, f)
    <3> HIDE DEF Upto
    <3> QED BY <2>0
  <2>1. PICK f : Upto(m, f)
    <3> HIDE DEF Upto
    <3>1. m <= n
      BY <2>0
    <3> QED BY <3>1
  <2>2. PICK y \in X : y = step[m + 1][f[m]]
    <3>1. m + 1 \in 1 .. n /\ m \in 0 .. m
      BY <2>0
    <3>2. step[m + 1] \in [X -> X] /\ f[m] \in X
      BY <2>1, <3>1, Zenon
    <3> QED BY <3>2, Zenon
  <2> DEFINE g == [i \in 0 .. m + 1 |-> IF i <= m THEN f[i] ELSE y]
  <2>3. g \in [0 .. m + 1 -> X] /\ g[0] = a
    BY <2>0, <2>1, <2>2
  <2>4. ASSUME NEW i \in 1 .. m + 1 PROVE g[i] = step[i][g[i - 1]]
    <3>1. CASE i <= m
      <4>1. i \in 1 .. m /\ i \in 0 .. m + 1 /\ i - 1 \in 0 .. m + 1 /\ i - 1 <= m
        BY <2>0, <3>1
      <4>2. g[i] = f[i] /\ g[i - 1] = f[i - 1]
        BY <3>1, <4>1
      <4> QED BY <2>1, <4>1, <4>2, Zenon
    <3>2. CASE i = m + 1
      <4>1. m + 1 \in 0 .. m + 1 /\ m \in 0 .. m + 1 /\ m <= m /\ ~ (m + 1 <= m) /\ i - 1 = m
        BY <2>0, <3>2
      <4>2. g[m + 1] = y /\ g[m] = f[m]
        BY <4>1, Zenon
      <4> QED BY <2>2, <3>2, <4>1, <4>2, Zenon
    <3> QED BY <2>0, <3>1, <3>2
  <2>5. Upto(m + 1, g)
    <3> HIDE DEF g
    <3> QED BY <2>3, <2>4
  <2> QED BY <2>5, Zenon
<1>3. T = Nat
  <2>1. T \in SUBSET Nat
    OBVIOUS
  <2> HIDE DEF T
  <2> QED BY <1>1, <1>2, <2>1, AllNaturals
<1>4. PICK f : Upto(n, f)
  <2> HIDE DEF T, Upto
  <2>1. n \in T /\ n <= n
    BY <1>3
  <2> QED BY <2>1 DEF T
<1> QED BY <1>4, Zenon DEF Steps

\* Two of them that begin alike and do the same at every step are alike throughout.
LEMMA StepsAgree ==
    ASSUME NEW n \in Nat, NEW f, NEW g, Alike(f, g, n)
    PROVE  \A i \in 0 .. n : f[i] = g[i]
<1> USE DEF Alike
<1> DEFINE T == {m \in Nat : m <= n => f[m] = g[m]}
<1>1. 0 \in T
  OBVIOUS
<1>2. ASSUME NEW m \in T PROVE m + 1 \in T
  <2>1. m \in Nat
    OBVIOUS
  <2> SUFFICES ASSUME m + 1 <= n PROVE f[m + 1] = g[m + 1]
    BY <2>1
  <2>2. m + 1 \in 1 .. n /\ (m + 1) - 1 = m /\ f[m] = g[m]
    BY <2>1
  <2> QED BY <2>2, Zenon
<1>3. T = Nat
  <2>1. T \in SUBSET Nat
    OBVIOUS
  <2> HIDE DEF T
  <2> QED BY <1>1, <1>2, <2>1, AllNaturals
<1> QED BY <1>3

\* Positions up to some point are as many as the last of them says.
LEMMA CountedUpTo ==
    ASSUME NEW n \in Nat, NEW P \in SUBSET (1 .. n), \A i \in P : \A j \in 1 .. i : j \in P
    PROVE  Cardinality(P) \in Nat /\ P = 1 .. Cardinality(P)
<1> DEFINE T == {i \in Nat : i + 1 \notin P}
<1>1. n \in T
  OBVIOUS
<1>2. PICK m \in T : \A i \in T : m <= i
  BY <1>1, Least, Zenon
<1>3. m \in Nat /\ m + 1 \notin P
  OBVIOUS
<1>4. ASSUME NEW j \in 1 .. m PROVE j \in P
  <2>1. j - 1 \in Nat /\ ~ (m <= j - 1)
    BY <1>3
  <2>2. (j - 1) + 1 = j
    OBVIOUS
  <2> QED BY <1>2, <2>1, <2>2
<1>5. ASSUME NEW j \in P PROVE j \in 1 .. m
  <2>1. j \in Nat /\ 1 <= j
    OBVIOUS
  <2>2. CASE m < j
    <3>1. m + 1 \in 1 .. j
      BY <1>3, <2>1, <2>2
    <3> QED BY <1>3, <3>1
  <2> QED BY <1>3, <2>1, <2>2
<1>6. P = 1 .. m
  BY <1>4, <1>5
<1>7. Cardinality(1 .. m) = m
  BY <1>3, FS_Interval
<1> QED BY <1>3, <1>6, <1>7

-----------------------------------------------------------------------------
(* Sums.  The fold picks the elements of a set in an order of its own; the *)
(* lemmas show that the order does not matter.                             *)

Some(s) == CHOOSE x \in s : TRUE

\* The partial sums of f over the subsets of D, as the fold takes them.
Adds(f, D, g) ==
    g = [s \in SUBSET D |-> IF s = {} THEN 0 ELSE f[Some(s)] + g[s \ {Some(s)}]]

\* Taking one element out of a finite set leaves one less.
LEMMA OneLess ==
    ASSUME NEW D, IsFiniteSet(D), NEW s \in SUBSET D
    PROVE  /\ Cardinality(s) \in Nat
           /\ s = {} <=> Cardinality(s) = 0
           /\ s # {} => Some(s) \in s
           /\ \A x \in s : /\ s \ {x} \in SUBSET D
                           /\ Cardinality(s \ {x}) \in Nat
                           /\ Cardinality(s) = Cardinality(s \ {x}) + 1
<1>1. IsFiniteSet(s) /\ Cardinality(s) \in Nat
  BY FS_Subset, FS_CardinalityType
<1>2. (s = {} <=> Cardinality(s) = 0) /\ (s # {} => Some(s) \in s)
  BY <1>1, FS_EmptySet DEF Some
<1>3. ASSUME NEW x \in s
      PROVE  /\ s \ {x} \in SUBSET D
             /\ Cardinality(s \ {x}) \in Nat
             /\ Cardinality(s) = Cardinality(s \ {x}) + 1
  <2>1. IsFiniteSet(s \ {x}) /\ Cardinality(s \ {x}) = Cardinality(s) - 1
    BY <1>1, FS_RemoveElement
  <2>2. Cardinality(s \ {x}) \in Nat
    BY <2>1, FS_CardinalityType
  <2> QED BY <1>1, <2>1, <2>2
<1> QED BY <1>1, <1>2, <1>3

\* The partial sums exist.
LEMMA AddsExist ==
    ASSUME NEW D, IsFiniteSet(D), NEW f \in [D -> Nat]
    PROVE  \E g : Adds(f, D, g)
<1> DEFINE Upto(g, n) == \A s \in SUBSET D : Cardinality(s) <= n =>
                 g[s] = IF s = {} THEN 0 ELSE f[Some(s)] + g[s \ {Some(s)}]
           T == {n \in Nat : \E g \in [SUBSET D -> Nat] : Upto(g, n)}
<1>1. 0 \in T
  <2> DEFINE g == [s \in SUBSET D |-> 0]
  <2>1. g \in [SUBSET D -> Nat] /\ Upto(g, 0)
    <3>1. ASSUME NEW s \in SUBSET D, Cardinality(s) <= 0 PROVE s = {}
      BY <3>1, OneLess
    <3> QED BY <3>1
  <2> QED BY <2>1
<1>2. ASSUME NEW n \in T PROVE n + 1 \in T
  <2>1. PICK g \in [SUBSET D -> Nat] : Upto(g, n)
    OBVIOUS
  <2> DEFINE h == [s \in SUBSET D |->
                      IF Cardinality(s) = n + 1 THEN f[Some(s)] + g[s \ {Some(s)}] ELSE g[s]]
  <2>2. ASSUME NEW s \in SUBSET D, Cardinality(s) = n + 1
        PROVE  /\ s # {} /\ f[Some(s)] + g[s \ {Some(s)}] \in Nat
               /\ h[s \ {Some(s)}] = g[s \ {Some(s)}]
    <3>1. n \in Nat
      OBVIOUS
    <3>2. s # {}
      BY <2>2, <3>1, OneLess
    <3>3. Some(s) \in s /\ s \ {Some(s)} \in SUBSET D /\ Cardinality(s \ {Some(s)}) = n
      BY <2>2, <3>1, <3>2, OneLess
    <3> QED BY <2>1, <3>1, <3>2, <3>3
  <2>3. h \in [SUBSET D -> Nat]
    BY <2>1, <2>2
  <2>4. ASSUME NEW s \in SUBSET D, Cardinality(s) <= n + 1
        PROVE  h[s] = IF s = {} THEN 0 ELSE f[Some(s)] + h[s \ {Some(s)}]
    <3>1. CASE Cardinality(s) = n + 1
      BY <2>2, <3>1
    <3>2. CASE Cardinality(s) <= n
      <4>1. n \in Nat /\ Cardinality(s) # n + 1 /\ Cardinality(s) \in Nat
        BY <3>2, OneLess
      <4>2. h[s] = IF s = {} THEN 0 ELSE f[Some(s)] + g[s \ {Some(s)}]
        BY <2>1, <3>2, <4>1
      <4>3. ASSUME s # {} PROVE h[s \ {Some(s)}] = g[s \ {Some(s)}]
        <5>1. Some(s) \in s /\ s \ {Some(s)} \in SUBSET D
              /\ Cardinality(s) = Cardinality(s \ {Some(s)}) + 1 /\ Cardinality(s \ {Some(s)}) \in Nat
          BY <4>3, OneLess
        <5> QED BY <3>2, <4>1, <5>1
      <4> QED BY <4>2, <4>3
    <3> QED BY <2>4, <3>1, <3>2, OneLess
  <2>5. Upto(h, n + 1)
    BY <2>4
  <2>6. n + 1 \in Nat
    OBVIOUS
  <2> HIDE DEF h, Upto
  <2> QED BY <2>3, <2>5, <2>6
<1>3. T = Nat
  <2> HIDE DEF T
  <2>1. T \in SUBSET Nat
    BY DEF T
  <2> QED BY <1>1, <1>2, <2>1, AllNaturals
<1>4. Cardinality(D) \in T
  BY <1>3, FS_CardinalityType
<1>5. PICK g \in [SUBSET D -> Nat] : Upto(g, Cardinality(D))
  BY <1>4
<1>6. g = [s \in SUBSET D |-> IF s = {} THEN 0 ELSE f[Some(s)] + g[s \ {Some(s)}]]
  BY <1>5, FS_Subset
<1> QED BY <1>6 DEF Adds

\* They are naturals, and whichever element is taken out first makes no
\* difference.
LEMMA AddsSplit ==
    ASSUME NEW D, IsFiniteSet(D), NEW f \in [D -> Nat], NEW g, Adds(f, D, g)
    PROVE  /\ g[{}] = 0
           /\ \A s \in SUBSET D : /\ g[s] \in Nat
                                  /\ \A x \in s : g[s] = f[x] + g[s \ {x}]
<1>1. g[{}] = 0 /\ \A s \in SUBSET D : s # {} => g[s] = f[Some(s)] + g[s \ {Some(s)}]
  BY DEF Adds
<1> DEFINE Fine(s) == g[s] \in Nat /\ \A x \in s : g[s] = f[x] + g[s \ {x}]
           T == {n \in Nat : \A s \in SUBSET D : Cardinality(s) <= n => Fine(s)}
<1>2. 0 \in T
  <2>1. ASSUME NEW s \in SUBSET D, Cardinality(s) <= 0 PROVE s = {}
    BY <2>1, OneLess
  <2>2. Fine({})
    BY <1>1
  <2> HIDE DEF Fine
  <2>3. \A s \in SUBSET D : Cardinality(s) <= 0 => Fine(s)
    BY <2>1, <2>2, Zenon
  <2> QED BY <2>3
<1>3. ASSUME NEW n \in T PROVE n + 1 \in T
  <2>0. n \in Nat /\ n + 1 \in Nat
    OBVIOUS
  <2>1. ASSUME NEW s \in SUBSET D, Cardinality(s) = n + 1 PROVE Fine(s)
    <3> DEFINE y == Some(s)
    <3>1. s # {}
      BY <2>0, <2>1, OneLess
    <3>2. y \in s /\ y \in D
      BY <3>1, OneLess
    <3>3. ASSUME NEW x \in s PROVE s \ {x} \in SUBSET D /\ Fine(s \ {x}) /\ f[x] \in Nat
      <4>1. s \ {x} \in SUBSET D /\ Cardinality(s \ {x}) <= n
        BY <2>0, <2>1, OneLess
      <4> QED BY <4>1
    <3>4. g[s] = f[y] + g[s \ {y}] /\ g[s] \in Nat
      <4>1. g[s] = f[y] + g[s \ {y}]
        BY <1>1, <3>1
      <4> HIDE DEF y
      <4>2. f[y] \in Nat /\ g[s \ {y}] \in Nat
        BY <3>2, <3>3
      <4> QED BY <4>1, <4>2
    <3>5. ASSUME NEW x \in s PROVE g[s] = f[x] + g[s \ {x}]
      <4>1. CASE x = y
        BY <3>4, <4>1
      <4>2. CASE x # y
        <5> HIDE DEF y
        <5>1. (s \ {x}) \ {y} = (s \ {y}) \ {x} /\ x \in s \ {y} /\ y \in s \ {x}
          BY <3>2, <4>2
        <5>2. g[s \ {y}] = f[x] + g[(s \ {y}) \ {x}] /\ g[s \ {x}] = f[y] + g[(s \ {x}) \ {y}]
          BY <3>2, <3>3, <5>1
        <5>3. g[(s \ {y}) \ {x}] \in Nat
          <6>1. (s \ {y}) \in SUBSET D /\ Cardinality(s \ {y}) = n
            BY <2>0, <2>1, <3>2, OneLess
          <6>2. (s \ {y}) \ {x} \in SUBSET D /\ Cardinality((s \ {y}) \ {x}) <= n
            BY <2>0, <5>1, <6>1, OneLess
          <6> QED BY <6>2
        <5>4. f[x] \in Nat /\ f[y] \in Nat
          BY <3>2, <3>3
        <5>5. g[(s \ {x}) \ {y}] = g[(s \ {y}) \ {x}]
          BY <5>1, Zenon
        <5> HIDE DEF Fine, T
        <5> QED BY <3>4, <5>2, <5>3, <5>4, <5>5
      <4> QED BY <4>1, <4>2
    <3> QED BY <3>4, <3>5
  <2>2. ASSUME NEW s \in SUBSET D, Cardinality(s) <= n + 1 PROVE Fine(s)
    <3>1. Cardinality(s) = n + 1 \/ Cardinality(s) <= n
      BY <2>0, <2>2, OneLess
    <3>2. Cardinality(s) <= n => Fine(s)
      OBVIOUS
    <3> HIDE DEF Fine
    <3> QED BY <2>1, <3>1, <3>2
  <2> HIDE DEF Fine
  <2> QED BY <2>0, <2>2
<1>4. T = Nat
  <2> HIDE DEF T
  <2>1. T \in SUBSET Nat
    BY DEF T
  <2> QED BY <1>2, <1>3, <2>1, AllNaturals
<1>5. ASSUME NEW s \in SUBSET D PROVE Fine(s)
  <2>1. Cardinality(s) \in T
    BY <1>4, OneLess
  <2>2. Cardinality(s) <= Cardinality(s)
    BY OneLess
  <2> HIDE DEF Fine
  <2> QED BY <2>1, <2>2
<1> QED BY <1>1, <1>5

\* Over the same elements, the same values have the same partial sums.
LEMMA AddsAgree ==
    ASSUME NEW D, IsFiniteSet(D), NEW f \in [D -> Nat], NEW g, Adds(f, D, g),
           NEW E \in SUBSET D, NEW e \in [E -> Nat], \A x \in E : e[x] = f[x], NEW h, Adds(e, E, h)
    PROVE  \A s \in SUBSET E : g[s] = h[s]
<1> DEFINE T == {n \in Nat : \A s \in SUBSET E : Cardinality(s) <= n => g[s] = h[s]}
<1>1. IsFiniteSet(E)
  BY FS_Subset
<1>2. /\ g[{}] = 0 /\ \A s \in SUBSET D : s # {} => g[s] = f[Some(s)] + g[s \ {Some(s)}]
      /\ h[{}] = 0 /\ \A s \in SUBSET E : s # {} => h[s] = e[Some(s)] + h[s \ {Some(s)}]
  BY DEF Adds
<1>3. 0 \in T
  <2>1. ASSUME NEW s \in SUBSET E, Cardinality(s) <= 0 PROVE s = {}
    BY <1>1, <2>1, OneLess
  <2> QED BY <1>2, <2>1
<1>4. ASSUME NEW n \in T PROVE n + 1 \in T
  <2>0. n \in Nat /\ n + 1 \in Nat
    OBVIOUS
  <2>1. ASSUME NEW s \in SUBSET E, Cardinality(s) <= n + 1 PROVE g[s] = h[s]
    <3>1. CASE s = {}
      BY <1>2, <3>1
    <3>2. CASE s # {}
      <4>1. /\ Some(s) \in s /\ s \ {Some(s)} \in SUBSET E
            /\ Cardinality(s) = Cardinality(s \ {Some(s)}) + 1 /\ Cardinality(s \ {Some(s)}) \in Nat
        BY <1>1, <3>2, OneLess
      <4>2. Cardinality(s \ {Some(s)}) <= n
        BY <2>0, <2>1, <4>1
      <4>3. g[s \ {Some(s)}] = h[s \ {Some(s)}] /\ s \in SUBSET D /\ e[Some(s)] = f[Some(s)]
        BY <4>1, <4>2
      <4> HIDE DEF T
      <4> QED BY <1>2, <3>2, <4>3
    <3> QED BY <3>1, <3>2
  <2> QED BY <2>0, <2>1
<1>5. T = Nat
  <2> HIDE DEF T
  <2>1. T \in SUBSET Nat
    BY DEF T
  <2> QED BY <1>3, <1>4, <2>1, AllNaturals
<1>6. ASSUME NEW s \in SUBSET E PROVE g[s] = h[s]
  <2>1. Cardinality(s) \in T /\ Cardinality(s) <= Cardinality(s)
    BY <1>1, <1>5, OneLess
  <2> QED BY <2>1
<1> QED BY <1>6

\* The sum is the last of the partial sums.
LEMMA SumIsAdds ==
    ASSUME NEW D, IsFiniteSet(D), NEW f \in [D -> Nat]
    PROVE  \E g : Adds(f, D, g) /\ SumFunction(f) = g[D]
<1> DEFINE g == CHOOSE iter : Adds(f, D, iter)
<1>1. Adds(f, D, g)
  BY AddsExist
<1>2. SumFunction(f) = g[D]
  BY DEF SumFunction, SumFunctionOnSet, FoldFunctionOnSet, MapThenFoldSet, Adds, Some
<1> QED BY <1>1, <1>2

\* A sum over nothing is zero.
LEMMA SumOfNone ==
    ASSUME NEW D, D = {}, NEW f \in [D -> Nat]
    PROVE  SumFunction(f) = 0
<1>1. IsFiniteSet(D)
  BY FS_EmptySet
<1>2. PICK g : Adds(f, D, g) /\ SumFunction(f) = g[D]
  BY <1>1, SumIsAdds
<1>3. g[{}] = 0
  BY <1>1, <1>2, AddsSplit
<1> QED BY <1>2, <1>3

\* One value can be taken out of a sum and the rest added up by itself.
Others(f, x) == [y \in DOMAIN f \ {x} |-> f[y]]

LEMMA SumParts ==
    ASSUME NEW D, IsFiniteSet(D), NEW f \in [D -> Nat], NEW x \in D
    PROVE  /\ SumFunction(f) \in Nat /\ SumFunction(Others(f, x)) \in Nat
           /\ SumFunction(f) = f[x] + SumFunction(Others(f, x))
<1>1. PICK g : Adds(f, D, g) /\ SumFunction(f) = g[D]
  BY SumIsAdds
<1> DEFINE E == D \ {x}
           e == Others(f, x)
<1>2. D \in SUBSET D /\ E \in SUBSET D
  OBVIOUS
<1>3. IsFiniteSet(E)
  BY FS_RemoveElement
<1>4. e \in [E -> Nat] /\ \A y \in E : e[y] = f[y]
  BY DEF Others
<1> HIDE DEF e
<1>5. PICK h : Adds(e, E, h) /\ SumFunction(e) = h[E]
  BY <1>3, <1>4, SumIsAdds
<1>6. g[E] = h[E]
  BY <1>1, <1>2, <1>4, <1>5, AddsAgree
<1>7. g[D] \in Nat /\ g[E] \in Nat /\ g[D] = f[x] + g[E]
  <2>1. g[D] \in Nat /\ g[E] \in Nat
    BY <1>1, <1>2, AddsSplit
  <2>2. g[D] = f[x] + g[E]
    BY <1>1, <1>2, AddsSplit
  <2> QED BY <2>1, <2>2
<1> QED BY <1>1, <1>5, <1>6, <1>7 DEF e

\* The sum of numbers is a number.
LEMMA SumIsNat ==
    ASSUME NEW D, IsFiniteSet(D), NEW f \in [D -> Nat]
    PROVE  SumFunction(f) \in Nat
<1>1. CASE D = {}
  <2>1. SumFunction(f) = 0
    BY <1>1, SumOfNone, Zenon
  <2> QED BY <2>1
<1>2. CASE D # {}
  <2>1. PICK x : x \in D
    BY <1>2
  <2> QED BY <2>1, SumParts
<1> QED BY <1>1, <1>2

\* A value that changes changes the sum by as much.
LEMMA SumChanges ==
    ASSUME NEW D, IsFiniteSet(D), NEW f \in [D -> Nat], NEW x \in D, NEW v \in Nat
    PROVE  /\ SumFunction(f) \in Nat /\ f[x] <= SumFunction(f)
           /\ SumFunction([f EXCEPT ![x] = v]) = SumFunction(f) - f[x] + v
<1> DEFINE e == [f EXCEPT ![x] = v]
           r == Others(f, x)
<1>1. e \in [D -> Nat] /\ e[x] = v /\ Others(e, x) = r
  BY DEF Others
<1>2. SumFunction(f) \in Nat /\ SumFunction(r) \in Nat /\ SumFunction(f) = f[x] + SumFunction(r)
  BY SumParts
<1> HIDE DEF e, r
<1>3. SumFunction(e) = e[x] + SumFunction(Others(e, x))
  BY <1>1, SumParts
<1>4. SumFunction(e) = v + SumFunction(r)
  BY <1>1, <1>3
<1>5. f[x] \in Nat
  OBVIOUS
<1> QED BY <1>2, <1>4, <1>5 DEF e

\* The last number of a sequence adds itself to the sum of the others.
LEMMA SumOfAppend ==
    ASSUME NEW s \in Seq(Nat), NEW v \in Nat
    PROVE  SumFunction(s) \in Nat /\ SumFunction(Append(s, v)) = SumFunction(s) + v
<1> DEFINE n == Len(s)
           t == Append(s, v)
           D == 1 .. n + 1
<1>1. n \in Nat /\ t \in Seq(Nat) /\ Len(t) = n + 1 /\ t[n + 1] = v /\ \A i \in 1 .. n : t[i] = s[i]
  OBVIOUS
<1>2. s \in [1 .. n -> Nat] /\ IsFiniteSet(1 .. n)
  <2>1. s \in [1 .. n -> Nat]
    OBVIOUS
  <2>2. 1 \in Int /\ n \in Int
    BY <1>1
  <2> HIDE DEF n
  <2>3. IsFiniteSet(1 .. n)
    BY <2>2, FS_Interval
  <2> QED BY <2>1, <2>3
<1>3. IsFiniteSet(D) /\ n + 1 \in D /\ D \ {n + 1} = 1 .. n
  <2>1. 1 \in Int /\ n + 1 \in Int /\ n \in Nat
    BY <1>1
  <2> HIDE DEF n
  <2>2. IsFiniteSet(1 .. n + 1)
    BY <2>1, FS_Interval
  <2>3. n + 1 \in D /\ D \ {n + 1} = 1 .. n
    BY <2>1
  <2> QED BY <2>2, <2>3
<1> HIDE DEF t
<1>4. t \in [D -> Nat]
  BY <1>1
<1>5. Others(t, n + 1) = s
  BY <1>1, <1>2, <1>3, <1>4 DEF Others
<1> HIDE DEF n, D
<1>6. SumFunction(t) \in Nat /\ SumFunction(t) = t[n + 1] + SumFunction(Others(t, n + 1))
  BY <1>3, <1>4, SumParts
<1>7. SumFunction(s) \in Nat
  BY <1>2, SumIsNat
<1> QED BY <1>1, <1>5, <1>6, <1>7 DEF t

\* Sequences of as many and the same elements are the same.
LEMMA SameSequence ==
    ASSUME NEW n \in Nat, NEW a \in Seq(Nat), NEW b \in Seq(Nat), Len(a) = n, Len(b) = n,
           \A i \in 1 .. n : a[i] = b[i]
    PROVE  a = b
<1>1. Len(a) = Len(b) /\ \A i \in 1 .. Len(a) : a[i] = b[i]
  OBVIOUS
<1> QED BY <1>1, SeqEqual

\* A sequence of one is its head.
LEMMA OneNumber ==
    ASSUME NEW t \in Seq(Nat), Len(t) = 1
    PROVE  Head(t) \in Nat /\ Tail(t) = << >> /\ t = Append(<< >>, Head(t))
<1>1. t # << >>
  <2>1. Len(<< >>) = 0 /\ 0 # 1
    OBVIOUS
  <2> QED BY <2>1, Zenon
<1>2. Head(t) = t[1] /\ t[1] \in Nat /\ Tail(t) \in Seq(Nat) /\ Len(Tail(t)) = 0
  BY <1>1
<1>3. << >> \in Seq(Nat) /\ Len(<< >>) = 0
  OBVIOUS
<1>4. Tail(t) = << >>
  <2> DEFINE a == Tail(t)
  <2> HIDE DEF a
  <2>1. a \in Seq(Nat) /\ Len(a) = 0
    BY <1>2 DEF a
  <2>2. a = << >>
    BY <2>1, EmptySeq
  <2> QED BY <2>2 DEF a
<1>5. /\ Append(<< >>, Head(t)) \in Seq(Nat) /\ Len(Append(<< >>, Head(t))) = 1
      /\ Append(<< >>, Head(t))[1] = t[1]
  BY <1>2
<1>6. t = Append(<< >>, Head(t))
  <2> DEFINE b == Append(<< >>, Head(t))
  <2>1. b \in Seq(Nat) /\ Len(b) = 1 /\ \A i \in 1 .. 1 : t[i] = b[i]
    BY <1>5
  <2> HIDE DEF b
  <2>2. t = b
    BY <2>1, SameSequence
  <2> QED BY <2>2 DEF b
<1> QED BY <1>2, <1>4, <1>6

\* A longer one has a last element, and its tail has the same one.
LEMMA LastOfTail ==
    ASSUME NEW n \in Nat, NEW t \in Seq(Nat), Len(t) = n + 2
    PROVE  \E f \in Seq(Nat), v \in Nat :
               /\ Len(f) = n + 1 /\ Head(t) = Head(f) /\ Head(f) \in Nat
               /\ t = Append(f, v)
               /\ Tail(f) \in Seq(Nat) /\ Tail(t) = Append(Tail(f), v)
<1> DEFINE f == SubSeq(t, 1, n + 1)
           v == t[n + 2]
           a == Tail(t)
           b == Append(Tail(f), v)
<1>1. /\ f \in Seq(Nat) /\ Len(f) = n + 1 /\ v \in Nat /\ t = Append(f, v)
      /\ \A i \in 1 .. n + 1 : f[i] = t[i]
  OBVIOUS
<1>2. a \in Seq(Nat) /\ Len(a) = n + 1 /\ \A i \in 1 .. n + 1 : a[i] = t[i + 1]
  OBVIOUS
<1> HIDE DEF f
<1>3. Tail(f) \in Seq(Nat) /\ Len(Tail(f)) = n /\ \A i \in 1 .. n : Tail(f)[i] = f[i + 1]
  BY <1>1
<1>4. Head(t) = Head(f) /\ Head(f) \in Nat
  BY <1>1
<1>5. /\ b \in Seq(Nat) /\ Len(b) = n + 1 /\ b[n + 1] = v
      /\ \A i \in 1 .. n : b[i] = Tail(f)[i]
  BY <1>1, <1>3
<1>6. ASSUME NEW i \in 1 .. n + 1 PROVE a[i] = b[i]
  <2>1. CASE i = n + 1
    BY <1>2, <1>5, <2>1
  <2>2. CASE i \in 1 .. n
    <3> HIDE DEF a, b
    <3>1. b[i] = f[i + 1] /\ a[i] = t[i + 1]
      BY <1>2, <1>3, <1>5, <2>2
    <3>2. i + 1 \in 1 .. n + 1
      BY <2>2
    <3>3. f[i + 1] = t[i + 1]
      BY <1>1, <3>2, Zenon
    <3> QED BY <3>1, <3>3, Zenon
  <2>3. i = n + 1 \/ i \in 1 .. n
    OBVIOUS
  <2> QED BY <2>1, <2>2, <2>3, Zenon
<1> HIDE DEF a, b, v
<1>7. a = b
  <2>1. a \in Seq(Nat) /\ b \in Seq(Nat) /\ Len(a) = n + 1 /\ Len(b) = n + 1
    BY <1>2, <1>5
  <2>2. n + 1 \in Nat /\ \A i \in 1 .. n + 1 : a[i] = b[i]
    BY <1>6
  <2> QED BY <2>1, <2>2, SameSequence, Zenon
<1> QED BY <1>1, <1>3, <1>4, <1>7 DEF a, b

\* And so does the first.
LEMMA SumOfTail ==
    ASSUME NEW s \in Seq(Nat), s # << >>
    PROVE  /\ Head(s) \in Nat /\ SumFunction(s) \in Nat /\ SumFunction(Tail(s)) \in Nat
           /\ SumFunction(s) = Head(s) + SumFunction(Tail(s))
<1> DEFINE Fine(t) == SumFunction(t) = Head(t) + SumFunction(Tail(t))
           T == {n \in Nat : \A t \in Seq(Nat) : Len(t) = n + 1 => Fine(t)}
<1> HIDE DEF Fine
<1>0. ASSUME NEW t \in Seq(Nat) PROVE SumFunction(t) \in Nat
  <2>1. t \in [1 .. Len(t) -> Nat] /\ Len(t) \in Int /\ 1 \in Int
    OBVIOUS
  <2>2. IsFiniteSet(1 .. Len(t))
    BY <2>1, FS_Interval
  <2> QED BY <2>1, <2>2, SumIsNat
<1>1. 0 \in T
  <2> SUFFICES ASSUME NEW t \in Seq(Nat), Len(t) = 1 PROVE Fine(t)
    OBVIOUS
  <2>1. Head(t) \in Nat /\ Tail(t) = << >> /\ t = Append(<< >>, Head(t))
    BY OneNumber
  <2>2. << >> \in Seq(Nat)
    OBVIOUS
  <2>3. SumFunction(<< >>) \in Nat /\ SumFunction(Append(<< >>, Head(t))) = SumFunction(<< >>) + Head(t)
    BY <2>1, <2>2, SumOfAppend
  <2>4. SumFunction(t) = SumFunction(Tail(t)) + Head(t) /\ SumFunction(Tail(t)) \in Nat
    BY <2>1, <2>3, Zenon
  <2> QED BY <2>1, <2>4 DEF Fine
<1>2. ASSUME NEW n \in T PROVE n + 1 \in T
  <2> SUFFICES ASSUME NEW t \in Seq(Nat), Len(t) = n + 2 PROVE Fine(t)
    OBVIOUS
  <2>0. n \in Nat
    OBVIOUS
  <2>1. PICK f \in Seq(Nat), v \in Nat :
               /\ Len(f) = n + 1 /\ Head(t) = Head(f) /\ Head(f) \in Nat
               /\ t = Append(f, v)
               /\ Tail(f) \in Seq(Nat) /\ Tail(t) = Append(Tail(f), v)
    BY <2>0, LastOfTail
  <2>2. SumFunction(f) = Head(f) + SumFunction(Tail(f))
    BY <2>1 DEF Fine
  <2> DEFINE w == Tail(f)
  <2> HIDE DEF w
  <2>3. w \in Seq(Nat) /\ Tail(t) = Append(w, v) /\ Tail(f) = w
    BY <2>1 DEF w
  <2>4. SumFunction(Append(f, v)) = SumFunction(f) + v
    BY SumOfAppend
  <2>5. SumFunction(Append(w, v)) = SumFunction(w) + v /\ SumFunction(w) \in Nat
    BY <2>3, SumOfAppend
  <2>6. SumFunction(t) = SumFunction(f) + v /\ SumFunction(Tail(t)) = SumFunction(w) + v /\ SumFunction(f) = Head(t) + SumFunction(w)
    BY <2>1, <2>2, <2>3, <2>4, <2>5, Zenon
  <2>7. SumFunction(t) = Head(t) + SumFunction(Tail(t))
    BY <2>1, <2>5, <2>6
  <2> QED BY <2>7 DEF Fine
<1>3. T = Nat
  <2> HIDE DEF T
  <2>1. T \in SUBSET Nat
    BY DEF T
  <2> QED BY <1>1, <1>2, <2>1, AllNaturals
<1>4. Head(s) \in Nat /\ Tail(s) \in Seq(Nat) /\ Len(s) \in Nat /\ Len(s) # 0
  OBVIOUS
<1>5. Fine(s)
  <2> DEFINE n == Len(s) - 1
  <2>1. n \in Nat /\ Len(s) = n + 1
    BY <1>4
  <2>2. n \in T
    BY <1>3, <2>1
  <2> HIDE DEF n
  <2> QED BY <2>1, <2>2
<1>6. SumFunction(s) \in Nat /\ SumFunction(Tail(s)) \in Nat
  BY <1>0, <1>4
<1> QED BY <1>4, <1>5, <1>6 DEF Fine

\* A sum of ones and zeros is the number of the ones.
LEMMA SumOfMarks ==
    ASSUME NEW D, IsFiniteSet(D), NEW f \in [D -> {0, 1}]
    PROVE  SumFunction(f) = Cardinality({x \in D : f[x] = 1})
<1> DEFINE Only(E) == [x \in E |-> f[x]]
           Ones(E) == {x \in E : f[x] = 1}
           T == {n \in Nat : \A E \in SUBSET D : Cardinality(E) = n => SumFunction(Only(E)) = Cardinality(Ones(E))}
<1>0. ASSUME NEW E \in SUBSET D
      PROVE  /\ IsFiniteSet(E) /\ Cardinality(E) \in Nat /\ Only(E) \in [E -> Nat] /\ IsFiniteSet(Ones(E))
             /\ \A x \in E : Only(E)[x] = f[x]
  <2>1. IsFiniteSet(E) /\ IsFiniteSet(Ones(E))
    BY FS_Subset
  <2> QED BY <2>1, FS_CardinalityType
<1>1. 0 \in T
  <2> SUFFICES ASSUME NEW E \in SUBSET D, Cardinality(E) = 0 PROVE SumFunction(Only(E)) = Cardinality(Ones(E))
    OBVIOUS
  <2>1. E = {}
    BY <1>0, FS_EmptySet
  <2>2. Ones(E) = {} /\ Cardinality({}) = 0
    BY <2>1, FS_EmptySet
  <2>3. Only(E) \in [E -> Nat]
    BY <1>0
  <2> HIDE DEF Only, Ones
  <2>4. SumFunction(Only(E)) = 0
    BY <2>1, <2>3, SumOfNone, Zenon
  <2> QED BY <2>2, <2>4
<1>2. ASSUME NEW n \in T PROVE n + 1 \in T
  <2> SUFFICES ASSUME NEW E \in SUBSET D, Cardinality(E) = n + 1 PROVE SumFunction(Only(E)) = Cardinality(Ones(E))
    OBVIOUS
  <2>0. n \in Nat
    OBVIOUS
  <2>1. PICK x : x \in E
    BY <1>0, <2>0, FS_EmptySet
  <2> DEFINE R == E \ {x}
  <2>2. R \in SUBSET D /\ Cardinality(R) = n
    <3>1. Cardinality(E \ {x}) \in Nat /\ Cardinality(E) = Cardinality(E \ {x}) + 1
      BY <2>1, OneLess
    <3>2. E \ {x} \in SUBSET D
      OBVIOUS
    <3> QED BY <2>0, <3>1, <3>2
  <2>3. SumFunction(Only(R)) = Cardinality(Ones(R))
    BY <2>2
  <2>4. Others(Only(E), x) = Only(R)
    BY DEF Others
  <2>5. Only(E) \in [E -> Nat] /\ Only(E)[x] = f[x] /\ IsFiniteSet(E)
    BY <1>0, <2>1
  <2>6. f[x] = 1 => x \in Ones(E) /\ Ones(R) = Ones(E) \ {x}
    BY <2>1
  <2>7. f[x] = 0 => Ones(R) = Ones(E)
    BY <2>1
  <2>8. IsFiniteSet(Ones(E)) /\ f[x] \in {0, 1}
    BY <1>0, <2>1
  <2> HIDE DEF Only, Ones, R
  <2>9. SumFunction(Only(E)) = Only(E)[x] + SumFunction(Others(Only(E), x))
    BY <2>1, <2>5, SumParts
  <2>10. SumFunction(Only(E)) = f[x] + Cardinality(Ones(R))
    BY <2>3, <2>4, <2>5, <2>9, Zenon
  <2>11. Cardinality(Ones(R)) \in Nat /\ Cardinality(Ones(E)) \in Nat
    BY <1>0, <2>2, FS_CardinalityType
  <2>12. CASE f[x] = 1
    <3>1. Cardinality(Ones(E) \ {x}) = Cardinality(Ones(E)) - 1
      BY <2>6, <2>8, <2>12, FS_RemoveElement
    <3>2. Cardinality(Ones(R)) = Cardinality(Ones(E)) - 1
      BY <2>6, <2>12, <3>1, Zenon
    <3> QED BY <2>10, <2>11, <2>12, <3>2
  <2>13. CASE f[x] = 0
    <3>1. Cardinality(Ones(R)) = Cardinality(Ones(E))
      BY <2>7, <2>13, Zenon
    <3> QED BY <2>10, <2>11, <2>13, <3>1
  <2> QED BY <2>8, <2>12, <2>13
<1>3. T = Nat
  <2>1. T \in SUBSET Nat
    OBVIOUS
  <2> HIDE DEF T
  <2> QED BY <1>1, <1>2, <2>1, AllNaturals
<1>4. Only(D) = f /\ D \in SUBSET D
  OBVIOUS
<1>5. Cardinality(D) \in T
  BY <1>0, <1>3, <1>4
<1> HIDE DEF Only
<1>6. SumFunction(Only(D)) = Cardinality(Ones(D))
  BY <1>4, <1>5
<1> QED BY <1>4, <1>6
=============================================================================
