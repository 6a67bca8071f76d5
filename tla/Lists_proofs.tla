---------------------------- MODULE Lists_proofs ----------------------------
(***************************************************************************)
(* What the loops of module Lists compute, for lists of any length.  The   *)
(* induction theorems of the library take an operator as a parameter; here *)
(* induction is by the largest member of a finite set of numbers instead.  *)
(***************************************************************************)
EXTENDS Lists, FiniteSetTheorems, SequenceTheorems, TLAPS

\* A finite, non-empty set of numbers has a largest one.
LEMMA FiniteMaximum ==
    ASSUME NEW S \in SUBSET Nat, IsFiniteSet(S), S # {}
    PROVE  \E m \in S : \A x \in S : x <= m
<1> DEFINE HasMax(T) == \E m \in T : \A x \in T : x <= m
           Bad == {T \in SUBSET S : T # {} /\ ~HasMax(T)}
<1>1. SUFFICES ASSUME Bad # {} PROVE FALSE
  BY DEF HasMax
<1>2. IsWellFoundedOn(StrictSubsetOrdering(S), FiniteSubsetsOf(S))
  BY FS_StrictSubsetOrderingWellFounded
<1>3. Bad \subseteq FiniteSubsetsOf(S)
  BY FS_FiniteSubsetsOfFinite
<1>4. PICK T \in Bad : \A U \in Bad : ~(<<U, T>> \in StrictSubsetOrdering(S))
  <2> HIDE DEF Bad
  <2> QED
    BY <1>1, <1>2, <1>3, WFMin
<1>5. PICK e \in T : TRUE
  BY <1>4
<1>6. T \ {e} \notin Bad
  BY <1>4, <1>5 DEF StrictSubsetOrdering
<1>7. CASE T \ {e} = {}
  BY <1>4, <1>5, <1>7
<1>8. CASE T \ {e} # {}
  <2>1. PICK m \in T \ {e} : \A x \in T \ {e} : x <= m
    BY <1>4, <1>6, <1>8 DEF HasMax
  <2>2. m \in Nat /\ e \in Nat
    BY <1>4, <1>5, <2>1
  <2>3. \A x \in T : x \in Nat /\ (x = e \/ x <= m)
    BY <1>4, <2>1
  <2>4. HasMax(T)
    <3>1. CASE m <= e
      BY <1>5, <2>2, <2>3, <3>1
    <3>2. CASE e <= m
      BY <2>1, <2>2, <2>3, <3>2
    <3> QED
      BY <2>2, <3>1, <3>2
  <2> QED
    BY <1>4, <2>4
<1> QED
  BY <1>7, <1>8

\* Induction up to a bound: a set of numbers that has 0 and, with every
\* number below n, the next one, has all numbers up to n.
LEMMA BoundedInduction ==
    ASSUME NEW n \in Nat, NEW P, 0 \in P, \A i \in 0..n : i \in P /\ i < n => i + 1 \in P
    PROVE  0..n \subseteq P
<1> DEFINE Q == {m \in 0..n : 0..m \subseteq P}
<1>1. 0 \in Q
  OBVIOUS
<1>2. IsFiniteSet(Q) /\ Q \in SUBSET Nat
  <2>1. IsFiniteSet(0..n)
    BY FS_Interval
  <2>2. Q \in SUBSET (0..n) /\ Q \in SUBSET Nat
    OBVIOUS
  <2> HIDE DEF Q
  <2>3. IsFiniteSet(Q)
    BY <2>1, <2>2, FS_Subset
  <2> QED
    BY <2>2, <2>3
<1>3. PICK m \in Q : \A x \in Q : x <= m
  <2> HIDE DEF Q
  <2> QED
    BY <1>1, <1>2, FiniteMaximum
<1>4. m < n => m + 1 \in Q
  <2> SUFFICES ASSUME m < n PROVE m + 1 \in Q
    OBVIOUS
  <2>1. m \in 0..n /\ 0..m \subseteq P
    OBVIOUS
  <2>2. m + 1 \in P
    BY <2>1
  <2> QED
    BY <2>1, <2>2
<1>5. m \in Nat /\ m <= n
  OBVIOUS
<1>6. m = n
  <2> HIDE DEF Q
  <2> QED
    BY <1>3, <1>4, <1>5
<1> QED
  BY <1>6

\* The loop of Only, step by step.
LEMMA OnlyLoop ==
    ASSUME NEW S, NEW s \in Seq(S), NEW T
    PROVE  \E f : /\ f = [i \in 0..Len(s) |->
                             IF i = 0 THEN <<>>
                             ELSE IF s[i] \in T THEN Append(f[i - 1], s[i]) ELSE f[i - 1]]
                 /\ Only(s, T) = f[Len(s)]
<1> DEFINE n == Len(s)
           Loop(f, m) == f = [i \in 0..m |->
                                IF i = 0 THEN <<>>
                                ELSE IF s[i] \in T THEN Append(f[i - 1], s[i]) ELSE f[i - 1]]
           P == {m \in 0..n : \E f : Loop(f, m)}
<1>1. n \in Nat
  OBVIOUS
<1>2. 0 \in P
  <2> DEFINE f == [i \in 0..0 |-> <<>>]
  <2>1. Loop(f, 0)
    OBVIOUS
  <2> HIDE DEF f, Loop
  <2> QED
    BY <1>1, <2>1
<1>3. ASSUME NEW m \in 0..n, m \in P, m < n
      PROVE  m + 1 \in P
  <2>1. PICK f : Loop(f, m)
    BY <1>3
  <2>0. \A i \in 0..m : f[i] = IF i = 0 THEN <<>>
                              ELSE IF s[i] \in T THEN Append(f[i - 1], s[i]) ELSE f[i - 1]
    BY <2>1, Zenon
  <2> DEFINE g == [i \in 0..(m + 1) |->
                     IF i <= m THEN f[i] ELSE IF s[i] \in T THEN Append(f[i - 1], s[i]) ELSE f[i - 1]]
  <2>2. Loop(g, m + 1)
    <3>1. ASSUME NEW i \in 0..(m + 1)
          PROVE  g[i] = IF i = 0 THEN <<>>
                        ELSE IF s[i] \in T THEN Append(g[i - 1], s[i]) ELSE g[i - 1]
      <4>1. CASE i = 0
        BY <2>0, <4>1
      <4>2. CASE i # 0
        <5>1. i - 1 \in 0..m /\ i - 1 <= m
          BY <4>2
        <5>2. g[i - 1] = f[i - 1]
          BY <5>1
        <5>3. i <= m => f[i] = IF s[i] \in T THEN Append(f[i - 1], s[i]) ELSE f[i - 1]
          BY <2>0, <4>2
        <5>4. g[i] = IF i <= m THEN f[i] ELSE IF s[i] \in T THEN Append(f[i - 1], s[i]) ELSE f[i - 1]
          OBVIOUS
        <5> HIDE DEF g
        <5> QED
          BY <4>2, <5>2, <5>3, <5>4
      <4> QED
        BY <4>1, <4>2
    <3>2. g = [i \in 0..(m + 1) |-> g[i]]
      OBVIOUS
    <3> HIDE DEF g
    <3> QED
      BY <3>1, <3>2
  <2> HIDE DEF Loop
  <2> QED
    BY <1>1, <2>2
<1>4. n \in P
  <2> HIDE DEF P
  <2>1. 0..n \subseteq P
    BY <1>1, <1>2, <1>3, BoundedInduction
  <2> QED
    BY <1>1, <2>1
<1>5. \E f : Loop(f, n)
  BY <1>4
<1> DEFINE kept == CHOOSE f : Loop(f, n)
<1>6. Loop(kept, n)
  BY <1>5
<1>7. Only(s, T) = kept[n]
  BY DEF Only
<1> QED
  BY <1>6, <1>7

\* One part more.
LEMMA PartsAppend ==
    ASSUME NEW S, NEW s \in Seq(S), NEW e \in S
    PROVE  Append(s, e) \in Seq(S) /\ Parts(Append(s, e)) = Parts(s) \cup {e}
<1> DEFINE t == Append(s, e)
           n == Len(s)
<1>1. n \in Nat /\ t \in Seq(S) /\ Len(t) = n + 1
  OBVIOUS
<1>2. \A i \in 1..n : t[i] = s[i]
  OBVIOUS
<1>3. t[n + 1] = e
  OBVIOUS
<1> HIDE DEF t
<1>4. Parts(t) = {t[i] : i \in 1..n} \cup {t[n + 1]}
  BY <1>1 DEF Parts
<1>5. {t[i] : i \in 1..n} = Parts(s)
  BY <1>2 DEF Parts
<1>6. Parts(t) = Parts(s) \cup {e}
  BY <1>3, <1>4, <1>5
<1> QED
  BY <1>1, <1>6 DEF t

\* The first part and the others.
LEMMA PartsTail ==
    ASSUME NEW S, NEW s \in Seq(S), s # <<>>
    PROVE  /\ s[1] \in S /\ Tail(s) \in Seq(S)
           /\ Parts(s) = {s[1]} \cup Parts(Tail(s))
<1> DEFINE t == Tail(s)
           n == Len(t)
<1>1. n \in Nat /\ t \in Seq(S) /\ Len(s) = n + 1 /\ s[1] \in S
  OBVIOUS
<1>2. \A i \in 1..n : t[i] = s[i + 1]
  OBVIOUS
<1> HIDE DEF t
<1>3. Parts(s) \subseteq {s[1]} \cup Parts(t)
  <2> SUFFICES ASSUME NEW i \in 1..(n + 1), i # 1 PROVE s[i] \in Parts(t)
    BY <1>1 DEF Parts
  <2>1. i - 1 \in 1..n
    BY <1>1
  <2>2. t[i - 1] = s[i]
    BY <1>1, <1>2, <2>1
  <2> QED
    BY <2>1, <2>2 DEF Parts
<1>4. Parts(t) \subseteq Parts(s)
  <2> SUFFICES ASSUME NEW i \in 1..n PROVE t[i] \in Parts(s)
    BY DEF Parts
  <2>1. i + 1 \in 1..Len(s)
    BY <1>1
  <2> QED
    BY <1>2, <2>1 DEF Parts
<1>5. s[1] \in Parts(s)
  BY <1>1 DEF Parts
<1>6. Parts(s) = {s[1]} \cup Parts(t)
  BY <1>3, <1>4, <1>5
<1> QED
  BY <1>1, <1>6 DEF t

\* Nothing is in the empty list, and what is in a list has its type.
LEMMA PartsEmpty == Parts(<<>>) = {}
BY DEF Parts

\* What is in a list has the type of its elements.
LEMMA PartsType ==
    ASSUME NEW S, NEW s \in Seq(S)
    PROVE  Parts(s) \subseteq S
BY DEF Parts

\* The filter loop keeps exactly the parts it is to keep.
LEMMA OnlyParts ==
    ASSUME NEW S, NEW s \in Seq(S), NEW T
    PROVE  /\ Only(s, T) \in Seq(S)
           /\ Parts(Only(s, T)) = Parts(s) \cap T
<1> DEFINE n == Len(s)
<1>1. n \in Nat /\ \A i \in 1..n : s[i] \in S
  OBVIOUS
<1>2. PICK f : /\ f = [i \in 0..n |->
                         IF i = 0 THEN <<>>
                         ELSE IF s[i] \in T THEN Append(f[i - 1], s[i]) ELSE f[i - 1]]
               /\ Only(s, T) = f[n]
  BY OnlyLoop
<1>3. \A i \in 0..n : f[i] = IF i = 0 THEN <<>>
                             ELSE IF s[i] \in T THEN Append(f[i - 1], s[i]) ELSE f[i - 1]
  BY <1>2, Zenon
<1> DEFINE First(m) == {s[j] : j \in 1..m}
           P == {m \in 0..n : f[m] \in Seq(S) /\ Parts(f[m]) = First(m) \cap T}
<1>4. 0 \in P
  <2>1. f[0] = <<>>
    BY <1>1, <1>3
  <2>2. First(0) = {}
    OBVIOUS
  <2>3. f[0] \in Seq(S) /\ Parts(f[0]) = {}
    BY <2>1, PartsEmpty
  <2> HIDE DEF First
  <2> QED
    BY <1>1, <2>2, <2>3
<1>5. ASSUME NEW m \in 0..n, m \in P, m < n
      PROVE  m + 1 \in P
  <2>1. m + 1 \in 1..n /\ s[m + 1] \in S
    BY <1>1, <1>5
  <2>2. f[m + 1] = IF s[m + 1] \in T THEN Append(f[m], s[m + 1]) ELSE f[m]
    BY <1>1, <1>3, <2>1
  <2>3. First(m + 1) = First(m) \cup {s[m + 1]}
    BY <1>5
  <2>4. f[m] \in Seq(S) /\ Parts(f[m]) = First(m) \cap T
    BY <1>5
  <2> HIDE DEF First
  <2>5. CASE s[m + 1] \in T
    <3>1. f[m + 1] \in Seq(S) /\ Parts(f[m + 1]) = Parts(f[m]) \cup {s[m + 1]}
      BY <2>1, <2>2, <2>4, <2>5, PartsAppend
    <3> QED
      BY <2>1, <2>3, <2>4, <2>5, <3>1
  <2>6. CASE s[m + 1] \notin T
    BY <2>1, <2>2, <2>3, <2>4, <2>6
  <2> QED
    BY <2>5, <2>6
<1>6. n \in P
  <2> HIDE DEF P
  <2>1. 0..n \subseteq P
    BY <1>1, <1>4, <1>5, BoundedInduction
  <2> QED
    BY <1>1, <2>1
<1>7. First(n) = Parts(s)
  BY DEF Parts
<1> QED
  BY <1>2, <1>6, <1>7

\* The beginning of a list; all of it, if it is short enough.
LEMMA UptoParts ==
    ASSUME NEW S, NEW s \in Seq(S), NEW n \in Nat
    PROVE  /\ Upto(s, n) \in Seq(S)
           /\ Len(Upto(s, n)) = IF Len(s) < n THEN Len(s) ELSE n
           /\ \A i \in 1..Len(Upto(s, n)) : i \in 1..Len(s) /\ Upto(s, n)[i] = s[i]
           /\ Parts(Upto(s, n)) \subseteq Parts(s)
           /\ Len(s) <= n => Upto(s, n) = s
<1> DEFINE m == IF Len(s) < n THEN Len(s) ELSE n
<1>0. Len(s) \in Nat /\ s \in [1..Len(s) -> S]
  OBVIOUS
<1>1. m \in Nat /\ m \in 0..Len(s) /\ \A i \in 1..m : s[i] \in S
  BY <1>0
<1>2. /\ SubSeq(s, 1, m) \in Seq(S)
      /\ Len(SubSeq(s, 1, m)) = IF 1 <= m THEN m - 1 + 1 ELSE 0
      /\ \A i \in 1 .. m - 1 + 1 : SubSeq(s, 1, m)[i] = s[1 + i - 1]
  <2> HIDE DEF m
  <2> QED
    BY <1>1, SubSeqProperties
<1>3. Len(SubSeq(s, 1, m)) = m /\ \A i \in 1..m : SubSeq(s, 1, m)[i] = s[i]
  BY <1>1, <1>2
<1> DEFINE u == SubSeq(s, 1, m)
<1>4. Upto(s, n) = u
  BY DEF Upto
<1>5. u \in Seq(S) /\ Len(u) = m /\ \A i \in 1..m : i \in 1..Len(s) /\ u[i] = s[i]
  BY <1>0, <1>1, <1>2, <1>3
<1> HIDE DEF u
<1>6. Len(s) <= n => m = Len(s)
  <2> DEFINE k == Len(s)
  <2>1. k \in Nat /\ m = IF k < n THEN k ELSE n
    BY <1>0
  <2> HIDE DEF k, m
  <2>2. k <= n => m = k
    BY <2>1
  <2> QED
    BY <2>2 DEF k
<1> HIDE DEF m
<1>7. Len(s) <= n => u = s
  <2> SUFFICES ASSUME Len(s) <= n PROVE u = s
    OBVIOUS
  <2>1. u \in [1..m -> S]
    BY <1>5
  <2> QED
    BY <1>0, <1>5, <1>6, <2>1
<1>8. Parts(u) \subseteq Parts(s)
  BY <1>5 DEF Parts
<1>9. Len(u) = IF Len(s) < n THEN Len(s) ELSE n
  BY <1>5 DEF m
<1> QED
  BY <1>4, <1>5, <1>7, <1>8, <1>9

\* Where the parts come from that the loop of Only keeps: from places of s in
\* their order, and from every place that has something to keep.
LEMMA OnlyPlaces ==
    ASSUME NEW S, NEW s \in Seq(S), NEW T
    PROVE  \E h \in [1..Len(Only(s, T)) -> 1..Len(s)] :
              /\ \A i, j \in 1..Len(Only(s, T)) : h[i] = h[j] => i = j
              /\ \A i, j \in 1..Len(Only(s, T)) : i < j => h[i] < h[j]
              /\ \A i \in 1..Len(Only(s, T)) : Only(s, T)[i] = s[h[i]] /\ s[h[i]] \in T
              /\ \A k \in 1..Len(s) : s[k] \in T => \E i \in 1..Len(Only(s, T)) : h[i] = k
<1> DEFINE n == Len(s)
<1>1. n \in Nat /\ \A i \in 1..n : s[i] \in S
  OBVIOUS
<1>2. PICK f : /\ f = [i \in 0..n |->
                         IF i = 0 THEN <<>>
                         ELSE IF s[i] \in T THEN Append(f[i - 1], s[i]) ELSE f[i - 1]]
               /\ Only(s, T) = f[n]
  BY OnlyLoop
<1>3. \A i \in 0..n : f[i] = IF i = 0 THEN <<>>
                             ELSE IF s[i] \in T THEN Append(f[i - 1], s[i]) ELSE f[i - 1]
  BY <1>2, Zenon
<1> DEFINE From(h, r, m) ==
              /\ h \in [1..Len(r) -> 1..m]
              /\ \A i, j \in 1..Len(r) : h[i] = h[j] => i = j
              /\ \A i, j \in 1..Len(r) : i < j => h[i] < h[j]
              /\ \A i \in 1..Len(r) : r[i] = s[h[i]] /\ s[h[i]] \in T
              /\ \A k \in 1..m : s[k] \in T => \E i \in 1..Len(r) : h[i] = k
           P == {m \in 0..n : f[m] \in Seq(S) /\ \E h : From(h, f[m], m)}
<1>4. 0 \in P
  <2>1. f[0] = <<>>
    BY <1>1, <1>3
  <2>2. f[0] \in Seq(S) /\ Len(f[0]) = 0
    BY <2>1
  <2>3. From([i \in 1..0 |-> 0], f[0], 0)
    BY <2>2
  <2> HIDE DEF From
  <2> QED
    BY <1>1, <2>2, <2>3
<1>5. ASSUME NEW m \in 0..n, m \in P, m < n
      PROVE  m + 1 \in P
  <2>1. m + 1 \in 1..n /\ m + 1 \in 0..n /\ s[m + 1] \in S /\ m \in Nat
    BY <1>1, <1>5
  <2>2. f[m + 1] = IF s[m + 1] \in T THEN Append(f[m], s[m + 1]) ELSE f[m]
    BY <1>1, <1>3, <2>1
  <2>3. PICK h : From(h, f[m], m)
    BY <1>5
  <2>4. f[m] \in Seq(S)
    BY <1>5
  <2> DEFINE r == f[m]
             L == Len(r)
  <2>5. L \in Nat
    BY <2>4
  <2>6. CASE s[m + 1] \in T
    <3> DEFINE q == f[m + 1]
               g == [i \in 1..(L + 1) |-> IF i = L + 1 THEN m + 1 ELSE h[i]]
    <3>1. q \in Seq(S) /\ Len(q) = L + 1 /\ q[L + 1] = s[m + 1] /\ \A i \in 1..L : q[i] = r[i]
      BY <2>1, <2>2, <2>4, <2>6
    <3> HIDE DEF q, r, L
    <3>2. h \in [1..L -> 1..m]
      BY <2>3 DEF r, L
    <3>3. g \in [1..(L + 1) -> 1..(m + 1)] /\ g[L + 1] = m + 1 /\ \A i \in 1..L : g[i] = h[i] /\ g[i] # m + 1
      BY <2>1, <2>5, <3>2
    <3> HIDE DEF g
    <3>4. ASSUME NEW i \in 1..(L + 1), NEW j \in 1..(L + 1), g[i] = g[j] PROVE i = j
      <4>1. i \in 1..L \/ i = L + 1
        BY <2>5
      <4>2. j \in 1..L \/ j = L + 1
        BY <2>5
      <4>3. \A x, y \in 1..L : h[x] = h[y] => x = y
        BY <2>3 DEF r, L
      <4> QED
        BY <3>3, <3>4, <4>1, <4>2, <4>3
    <3>o. ASSUME NEW i \in 1..(L + 1), NEW j \in 1..(L + 1), i < j PROVE g[i] < g[j]
      <4>1. i \in 1..L /\ g[i] = h[i] /\ h[i] \in 1..m
        BY <2>5, <3>2, <3>3, <3>o
      <4>2. CASE j = L + 1
        BY <2>1, <3>3, <4>1, <4>2
      <4>3. CASE j \in 1..L
        <5>1. \A x, y \in 1..L : x < y => h[x] < h[y]
          BY <2>3 DEF r, L
        <5> QED
          BY <3>3, <3>o, <4>1, <4>3, <5>1
      <4> QED
        BY <2>5, <4>2, <4>3
    <3>5. ASSUME NEW i \in 1..(L + 1) PROVE q[i] = s[g[i]] /\ s[g[i]] \in T
      <4>1. i \in 1..L \/ i = L + 1
        BY <2>5
      <4>2. \A x \in 1..L : r[x] = s[h[x]] /\ s[h[x]] \in T
        BY <2>3 DEF r, L
      <4> QED
        BY <2>6, <3>1, <3>3, <4>1, <4>2
    <3>6. ASSUME NEW k \in 1..(m + 1), s[k] \in T PROVE \E i \in 1..(L + 1) : g[i] = k
      <4>1. CASE k = m + 1
        BY <2>5, <3>3, <4>1
      <4>2. CASE k \in 1..m
        <5>1. \E i \in 1..L : h[i] = k
          BY <2>3, <3>6, <4>2 DEF r, L
        <5> QED
          BY <2>5, <3>3, <5>1
      <4> QED
        BY <2>1, <4>1, <4>2
    <3>7. From(g, q, m + 1)
      BY <3>1, <3>3, <3>4, <3>o, <3>5, <3>6
    <3> HIDE DEF From
    <3> QED
      BY <2>1, <3>1, <3>7 DEF q
  <2>7. CASE s[m + 1] \notin T
    <3>1. f[m + 1] = r
      BY <2>2, <2>7
    <3> HIDE DEF r
    <3>2. h \in [1..L -> 1..m]
      BY <2>3 DEF r
    <3>3. h \in [1..L -> 1..(m + 1)]
      BY <2>1, <3>2
    <3>4. \A k \in 1..(m + 1) : s[k] \in T => k \in 1..m
      BY <2>1, <2>7
    <3>5. From(h, r, m + 1)
      BY <2>3, <3>3, <3>4 DEF r
    <3> HIDE DEF From
    <3> QED
      BY <2>1, <2>4, <3>1, <3>5 DEF r
  <2> QED
    BY <2>6, <2>7
<1>6. n \in P
  <2> HIDE DEF P
  <2>1. 0..n \subseteq P
    BY <1>1, <1>4, <1>5, BoundedInduction
  <2> QED
    BY <1>1, <2>1
<1>7. \E h : From(h, Only(s, T), n)
  <2> HIDE DEF From
  <2> QED
    BY <1>2, <1>6
<1> QED
  BY <1>7, Zenon

\* A list of one type, all of whose parts are in T.
LEMMA PartsWithin ==
    ASSUME NEW S, NEW s \in Seq(S), NEW T, Parts(s) \subseteq T
    PROVE  s \in Seq(T)
<1> DEFINE n == Len(s)
<1>1. n \in Nat /\ s \in [1..n -> S]
  OBVIOUS
<1>2. \A i \in 1..n : s[i] \in T
  BY DEF Parts
<1>3. s \in [1..n -> T]
  BY <1>1, <1>2
<1> QED
  BY <1>1, <1>3

\* What comes where when a list is put after another.
LEMMA ConcatPlaces ==
    ASSUME NEW S, NEW s \in Seq(S), NEW t \in Seq(S)
    PROVE  /\ s \o t \in Seq(S)
           /\ Len(s) \in Nat /\ Len(t) \in Nat /\ Len(s \o t) = Len(s) + Len(t)
           /\ \A i \in 1..Len(s \o t) : (s \o t)[i] = IF i <= Len(s) THEN s[i] ELSE t[i - Len(s)]
OBVIOUS

\* One list after another.
LEMMA PartsConcat ==
    ASSUME NEW S, NEW s \in Seq(S), NEW t \in Seq(S)
    PROVE  s \o t \in Seq(S) /\ Parts(s \o t) = Parts(s) \cup Parts(t)
<1> DEFINE u == s \o t
           m == Len(s)
           n == Len(t)
<1>1. m \in Nat /\ n \in Nat /\ u \in Seq(S) /\ Len(u) = m + n
  OBVIOUS
<1>2. \A i \in 1..(m + n) : u[i] = IF i <= m THEN s[i] ELSE t[i - m]
  OBVIOUS
<1> HIDE DEF u
<1>3. Parts(u) \subseteq Parts(s) \cup Parts(t)
  <2> SUFFICES ASSUME NEW i \in 1..(m + n) PROVE u[i] \in Parts(s) \cup Parts(t)
    BY <1>1 DEF Parts
  <2>1. CASE i <= m
    BY <1>1, <1>2, <2>1 DEF Parts
  <2>2. CASE ~(i <= m)
    <3>1. i - m \in 1..n /\ u[i] = t[i - m]
      BY <1>1, <1>2, <2>2
    <3> QED
      BY <3>1 DEF Parts
  <2> QED
    BY <2>1, <2>2
<1>4. Parts(s) \subseteq Parts(u)
  <2> SUFFICES ASSUME NEW i \in 1..m PROVE s[i] \in Parts(u)
    BY DEF Parts
  <2>1. i \in 1..Len(u) /\ u[i] = s[i]
    BY <1>1, <1>2
  <2> QED
    BY <2>1 DEF Parts
<1>5. Parts(t) \subseteq Parts(u)
  <2> SUFFICES ASSUME NEW i \in 1..n PROVE t[i] \in Parts(u)
    BY DEF Parts
  <2>1. i + m \in 1..(m + n) /\ ~(i + m <= m) /\ (i + m) - m = i
    BY <1>1
  <2>2. u[i + m] = t[i]
    BY <1>2, <2>1
  <2> QED
    BY <1>1, <2>1, <2>2 DEF Parts
<1> QED
  BY <1>1, <1>3, <1>4, <1>5 DEF u

\* The loop of Joined, step by step.
LEMMA JoinedLoop ==
    ASSUME NEW S, NEW ss \in Seq(Seq(S))
    PROVE  \E f : /\ f = [i \in 0..Len(ss) |-> IF i = 0 THEN <<>> ELSE f[i - 1] \o ss[i]]
                 /\ Joined(ss) = f[Len(ss)]
<1> DEFINE n == Len(ss)
           Cat(a, i) == a \o ss[i]
           Loop(f, m) == f = [i \in 0..m |-> IF i = 0 THEN <<>> ELSE Cat(f[i - 1], i)]
           P == {m \in 0..n : \E f : Loop(f, m)}
<1>1. n \in Nat
  OBVIOUS
<1> HIDE DEF Cat
<1>2. 0 \in P
  <2> DEFINE f == [i \in 0..0 |-> <<>>]
  <2>1. Loop(f, 0)
    OBVIOUS
  <2> HIDE DEF f, Loop
  <2> QED
    BY <1>1, <2>1
<1>3. ASSUME NEW m \in 0..n, m \in P, m < n
      PROVE  m + 1 \in P
  <2>1. PICK f : Loop(f, m)
    BY <1>3
  <2>0. \A i \in 0..m : f[i] = IF i = 0 THEN <<>> ELSE Cat(f[i - 1], i)
    BY <2>1, Zenon
  <2> DEFINE g == [i \in 0..(m + 1) |-> IF i <= m THEN f[i] ELSE Cat(f[i - 1], i)]
  <2>2. Loop(g, m + 1)
    <3>1. ASSUME NEW i \in 0..(m + 1)
          PROVE  g[i] = IF i = 0 THEN <<>> ELSE Cat(g[i - 1], i)
      <4>1. CASE i = 0
        BY <2>0, <4>1
      <4>2. CASE i # 0
        <5>1. i - 1 \in 0..m /\ i - 1 <= m
          BY <4>2
        <5>2. g[i - 1] = f[i - 1]
          BY <5>1
        <5>3. i <= m => f[i] = Cat(f[i - 1], i)
          BY <2>0, <4>2
        <5>4. g[i] = IF i <= m THEN f[i] ELSE Cat(f[i - 1], i)
          OBVIOUS
        <5> HIDE DEF g
        <5> QED
          BY <4>2, <5>2, <5>3, <5>4
      <4> QED
        BY <4>1, <4>2
    <3>2. g = [i \in 0..(m + 1) |-> g[i]]
      OBVIOUS
    <3> HIDE DEF g
    <3> QED
      BY <3>1, <3>2
  <2>3. \E h : Loop(h, m + 1)
    BY <2>2
  <2>4. m + 1 \in 0..n
    BY <1>1, <1>3
  <2> HIDE DEF Loop
  <2> QED
    BY <2>3, <2>4
<1>4. n \in P
  <2> HIDE DEF P
  <2>1. 0..n \subseteq P
    BY <1>1, <1>2, <1>3, BoundedInduction
  <2> QED
    BY <1>1, <2>1
<1>5. \E f : Loop(f, n)
  BY <1>4
<1> DEFINE joined == CHOOSE f : Loop(f, n)
<1>6. Loop(joined, n)
  BY <1>5
<1>7. Joined(ss) = joined[n]
  BY DEF Joined, Cat
<1> QED
  BY <1>6, <1>7 DEF Cat

\* The parts of joined lists are those of the lists, and what is earlier in
\* one of these lists is earlier in the joined one.
LEMMA JoinedParts ==
    ASSUME NEW S, NEW ss \in Seq(Seq(S))
    PROVE  /\ Joined(ss) \in Seq(S)
           /\ \A b \in 1..Len(ss) : Parts(ss[b]) \subseteq Parts(Joined(ss))
           /\ \A k \in 1..Len(Joined(ss)) : \E b \in 1..Len(ss) : \E o \in 1..Len(ss[b]) :
                 /\ Joined(ss)[k] = ss[b][o]
                 /\ \A p \in 1..(o - 1) : \E j \in 1..(k - 1) : Joined(ss)[j] = ss[b][p]
<1> DEFINE n == Len(ss)
           Placed(u, m, k, b, o) ==
               /\ b \in 1..m /\ o \in 1..Len(ss[b])
               /\ u[k] = ss[b][o]
               /\ \A p \in 1..(o - 1) : \E j \in 1..(k - 1) : u[j] = ss[b][p]
           Good(u, m) ==
               /\ u \in Seq(S)
               /\ \A b \in 1..m : Parts(ss[b]) \subseteq Parts(u)
               /\ \A k \in 1..Len(u) : \E b, o \in Nat : Placed(u, m, k, b, o)
<1>1. n \in Nat /\ \A i \in 1..n : ss[i] \in Seq(S)
  OBVIOUS
<1>2. PICK f : /\ f = [i \in 0..n |-> IF i = 0 THEN <<>> ELSE f[i - 1] \o ss[i]]
               /\ Joined(ss) = f[n]
  BY JoinedLoop
<1>3. \A i \in 0..n : f[i] = IF i = 0 THEN <<>> ELSE f[i - 1] \o ss[i]
  BY <1>2, Zenon
<1> DEFINE Cat(a, i) == a \o ss[i]
           P == {m \in 0..n : Good(f[m], m)}
<1>0. \A i \in 0..n : f[i] = IF i = 0 THEN <<>> ELSE Cat(f[i - 1], i)
  BY <1>3
<1> HIDE DEF Cat
<1>4. 0 \in P
  <2>1. f[0] = <<>>
    BY <1>0, <1>1
  <2>2. f[0] \in Seq(S) /\ Len(f[0]) = 0
    BY <2>1
  <2> HIDE DEF Placed
  <2>3. Good(f[0], 0)
    BY <2>2
  <2> HIDE DEF Good
  <2> QED
    BY <1>1, <2>3
<1>5. ASSUME NEW m \in 0..n, m \in P, m < n
      PROVE  m + 1 \in P
  <2> DEFINE u == f[m]
             t == ss[m + 1]
             v == f[m + 1]
  <2>1. m \in Nat /\ m + 1 \in 1..n /\ m + 1 \in 0..n /\ t \in Seq(S)
    BY <1>1, <1>5
  <2>2. v = u \o t
    <3>1. (m + 1) - 1 = m /\ m + 1 # 0
      BY <2>1
    <3>2. v = Cat(u, m + 1)
      BY <1>0, <2>1, <3>1
    <3> QED
      BY <3>2 DEF Cat
  <2>3. u \in Seq(S) /\ \A b \in 1..m : Parts(ss[b]) \subseteq Parts(u)
    BY <1>5
  <2>4. \A k \in 1..Len(u) : \E b, o \in Nat : Placed(u, m, k, b, o)
    BY <1>5
  <2>5. v \in Seq(S) /\ Parts(v) = Parts(u) \cup Parts(t)
    BY <2>1, <2>2, <2>3, PartsConcat
  <2>6. /\ Len(u) \in Nat /\ Len(t) \in Nat /\ Len(v) = Len(u) + Len(t)
        /\ \A i \in 1..Len(v) : v[i] = IF i <= Len(u) THEN u[i] ELSE t[i - Len(u)]
    <3> HIDE DEF u, v, t
    <3> QED
      BY <2>1, <2>2, <2>3, ConcatPlaces
  <2> HIDE DEF u, v
  <2>7. \A b \in 1..(m + 1) : Parts(ss[b]) \subseteq Parts(v)
    BY <2>1, <2>3, <2>5
  <2>8. ASSUME NEW k \in 1..Len(v)
        PROVE  \E b, o \in Nat : Placed(v, m + 1, k, b, o)
    <3>1. CASE k <= Len(u)
      <4>1. k \in 1..Len(u)
        BY <2>6, <3>1
      <4>2. PICK b, o \in Nat : Placed(u, m, k, b, o)
        BY <2>4, <4>1
      <4>3. b \in 1..(m + 1) /\ o \in 1..Len(ss[b]) /\ v[k] = ss[b][o]
        BY <2>1, <2>6, <4>1, <4>2
      <4>4. \A j \in 1..(k - 1) : v[j] = u[j]
        <5>1. \A j \in 1..(k - 1) : j \in 1..Len(v) /\ j <= Len(u)
          BY <2>6, <4>1
        <5> QED
          BY <2>6, <5>1
      <4>5. \A p \in 1..(o - 1) : \E j \in 1..(k - 1) : v[j] = ss[b][p]
        BY <4>2, <4>4
      <4> QED
        BY <4>3, <4>5
    <3>2. CASE ~(k <= Len(u))
      <4> DEFINE o == k - Len(u)
      <4>1. o \in 1..Len(t) /\ v[k] = t[o] /\ o \in Nat
        BY <2>6, <3>2
      <4>2. ASSUME NEW p \in 1..(o - 1)
            PROVE  \E j \in 1..(k - 1) : v[j] = t[p]
        <5>1. p + Len(u) \in 1..(k - 1) /\ p + Len(u) \in 1..Len(v) /\ ~(p + Len(u) <= Len(u))
          BY <2>6, <4>1
        <5>2. (p + Len(u)) - Len(u) = p
          BY <2>6
        <5>3. v[p + Len(u)] = t[p]
          BY <2>6, <5>1, <5>2
        <5> QED
          BY <5>1, <5>3
      <4>3. m + 1 \in Nat /\ m + 1 \in 1..(m + 1)
        BY <2>1
      <4>4. Placed(v, m + 1, k, m + 1, o)
        BY <4>1, <4>2, <4>3
      <4> HIDE DEF Placed, o
      <4> QED
        BY <4>1, <4>3, <4>4
    <3> QED
      BY <3>1, <3>2
  <2> HIDE DEF Placed
  <2>9. Good(v, m + 1)
    BY <2>5, <2>7, <2>8
  <2> HIDE DEF Good
  <2> QED
    BY <2>1, <2>9 DEF v
<1>6. n \in P
  <2> HIDE DEF P
  <2>1. 0..n \subseteq P
    BY <1>1, <1>4, <1>5, BoundedInduction
  <2> QED
    BY <1>1, <2>1
<1>7. Good(Joined(ss), n)
  BY <1>2, <1>6
<1> QED
  BY <1>7
=============================================================================
