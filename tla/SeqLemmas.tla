----------------------------- MODULE SeqLemmas -----------------------------
(***************************************************************************)
(* Facts about sequences that the proofs of several components rest on.    *)
(***************************************************************************)
EXTENDS Integers, Sequences, FiniteSetTheorems, WellFoundedInduction, TLAPS

\* The empty sequence is a sequence of anything.
LEMMA Nothing == \A S : <<>> \in Seq(S)
OBVIOUS

\* The first element of a non-empty sequence, and the others.
LEMMA Dequeued ==
    ASSUME NEW S, NEW s \in Seq(S), s # <<>>
    PROVE  Head(s) \in S /\ Tail(s) \in Seq(S)
<1>1. Len(s) \in Nat /\ Len(s) # 0 /\ s \in [1..Len(s) -> S]
  OBVIOUS
<1>2. Head(s) = s[1] /\ 1 \in 1..Len(s)
  BY <1>1
<1> QED
  BY <1>1, <1>2

\* One more element keeps the type of the elements.
LEMMA Enqueued ==
    ASSUME NEW S, NEW s \in Seq(S), NEW e \in S
    PROVE  Append(s, e) \in Seq(S) /\ <<e>> \in Seq(S)
OBVIOUS

\* So does another sequence of them.
LEMMA Joined ==
    ASSUME NEW S, NEW s \in Seq(S), NEW t \in Seq(S)
    PROVE  s \o t \in Seq(S)
OBVIOUS

\* Taking the i-th element out of a sequence.
LEMMA Removed ==
    ASSUME NEW S, NEW s \in Seq(S), NEW i \in DOMAIN s
    PROVE  /\ s[i] \in S
           /\ [j \in 1..(Len(s) - 1) |-> IF j < i THEN s[j] ELSE s[j + 1]] \in Seq(S)
<1> DEFINE n == Len(s) - 1
           rest == [j \in 1..n |-> IF j < i THEN s[j] ELSE s[j + 1]]
<1>1. Len(s) \in Nat /\ s \in [1..Len(s) -> S] /\ i \in 1..Len(s)
  OBVIOUS
<1>2. n \in Nat
  BY <1>1
<1>3. ASSUME NEW j \in 1..n PROVE (IF j < i THEN s[j] ELSE s[j + 1]) \in S
  <2>1. j \in 1..Len(s) /\ j + 1 \in 1..Len(s)
    BY <1>1, <1>2, <1>3
  <2> QED
    BY <1>1, <2>1
<1>4. rest \in [1..n -> S]
  BY <1>3
<1> HIDE DEF n, rest
<1>5. rest \in Seq(S)
  BY <1>2, <1>4
<1> QED
  BY <1>1, <1>5 DEF rest, n

\* Appending adds one element at the end.
LEMMA Appended ==
    ASSUME NEW S, NEW s \in Seq(S), NEW e
    PROVE  Append(s, e) = [i \in 1..(Len(s) + 1) |-> IF i <= Len(s) THEN s[i] ELSE e]
<1> DEFINE T == S \cup {e}
<1>1. s \in Seq(T) /\ e \in T
  OBVIOUS
<1> HIDE DEF T
<1>2. /\ Append(s, e) \in Seq(T) /\ Len(Append(s, e)) = Len(s) + 1 /\ Len(s) \in Nat
      /\ \A i \in 1..Len(s) : Append(s, e)[i] = s[i]
      /\ Append(s, e)[Len(s) + 1] = e
  BY <1>1
<1>3. Append(s, e) = [i \in 1..(Len(s) + 1) |-> Append(s, e)[i]]
  <2> DEFINE t == Append(s, e)
  <2>1. t \in Seq(T) /\ Len(t) = Len(s) + 1
    BY <1>2
  <2> HIDE DEF t
  <2>2. t = [i \in 1..Len(t) |-> t[i]]
    BY <2>1
  <2> QED
    BY <2>1, <2>2 DEF t
<1>4. \A i \in 1..(Len(s) + 1) : Append(s, e)[i] = IF i <= Len(s) THEN s[i] ELSE e
  BY <1>2
<1> QED
  BY <1>3, <1>4

\* Replacing the i-th element.
LEMMA Updated ==
    ASSUME NEW S, NEW s \in Seq(S), NEW i \in 1 .. Len(s), NEW e \in S,
           NEW t, t = [s EXCEPT ![i] = e]
    PROVE  /\ t \in Seq(S) /\ DOMAIN t = 1 .. Len(s) /\ Len(t) = Len(s)
           /\ t[i] = e /\ \A j \in 1 .. Len(s) : j # i => t[j] = s[j]
<1>1. Len(s) \in Nat /\ s \in [1 .. Len(s) -> S]
  OBVIOUS
<1>2. t \in [1 .. Len(s) -> S]
  BY <1>1
<1>3. t \in Seq(S) /\ Len(t) = Len(s)
  BY <1>1, <1>2
<1> QED
  BY <1>1, <1>2, <1>3

\* The same, element by element.
LEMMA Grown ==
    ASSUME NEW S, NEW s \in Seq(S), NEW e
    PROVE  /\ Len(s) \in Nat /\ DOMAIN s = 1..Len(s)
           /\ DOMAIN Append(s, e) = 1..(Len(s) + 1)
           /\ \A k \in 1..Len(s) : Append(s, e)[k] = s[k]
           /\ Append(s, e)[Len(s) + 1] = e
<1>1. Append(s, e) = [i \in 1..(Len(s) + 1) |-> IF i <= Len(s) THEN s[i] ELSE e]
  BY Appended
<1>2. Len(s) \in Nat /\ DOMAIN s = 1..Len(s)
  OBVIOUS
<1>3. ASSUME NEW t, t = [i \in 1..(Len(s) + 1) |-> IF i <= Len(s) THEN s[i] ELSE e]
      PROVE  /\ DOMAIN t = 1..(Len(s) + 1)
             /\ \A k \in 1..Len(s) : t[k] = s[k]
             /\ t[Len(s) + 1] = e
  BY <1>2, <1>3
<1> QED
  BY <1>1, <1>2, <1>3

\* What is left when the first element is taken, element by element.
LEMMA Shifted ==
    ASSUME NEW S, NEW s \in Seq(S), s # <<>>
    PROVE  /\ Len(s) \in Nat \ {0} /\ DOMAIN s = 1..Len(s)
           /\ Head(s) = s[1] /\ 1 \in DOMAIN s
           /\ Len(Tail(s)) = Len(s) - 1 /\ DOMAIN Tail(s) = 1..(Len(s) - 1)
           /\ \A k \in 1..(Len(s) - 1) : Tail(s)[k] = s[k + 1]
<1>1. Len(s) \in Nat /\ Len(s) # 0 /\ s \in [1..Len(s) -> S]
  OBVIOUS
<1>2. Tail(s) \in Seq(S) /\ Len(Tail(s)) = Len(s) - 1
  BY <1>1
<1>3. DOMAIN Tail(s) = 1..Len(Tail(s))
  BY <1>2
<1>4. \A k \in 1..(Len(s) - 1) : Tail(s)[k] = s[k + 1]
  BY <1>1
<1> QED
  BY <1>1, <1>2, <1>3, <1>4

\* What is left when the i-th element is taken, element by element.
LEMMA Taken ==
    ASSUME NEW S, NEW s \in Seq(S), NEW i \in DOMAIN s,
           NEW rest, rest = [j \in 1..(Len(s) - 1) |-> IF j < i THEN s[j] ELSE s[j + 1]]
    PROVE  /\ Len(s) \in Nat \ {0} /\ DOMAIN s = 1..Len(s) /\ i \in 1..Len(s)
           /\ Len(rest) = Len(s) - 1 /\ DOMAIN rest = 1..(Len(s) - 1)
           /\ \A j \in 1..(Len(s) - 1) : rest[j] = IF j < i THEN s[j] ELSE s[j + 1]
<1>1. Len(s) \in Nat /\ s \in [1..Len(s) -> S] /\ i \in 1..Len(s)
  OBVIOUS
<1>2. Len(s) - 1 \in Nat /\ DOMAIN rest = 1..(Len(s) - 1)
  BY <1>1
<1>3. rest \in Seq(S)
  BY Removed
<1>4. Len(rest) = Len(s) - 1
  BY <1>2, <1>3
<1> QED
  BY <1>1, <1>2, <1>4

\* Every element after an append is the new one or one of the old ones.
LEMMA AppendElements ==
    ASSUME NEW S, NEW s \in Seq(S), NEW e
    PROVE  \A k \in DOMAIN Append(s, e) :
               Append(s, e)[k] = e \/ \E j \in DOMAIN s : Append(s, e)[k] = s[j]
<1> DEFINE t == Append(s, e)
<1>1. /\ Len(s) \in Nat /\ DOMAIN s = 1..Len(s) /\ DOMAIN t = 1..(Len(s) + 1)
      /\ \A k \in 1..Len(s) : t[k] = s[k]
      /\ t[Len(s) + 1] = e
  BY Grown
<1> HIDE DEF t
<1> SUFFICES ASSUME NEW k \in DOMAIN t PROVE t[k] = e \/ \E j \in DOMAIN s : t[k] = s[j]
  BY DEF t
<1>2. k \in 1..Len(s) \/ k = Len(s) + 1
  BY <1>1
<1> QED
  BY <1>1, <1>2

\* Taking the first element, or any other, leaves elements of the sequence.
LEMMA TailElements ==
    ASSUME NEW S, NEW s \in Seq(S), s # <<>>
    PROVE  \A k \in DOMAIN Tail(s) : \E j \in DOMAIN s : Tail(s)[k] = s[j]
<1>1. /\ Len(s) \in Nat \ {0} /\ DOMAIN s = 1..Len(s) /\ DOMAIN Tail(s) = 1..(Len(s) - 1)
      /\ \A k \in 1..(Len(s) - 1) : Tail(s)[k] = s[k + 1]
  BY Shifted
<1>2. \A k \in 1..(Len(s) - 1) : k + 1 \in 1..Len(s)
  BY <1>1
<1> QED
  BY <1>1, <1>2

LEMMA TakenElements ==
    ASSUME NEW S, NEW s \in Seq(S), NEW i \in DOMAIN s,
           NEW t, t = [j \in 1..(Len(s) - 1) |-> IF j < i THEN s[j] ELSE s[j + 1]]
    PROVE  \A k \in DOMAIN t : \E j \in DOMAIN s : t[k] = s[j]
<1>1. /\ Len(s) \in Nat \ {0} /\ DOMAIN s = 1..Len(s) /\ DOMAIN t = 1..(Len(s) - 1)
      /\ \A j \in 1..(Len(s) - 1) : t[j] = IF j < i THEN s[j] ELSE s[j + 1]
  BY Taken
<1>2. \A k \in 1..(Len(s) - 1) : k \in 1..Len(s) /\ k + 1 \in 1..Len(s)
  BY <1>1
<1> QED
  BY <1>1, <1>2

-----------------------------------------------------------------------------
(* Induction and recursion, stated with sets and functions instead of operators *)

\* Induction over the naturals: a set with 0 and with the successor of each of its
\* numbers holds them all.
LEMMA NatSet ==
    ASSUME NEW S, 0 \in S, \A n \in Nat : n \in S => n + 1 \in S
    PROVE  Nat \subseteq S
<1> SUFFICES ASSUME ~(Nat \subseteq S) PROVE FALSE
  OBVIOUS
<1> DEFINE T == Nat \ S
           R == {ss \in Nat \X Nat : ss[1] < ss[2]}
<1>1. T \subseteq Nat /\ T # {}
  OBVIOUS
<1>2. IsWellFoundedOn(R, Nat)
  BY NatLessThanWellFounded DEF OpToRel
<1>3. \A x, y \in Nat : y < x => <<y, x>> \in R
  OBVIOUS
<1> HIDE DEF R
<1> HIDE DEF T
<1>4. \E x \in T : \A y \in T : ~(<<y, x>> \in R)
  BY <1>1, <1>2, WFMin
<1> USE DEF T
<1>5. PICK x \in T : \A y \in T : ~(<<y, x>> \in R)
  BY <1>4
<1>6. x # 0 /\ x \in Nat
  OBVIOUS
<1>7. x - 1 \in Nat /\ x - 1 < x
  BY <1>6
<1>8. x - 1 \notin T
  BY <1>3, <1>5, <1>6, <1>7
<1>9. x - 1 \in S
  BY <1>7, <1>8
<1> QED
  BY <1>6, <1>7, <1>9

\* The functions of 0 .. N with the first value and the step given.
FunctionUpTo(N, T, a, step) ==
    \E f \in [0 .. N -> T] : f[0] = a /\ \A i \in 1 .. N : f[i] = step[<<i, f[i - 1]>>]

\* Recursion up to N: there is such a function, so the one a recursive definition
\* chooses is one.
LEMMA Recursion ==
    ASSUME NEW T, NEW a \in T, NEW step \in [Nat \X T -> T], NEW N \in Nat
    PROVE  FunctionUpTo(N, T, a, step)
<1> DEFINE Up(n, f) == f[0] = a /\ \A i \in 1 .. n : f[i] = step[<<i, f[i - 1]>>]
           S == {n \in Nat : \E f \in [0 .. n -> T] : Up(n, f)}
<1>1. 0 \in S
  <2>1. [i \in 0 .. 0 |-> a] \in [0 .. 0 -> T] /\ Up(0, [i \in 0 .. 0 |-> a])
    OBVIOUS
  <2> QED BY <2>1
<1>2. ASSUME NEW n \in Nat, n \in S PROVE n + 1 \in S
  <2>1. PICK f \in [0 .. n -> T] : Up(n, f)
    BY <1>2
  <2> DEFINE g == [i \in 0 .. n + 1 |-> IF i \in 0 .. n THEN f[i] ELSE step[<<i, f[n]>>]]
  <2>2. g \in [0 .. n + 1 -> T]
    <3>1. f[n] \in T
      OBVIOUS
    <3>2. <<n + 1, f[n]>> \in Nat \X T
      BY <3>1
    <3>3. step[<<n + 1, f[n]>>] \in T
      BY <3>2
    <3>4. \A i \in 0 .. n + 1 : i \in 0 .. n \/ i = n + 1
      OBVIOUS
    <3>5. \A i \in 0 .. n + 1 : (IF i \in 0 .. n THEN f[i] ELSE step[<<i, f[n]>>]) \in T
      BY <3>3, <3>4
    <3> QED BY <3>5
  <2>3. Up(n + 1, g)
    <3>1. g[0] = a
      BY <2>1
    <3>2. ASSUME NEW i \in 1 .. n + 1 PROVE g[i] = step[<<i, g[i - 1]>>]
      <4>1. CASE i \in 1 .. n
        <5>1. f[i] = step[<<i, f[i - 1]>>]
          BY <4>1, <2>1
        <5>2. i \in 0 .. n /\ i - 1 \in 0 .. n /\ i - 1 \in 0 .. n + 1
          BY <4>1
        <5>3. g[i] = f[i] /\ g[i - 1] = f[i - 1]
          BY <5>2
        <5> HIDE DEF g
        <5> QED BY <5>1, <5>3
      <4>2. CASE i = n + 1
        BY <4>2
      <4> QED BY <4>1, <4>2
    <3> HIDE DEF g
    <3> QED BY <3>1, <3>2
  <2> HIDE DEF g
  <2>4. \E h \in [0 .. n + 1 -> T] : Up(n + 1, h)
    <3> HIDE DEF Up
    <3> QED BY <2>2, <2>3
  <2>5. n + 1 \in Nat
    OBVIOUS
  <2> HIDE DEF Up
  <2> QED BY <2>4, <2>5
<1>3. Nat \subseteq S
  <2> HIDE DEF S
  <2> QED BY <1>1, <1>2, NatSet
<1> QED BY <1>3 DEF FunctionUpTo

\* A set of numbers up to N that is not empty has a greatest element.
LEMMA MaxOfSome ==
    ASSUME NEW N \in Nat, NEW A \in SUBSET (1 .. N), A # {}
    PROVE  \E i \in A : \A j \in A : j <= i
<1> DEFINE S == {n \in Nat : \A B \in SUBSET (1 .. n) : B # {} => \E i \in B : \A j \in B : j <= i}
<1>1. 0 \in S
  <2>1. 1 .. 0 = {}
    OBVIOUS
  <2>2. \A B \in SUBSET (1 .. 0) : B = {}
    BY <2>1
  <2> QED
    BY <2>2
<1>2. ASSUME NEW n \in Nat, n \in S PROVE n + 1 \in S
  <2> SUFFICES ASSUME NEW B \in SUBSET (1 .. n + 1), B # {} PROVE \E i \in B : \A j \in B : j <= i
    BY <1>2
  <2>1. CASE n + 1 \in B
    BY <2>1
  <2>2. CASE n + 1 \notin B
    <3>1. B \in SUBSET (1 .. n)
      BY <1>2, <2>2
    <3> QED
      BY <1>2, <3>1
  <2> QED
    BY <2>1, <2>2
<1> HIDE DEF S
<1>3. N \in S
  BY <1>1, <1>2, NatSet
<1> QED
  BY <1>3 DEF S

\* A set of numbers up to N that is not empty has a least element.
LEMMA MinOfSome ==
    ASSUME NEW N \in Nat, NEW A \in SUBSET (1 .. N), A # {}
    PROVE  \E i \in A : \A j \in A : i <= j
<1> DEFINE S == {n \in Nat : \A B \in SUBSET (1 .. n) : B # {} => \E i \in B : \A j \in B : i <= j}
<1>1. 0 \in S
  <2>1. 1 .. 0 = {}
    OBVIOUS
  <2>2. \A B \in SUBSET (1 .. 0) : B = {}
    BY <2>1
  <2> QED
    BY <2>2
<1>2. ASSUME NEW n \in Nat, n \in S PROVE n + 1 \in S
  <2> SUFFICES ASSUME NEW B \in SUBSET (1 .. n + 1), B # {} PROVE \E i \in B : \A j \in B : i <= j
    BY <1>2
  <2>1. CASE B \cap (1 .. n) = {}
    <3>1. \A j \in B : j \in Nat /\ j = n + 1
      BY <1>2, <2>1
    <3>2. \A i, j \in B : i <= j
      BY <3>1
    <3> QED
      BY <3>2
  <2>2. CASE B \cap (1 .. n) # {}
    <3>1. PICK i \in B \cap (1 .. n) : \A j \in B \cap (1 .. n) : i <= j
      BY <1>2, <2>2
    <3>2. \A j \in B : j \in 1 .. n \/ j = n + 1
      BY <1>2
    <3>3. i \in B /\ i <= n + 1
      BY <1>2, <3>1
    <3>4. ASSUME NEW j \in B PROVE i <= j
      BY <3>1, <3>2, <3>3
    <3> QED
      BY <3>3, <3>4
  <2> QED
    BY <2>1, <2>2
<1> HIDE DEF S
<1>3. N \in S
  BY <1>1, <1>2, NatSet
<1> QED
  BY <1>3 DEF S

\* The first n elements.
LEMMA FirstElements ==
    ASSUME NEW S, NEW s \in Seq(S), NEW n \in 0 .. Len(s)
    PROVE  /\ SubSeq(s, 1, n) \in Seq(S) /\ Len(SubSeq(s, 1, n)) = n /\ DOMAIN SubSeq(s, 1, n) = 1 .. n
           /\ \A i \in 1 .. n : SubSeq(s, 1, n)[i] = s[i]
<1> DEFINE t == SubSeq(s, 1, n)
<1>1. Len(s) \in Nat /\ n \in Nat
  OBVIOUS
<1>2. t \in Seq(S) /\ Len(t) = n
  BY <1>1
<1>3. \A i \in 1 .. n : t[i] = s[i]
  BY <1>1
<1> HIDE DEF t
<1>4. DOMAIN t = 1 .. n
  BY <1>2
<1> QED
  BY <1>2, <1>3, <1>4 DEF t

\* A sequence is one of its own elements.
LEMMA OwnElements ==
    ASSUME NEW S, NEW s \in Seq(S)
    PROVE  s \in Seq({s[k] : k \in DOMAIN s})
<1> DEFINE T == {s[k] : k \in DOMAIN s}
<1>1. Len(s) \in Nat /\ DOMAIN s = 1 .. Len(s) /\ s = [i \in 1 .. Len(s) |-> s[i]]
  OBVIOUS
<1>2. \A i \in 1 .. Len(s) : s[i] \in T
  BY <1>1
<1> HIDE DEF T
<1>3. [i \in 1 .. Len(s) |-> s[i]] \in Seq(T)
  BY <1>1, <1>2
<1>4. s \in Seq(T)
  BY <1>1, <1>3
<1> QED
  BY <1>4 DEF T

\* The least of some numbers.
LEMMA LeastOfSome ==
    ASSUME NEW N \in Nat, NEW A \in SUBSET (1 .. N), A # {}
    PROVE  /\ (CHOOSE i \in A : \A j \in A : i <= j) \in 1 .. N
           /\ (CHOOSE i \in A : \A j \in A : i <= j) \in 0 .. N
           /\ (CHOOSE i \in A : \A j \in A : i <= j) - 1 \in 0 .. N
<1> DEFINE first == CHOOSE i \in A : \A j \in A : i <= j
<1>1. \E i \in A : \A j \in A : i <= j
  BY MinOfSome
<1>2. first \in A
  BY <1>1
<1> HIDE DEF first
<1>3. first \in 1 .. N /\ first \in 0 .. N /\ first - 1 \in 0 .. N
  BY <1>2
<1> QED
  BY <1>3 DEF first

\* R puts the elements of a finite set in order, those below one are up to it, and its rank
\* is the number of them.
Ranking(D, R, below, rank) ==
    /\ IsFiniteSet(D)
    /\ \A i \in D : <<i, i>> \in R
    /\ \A i, j \in D : <<i, j>> \in R \/ <<j, i>> \in R
    /\ \A i, j \in D : <<i, j>> \in R /\ <<j, i>> \in R => i = j
    /\ \A i, j, k \in D : <<i, j>> \in R /\ <<j, k>> \in R => <<i, k>> \in R
    /\ \A i \in D : \A j : j \in below[i] <=> j \in D /\ <<j, i>> \in R
    /\ \A i \in D : rank[i] = Cardinality(below[i])

\* Then there is one of each rank, and the ranks are in that order.
LEMMA OneOfEachRank ==
    ASSUME NEW D, NEW N, N = Cardinality(D), NEW R, NEW below, NEW rank, Ranking(D, R, below, rank)
    PROVE  /\ \A i \in D : rank[i] \in 1 .. N
           /\ \A i, j \in D : rank[i] = rank[j] => i = j
           /\ \A n \in 1 .. N : \E i \in D : rank[i] = n
           /\ \A i, j \in D : rank[i] <= rank[j] <=> <<i, j>> \in R
<1> USE DEF Ranking
<1>1. /\ IsFiniteSet(D) /\ Cardinality(D) = N /\ N \in Nat
      /\ IsFiniteSet(1 .. N) /\ Cardinality(1 .. N) = N
  <2>1. N \in Nat
    BY FS_CardinalityType
  <2> QED
    BY <2>1, FS_Interval
<1>2. ASSUME NEW i \in D
      PROVE  IsFiniteSet(below[i]) /\ Cardinality(below[i]) \in 1 .. N /\ rank[i] = Cardinality(below[i])
  <2>1. below[i] \in SUBSET D /\ i \in below[i] /\ rank[i] = Cardinality(below[i])
    OBVIOUS
  <2>2. IsFiniteSet(below[i]) /\ Cardinality(below[i]) <= N
    BY <1>1, <2>1, FS_Subset
  <2>3. Cardinality(below[i]) \in Nat /\ Cardinality(below[i]) # 0
    BY <2>1, <2>2, FS_CardinalityType, FS_EmptySet
  <2> QED
    BY <2>1, <2>2, <2>3
<1>3. ASSUME NEW i \in D, NEW j \in D, <<i, j>> \in R, i # j
      PROVE  rank[i] < rank[j]
  <2>1. below[i] \in SUBSET below[j] /\ j \in below[j] /\ j \notin below[i]
    BY <1>3
  <2>2. Cardinality(below[i]) <= Cardinality(below[j]) /\ Cardinality(below[i]) # Cardinality(below[j])
    BY <1>2, <2>1, FS_Subset
  <2> QED
    BY <1>2, <2>2
<1>4. \A i \in D : rank[i] \in 1 .. N
  BY <1>2
<1>5. \A i, j \in D : rank[i] = rank[j] => i = j
  <2> SUFFICES ASSUME NEW i \in D, NEW j \in D, rank[i] = rank[j], i # j PROVE FALSE
    OBVIOUS
  <2>1. <<i, j>> \in R \/ <<j, i>> \in R
    OBVIOUS
  <2>2. rank[i] < rank[j] \/ rank[j] < rank[i]
    BY ONLY <1>3, <2>1, i # j, i \in D, j \in D
  <2>3. rank[i] \in Nat /\ rank[j] \in Nat
    BY ONLY <1>1, <1>4, i \in D, j \in D
  <2> QED
    BY <2>2, <2>3
<1>6. \A i, j \in D : rank[i] <= rank[j] <=> <<i, j>> \in R
  <2> SUFFICES ASSUME NEW i \in D, NEW j \in D PROVE rank[i] <= rank[j] <=> <<i, j>> \in R
    OBVIOUS
  <2>1. rank[i] \in Nat /\ rank[j] \in Nat
    BY ONLY <1>1, <1>4, i \in D, j \in D
  <2>2. CASE i = j
    BY <2>1, <2>2
  <2>3. CASE i # j /\ <<i, j>> \in R
    <3>1. rank[i] < rank[j]
      BY <1>3, <2>3
    <3> QED
      BY ONLY <2>1, <2>3, <3>1
  <2>4. CASE i # j /\ <<i, j>> \notin R
    <3>1. <<j, i>> \in R
      BY <2>4
    <3>2. rank[j] < rank[i]
      BY <1>3, <2>4, <3>1
    <3> QED
      BY <2>1, <2>4, <3>2
  <2> QED
    BY <2>2, <2>3, <2>4
<1>7. \A n \in 1 .. N : \E i \in D : rank[i] = n
  <2> DEFINE f == [i \in D |-> rank[i]]
  <2>1. f \in Injection(D, 1 .. N)
    BY <1>4, <1>5 DEF Injection, IsInjective
  <2>2. \A i \in D : f[i] = rank[i]
    OBVIOUS
  <2> HIDE DEF f
  <2>3. f \in Surjection(D, 1 .. N)
    BY <1>1, <2>1, FS_Injection
  <2> QED
    BY <2>2, <2>3 DEF Surjection
<1> QED
  BY <1>4, <1>5, <1>6, <1>7
=============================================================================
