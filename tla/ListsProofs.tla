---------------------------- MODULE ListsProofs ----------------------------
(***************************************************************************)
(* Facts about the operators of Lists and about the folds of the community *)
(* modules: sums, comprehensions, FlattenSeq and sorted lists.  What a     *)
(* fold or a recursive function yields is the solution chosen of its       *)
(* equation, so each begins with a proof that there is one.  Induction     *)
(* over numbers is had from least elements (LeastNumber).                  *)
(***************************************************************************)
EXTENDS Lists, FiniteSetTheorems, SequenceTheorems, WellFoundedInduction, TLAPS

\* A set of natural numbers that is not empty has a least one.
LEMMA LeastNumber ==
  ASSUME NEW T \in SUBSET Nat, T # {}
  PROVE  \E m \in T : \A k \in T : m <= k
<1>1. \E x \in T : \A y \in T : ~(<<y, x>> \in OpToRel(<, Nat))
  BY NatLessThanWellFounded, WFMin
<1>2. \A x, y \in T : x <= y \/ <<y, x>> \in OpToRel(<, Nat)
  BY DEF OpToRel
<1> QED BY <1>1, <1>2

\* A set of numbers up to n that is not empty has a greatest one.
LEMMA GreatestNumber ==
  ASSUME NEW n \in Nat, NEW T \in SUBSET (0..n), T # {}
  PROVE  \E m \in T : \A k \in T : k <= m
<1> DEFINE Gaps == {n - k : k \in T}
<1>1. PICK g \in Gaps : \A h \in Gaps : g <= h
  <2>1. Gaps \in SUBSET Nat
    OBVIOUS
  <2>2. Gaps # {}
    OBVIOUS
  <2> HIDE DEF Gaps
  <2> QED BY <2>1, <2>2, LeastNumber
<1>2. PICK m \in T : g = n - m
  OBVIOUS
<1>3. ASSUME NEW k \in T PROVE k <= m
  <2>1. g <= n - k
    BY <1>1
  <2> QED BY <1>2, <2>1
<1> QED BY <1>3

\* Induction up to n: what holds is given as a set.
LEMMA Counting ==
  ASSUME NEW n \in Nat, NEW Good, 0 \in Good,
         \A i \in 1..n : i - 1 \in Good => i \in Good
  PROVE  \A i \in 0..n : i \in Good
<1> DEFINE Bad == {i \in 0..n : i \notin Good}
<1> SUFFICES ASSUME Bad # {} PROVE FALSE
  OBVIOUS
<1>1. PICK m \in Bad : \A k \in Bad : m <= k
  <2>1. Bad \in SUBSET Nat
    OBVIOUS
  <2> HIDE DEF Bad
  <2> QED BY <2>1, LeastNumber
<1>2. m \in 1..n /\ m - 1 \notin Bad /\ m - 1 \in 0..n
  BY <1>1
<1> QED BY <1>1, <1>2

\* What is good of zero, and of a number if it is of the one before, is good of n.
LEMMA CountingTo ==
  ASSUME NEW n \in Nat, NEW Good, 0 \in Good,
         \A i \in 1..n : i - 1 \in Good => i \in Good
  PROVE  n \in Good
<1>1. \A i \in 0..n : i \in Good
  BY Counting
<1> QED BY <1>1

\* The greatest element of a set of numbers that is bounded.
LEMMA MaxKnown ==
  ASSUME NEW S, NEW m \in S, \A k \in S : m >= k, S \subseteq Int
  PROVE  Max(S) = m
<1> DEFINE Greatest(x) == \A y \in S : x >= y
<1>1. Greatest(m)
  OBVIOUS
<1>2. Max(S) = CHOOSE x \in S : Greatest(x)
  BY DEF Max
<1>3. Max(S) \in S /\ Greatest(Max(S))
  <2> HIDE DEF Greatest
  <2> QED BY <1>1, <1>2
<1>4. Max(S) \in Int /\ m \in Int
  BY <1>3
<1>5. Max(S) >= m /\ m >= Max(S)
  BY <1>1, <1>3
<1> HIDE DEF Greatest
<1> QED BY <1>4, <1>5

\* Max of a set of positions is in it.
LEMMA MaxIsThere ==
  ASSUME NEW n \in Nat, NEW S \in SUBSET (1..n), S # {}
  PROVE  Max(S) \in S /\ \A k \in S : Max(S) >= k
<1> DEFINE Gaps == {n - k : k \in S}
<1>1. PICK g \in Gaps : \A h \in Gaps : g <= h
  <2>1. Gaps \in SUBSET Nat
    OBVIOUS
  <2>2. Gaps # {}
    OBVIOUS
  <2> HIDE DEF Gaps
  <2> QED BY <2>1, <2>2, LeastNumber
<1>2. PICK m \in S : g = n - m
  OBVIOUS
<1>3. \A k \in S : m >= k
  <2> TAKE k \in S
  <2>1. g <= n - k
    BY <1>1
  <2> QED BY <2>1, <1>2
<1>4. Max(S) = m
  <2>1. S \subseteq Int
    OBVIOUS
  <2> HIDE DEF Gaps
  <2> QED BY <1>3, <2>1, MaxKnown
<1> QED BY <1>3, <1>4

\* A list is the concatenation of two, if it has their elements at their places.
LEMMA ConcatByPlaces ==
  ASSUME NEW S, NEW s \in Seq(S), NEW t \in Seq(S), NEW u \in Seq(S),
         Len(u) = Len(s) + Len(t), \A i \in 1..Len(s) : u[i] = s[i],
         \A i \in 1..Len(t) : u[Len(s) + i] = t[i]
  PROVE  u = s \o t
<1> DEFINE c == s \o t
<1>1. /\ c \in Seq(S) /\ Len(c) = Len(s) + Len(t)
      /\ \A i \in 1..Len(s) : c[i] = s[i]
      /\ \A i \in 1..Len(t) : c[Len(s) + i] = t[i]
  OBVIOUS
<1> HIDE DEF c
<1>2. ASSUME NEW i \in 1..Len(u) PROVE u[i] = c[i]
  <2>1. CASE i <= Len(s)
    BY <1>1, <2>1
  <2>2. CASE i > Len(s)
    <3>1. i - Len(s) \in 1..Len(t) /\ Len(s) + (i - Len(s)) = i
      BY <2>2
    <3> QED BY <1>1, <3>1
  <2> QED BY <2>1, <2>2
<1>3. Len(u) = Len(c)
  BY <1>1
<1>4. u = c
  BY <1>1, <1>2, <1>3, SeqEqual
<1> QED BY <1>4 DEF c

\* The positions of a concatenation.
LEMMA ConcatPlaces ==
  ASSUME NEW S, NEW s \in Seq(S), NEW t \in Seq(S), NEW u, u = s \o t
  PROVE  /\ u \in Seq(S) /\ Len(u) = Len(s) + Len(t)
         /\ \A i \in 1..Len(s) : u[i] = s[i]
         /\ \A i \in 1..Len(t) : u[Len(s) + i] = t[i]
<1>1. ASSUME NEW i \in 1..Len(s) PROVE (s \o t)[i] = s[i]
  BY <1>1
<1>2. ASSUME NEW i \in 1..Len(t) PROVE (s \o t)[Len(s) + i] = t[i]
  BY <1>2
<1>3. s \o t \in Seq(S) /\ Len(s \o t) = Len(s) + Len(t)
  OBVIOUS
<1> QED BY <1>1, <1>2, <1>3, Zenon

\* To append to the second list is to append to the concatenation.
LEMMA AppendAfterConcat ==
  ASSUME NEW S, NEW s \in Seq(S), NEW t \in Seq(S), NEW x \in S
  PROVE  s \o Append(t, x) = Append(s \o t, x)
OBVIOUS

(***************************************************************************)
(* Folds.  Every step function F has the function by which a fold over     *)
(* 1..n is defined, with values in the set that F stays in.                *)
(***************************************************************************)
IsIteration(it, n, base, F) ==
  it = [s \in SUBSET (1..n) |->
          IF s = {} THEN base ELSE F[<<Max(s), it[s \ {Max(s)}]>>]]

\* A fold over the first positions extends to the next one.
LEMMA IterationGrows ==
  ASSUME NEW V, NEW base \in V, NEW n \in Nat, NEW F \in [(1..n) \X V -> V],
         NEW m \in 1..n, NEW g \in [SUBSET (1..(m - 1)) -> V], IsIteration(g, m - 1, base, F)
  PROVE  \E it \in [SUBSET (1..m) -> V] : IsIteration(it, m, base, F)
<1> DEFINE it == [s \in SUBSET (1..m) |-> IF m \in s THEN F[<<m, g[s \ {m}]>>] ELSE g[s]]
<1>1. ASSUME NEW s \in SUBSET (1..m)
      PROVE  IF m \in s THEN s \ {m} \in SUBSET (1..(m - 1)) ELSE s \in SUBSET (1..(m - 1))
  OBVIOUS
<1>2. it \in [SUBSET (1..m) -> V]
  BY <1>1
<1>3. ASSUME NEW s \in SUBSET (1..m)
      PROVE  it[s] = IF s = {} THEN base ELSE F[<<Max(s), it[s \ {Max(s)}]>>]
  <2>1. CASE m \in s
    <3>1. Max(s) = m
      <4>1. m \in s /\ s \subseteq Int /\ \A k \in s : m >= k
        BY <2>1
      <4> HIDE DEF it
      <4> QED BY <4>1, MaxKnown
    <3>2. it[s \ {m}] = g[s \ {m}]
      BY <1>1
    <3> QED BY <2>1, <3>1, <3>2
  <2>2. CASE m \notin s
    <3>1. s \in SUBSET (1..(m - 1)) /\ s \ {Max(s)} \in SUBSET (1..(m - 1))
      BY <2>2, <1>1
    <3>2. g[s] = IF s = {} THEN base ELSE F[<<Max(s), g[s \ {Max(s)}]>>]
      BY <3>1 DEF IsIteration
    <3>3. it[s] = g[s] /\ it[s \ {Max(s)}] = g[s \ {Max(s)}]
      BY <2>2, <3>1
    <3> QED BY <3>2, <3>3
  <2> QED BY <2>1, <2>2
<1>4. IsIteration(it, m, base, F)
  <2> HIDE DEF it
  <2> QED BY <1>2, <1>3 DEF IsIteration
<1> QED BY <1>2, <1>4

\* The equation by which a fold over positions is defined has a solution.
LEMMA IterationExists ==
  ASSUME NEW V, NEW base \in V, NEW n \in Nat, NEW F \in [(1..n) \X V -> V]
  PROVE  \E it \in [SUBSET (1..n) -> V] : IsIteration(it, n, base, F)
<1> DEFINE Good == {m \in 0..n : \E it \in [SUBSET (1..m) -> V] : IsIteration(it, m, base, F)}
<1>1. 0 \in Good
  <2> DEFINE it == [s \in SUBSET (1..0) |-> base]
  <2>1. it \in [SUBSET (1..0) -> V] /\ IsIteration(it, 0, base, F)
    BY DEF IsIteration
  <2> QED BY <2>1
<1>2. ASSUME NEW m \in 1..n, m - 1 \in Good PROVE m \in Good
  <2>1. PICK g \in [SUBSET (1..(m - 1)) -> V] : IsIteration(g, m - 1, base, F)
    BY <1>2
  <2>2. \E it \in [SUBSET (1..m) -> V] : IsIteration(it, m, base, F)
    BY <2>1, IterationGrows
  <2> QED BY <2>2
<1>3. \A m \in 0..n : m \in Good
  <2> HIDE DEF Good
  <2> QED BY <1>1, <1>2, Counting
<1>4. n \in Good
  <2> HIDE DEF Good
  <2> QED BY <1>3
<1> QED BY <1>4

\* What such a function says of the numbers up to k.
LEMMA IterationSteps ==
  ASSUME NEW n \in Nat, NEW k \in 1..n
  PROVE  1..k \in SUBSET (1..n) /\ Max(1..k) = k /\ (1..k) \ {k} = 1..(k - 1) /\ 1..k # {}
<1>1. k \in 1..k /\ 1..k \subseteq Int /\ \A i \in 1..k : k >= i
  OBVIOUS
<1>2. Max(1..k) = k
  BY <1>1, MaxKnown
<1> QED BY <1>2
(***************************************************************************)
(* Sums.                                                                   *)
(***************************************************************************)
SumsUpTo(h, s) ==
  /\ h \in [0..Len(s) -> Nat]
  /\ h[0] = 0
  /\ \A i \in 1..Len(s) : h[i] = h[i - 1] + s[i]

\* Total is the last of the sums of a sequence's beginnings.
LEMMA TotalSteps ==
  ASSUME NEW s \in Seq(Nat)
  PROVE  \E h : SumsUpTo(h, s) /\ Total(s) = h[Len(s)]
<1> DEFINE n == Len(s)
           F == [p \in (1..n) \X Nat |-> p[2] + s[p[1]]]
           IsSum(it) == it = [t \in SUBSET (DOMAIN s) |->
                                IF t = {} THEN 0 ELSE it[t \ {Max(t)}] + s[Max(t)]]
           c == CHOOSE it : IsSum(it)
<1>1. n \in Nat /\ DOMAIN s = 1..n /\ \A i \in 1..n : s[i] \in Nat
  OBVIOUS
<1>2. PICK it \in [SUBSET (1..n) -> Nat] : IsIteration(it, n, 0, F)
  <2>1. F \in [(1..n) \X Nat -> Nat]
    BY <1>1
  <2> HIDE DEF F, n
  <2> QED BY <1>1, <2>1, IterationExists
<1>3. IsSum(it)
  <2>1. ASSUME NEW t \in SUBSET (1..n), t # {}
        PROVE  F[<<Max(t), it[t \ {Max(t)}]>>] = it[t \ {Max(t)}] + s[Max(t)]
    <3>1. Max(t) \in 1..n
      BY <1>1, <2>1, MaxIsThere
    <3>2. it[t \ {Max(t)}] \in Nat
      OBVIOUS
    <3> HIDE DEF n
    <3> QED BY <3>1, <3>2
  <2>2. it = [t \in SUBSET (1..n) |-> IF t = {} THEN 0 ELSE it[t \ {Max(t)}] + s[Max(t)]]
    BY <1>2, <2>1 DEF IsIteration
  <2> QED BY <1>1, <2>2
<1>4. IsSum(c)
  <2> HIDE DEF IsSum
  <2> QED BY <1>3
<1>5. Total(s) = c[1..n]
  BY <1>1 DEF Total, FoldLeft, MapThenFoldSet
<1> DEFINE h == [k \in 0..n |-> c[1..k]]
<1>6. c[{}] = 0 /\ \A k \in 1..n : c[1..k] = c[1..(k - 1)] + s[k]
  <2>1. c = [t \in SUBSET (1..n) |-> IF t = {} THEN 0 ELSE c[t \ {Max(t)}] + s[Max(t)]]
    BY <1>1, <1>4
  <2> HIDE DEF c, n
  <2>2. ASSUME NEW k \in 1..n PROVE c[1..k] = c[1..(k - 1)] + s[k]
    <3>1. 1..k \in SUBSET (1..n) /\ Max(1..k) = k /\ (1..k) \ {k} = 1..(k - 1) /\ 1..k # {}
      BY <1>1, IterationSteps
    <3> QED BY <2>1, <3>1
  <2> QED BY <2>1, <2>2
<1>7. \A k \in 0..n : c[1..k] \in Nat
  <2> DEFINE Good == {k \in 0..n : c[1..k] \in Nat}
  <2> HIDE DEF c, n
  <2>1. 0 \in Good
    <3>1. 1..0 = {}
      OBVIOUS
    <3> QED BY <1>1, <1>6, <3>1
  <2>2. \A i \in 1..n : i - 1 \in Good => i \in Good
    BY <1>1, <1>6
  <2>3. \A k \in 0..n : k \in Good
    <3> HIDE DEF Good
    <3> QED BY <1>1, <2>1, <2>2, Counting
  <2> QED BY <2>3
<1>8. SumsUpTo(h, s) /\ Total(s) = h[Len(s)]
  <2>1. 1..0 = {}
    OBVIOUS
  <2> HIDE DEF c
  <2> QED BY <1>1, <1>5, <1>6, <1>7, <2>1 DEF SumsUpTo
<1> QED BY <1>8

\* The sums of a sequence are those of its beginnings.
LEMMA SumsAgree ==
  ASSUME NEW s \in Seq(Nat), NEW t \in Seq(Nat), NEW h, NEW g, SumsUpTo(h, s), SumsUpTo(g, t),
         Len(s) <= Len(t), \A i \in 1..Len(s) : s[i] = t[i]
  PROVE  h[Len(s)] = g[Len(s)]
<1> DEFINE m == Len(s)
<1>0. m \in Nat
  OBVIOUS
<1> DEFINE Good == {i \in 0..m : h[i] = g[i]}
<1>1. 0 \in Good
  BY DEF SumsUpTo
<1>2. \A i \in 1..m : i - 1 \in Good => i \in Good
  BY DEF SumsUpTo
<1>3. m \in Good
  <2> HIDE DEF Good, m
  <2> QED BY <1>0, <1>1, <1>2, CountingTo
<1> QED BY <1>3

\* A sum of natural numbers is one.
LEMMA TotalIsNat == ASSUME NEW s \in Seq(Nat) PROVE Total(s) \in Nat
BY TotalSteps DEF SumsUpTo

\* The sum of no numbers.
LEMMA TotalOfNone == Total(<<>>) = 0
<1>1. <<>> \in Seq(Nat) /\ Len(<<>>) = 0
  OBVIOUS
<1> QED BY <1>1, TotalSteps DEF SumsUpTo

\* The sum of a list with one number more.
LEMMA TotalOfAppend ==
  ASSUME NEW s \in Seq(Nat), NEW x \in Nat
  PROVE  Total(Append(s, x)) = Total(s) + x
<1> DEFINE t == Append(s, x)
<1>1. t \in Seq(Nat) /\ Len(t) = Len(s) + 1 /\ t[Len(t)] = x /\ \A i \in 1..Len(s) : t[i] = s[i]
  OBVIOUS
<1> HIDE DEF t
<1>2. PICK h : SumsUpTo(h, s) /\ Total(s) = h[Len(s)]
  BY TotalSteps
<1>3. PICK g : SumsUpTo(g, t) /\ Total(t) = g[Len(t)]
  BY <1>1, TotalSteps
<1>4. g[Len(s)] = h[Len(s)]
  <2>1. Len(s) <= Len(t) /\ \A i \in 1..Len(s) : s[i] = t[i]
    BY <1>1
  <2>2. SumsUpTo(h, s) /\ SumsUpTo(g, t)
    BY <1>2, <1>3
  <2>3. h[Len(s)] = g[Len(s)]
    BY <1>1, <2>1, <2>2, SumsAgree
  <2> QED BY <2>3
<1>5. g[Len(t)] = g[Len(t) - 1] + t[Len(t)]
  <2>1. Len(t) \in 1..Len(t)
    BY <1>1
  <2> QED BY <1>3, <2>1 DEF SumsUpTo
<1>6. Total(t) = Total(s) + x
  BY <1>1, <1>2, <1>3, <1>4, <1>5
<1> QED BY <1>6 DEF t

\* The sum of two lists.
LEMMA TotalOfConcat ==
  ASSUME NEW s \in Seq(Nat), NEW t \in Seq(Nat)
  PROVE  Total(s \o t) = Total(s) + Total(t)
<1> DEFINE n == Len(t)
           Good == {i \in 0..n : Total(s \o SubSeq(t, 1, i)) = Total(s) + Total(SubSeq(t, 1, i))}
<1>1. 0 \in Good
  <2>1. SubSeq(t, 1, 0) = <<>> /\ s \o <<>> = s
    OBVIOUS
  <2>2. Total(s) + Total(<<>>) = Total(s)
    BY TotalOfNone, TotalIsNat
  <2>3. Total(s \o SubSeq(t, 1, 0)) = Total(s) + Total(SubSeq(t, 1, 0))
    BY <2>1, <2>2
  <2> QED BY <2>3
<1>2. ASSUME NEW i \in 1..n, i - 1 \in Good PROVE i \in Good
  <2> DEFINE u == SubSeq(t, 1, i - 1)
  <2>1. u \in Seq(Nat) /\ t[i] \in Nat
    OBVIOUS
  <2>2. SubSeq(t, 1, i) = Append(u, t[i])
    OBVIOUS
  <2>3. s \o Append(u, t[i]) = Append(s \o u, t[i]) /\ s \o u \in Seq(Nat)
    <3> HIDE DEF u
    <3>1. s \o u \in Seq(Nat)
      BY <2>1
    <3>2. s \o Append(u, t[i]) = Append(s \o u, t[i])
      BY <2>1, AppendAfterConcat, SMTT(60)
    <3> QED BY <3>1, <3>2
  <2>4. Total(s \o u) = Total(s) + Total(u)
    BY <1>2
  <2> HIDE DEF u
  <2>5. Total(Append(s \o u, t[i])) = Total(s \o u) + t[i] /\ Total(Append(u, t[i])) = Total(u) + t[i]
    BY <2>1, <2>3, TotalOfAppend
  <2>6. Total(s) \in Nat /\ Total(u) \in Nat
    BY <2>1, TotalIsNat
  <2>7. Total(s \o SubSeq(t, 1, i)) = Total(s) + Total(SubSeq(t, 1, i))
    <3>1. Total(s \o u) + t[i] = Total(s) + (Total(u) + t[i])
      BY <2>1, <2>4, <2>6
    <3> QED BY <2>2, <2>3, <2>5, <3>1
  <2> QED BY <2>7
<1>3. n \in Good
  <2>1. n \in Nat
    OBVIOUS
  <2> HIDE DEF Good, n
  <2> QED BY <1>1, <1>2, <2>1, CountingTo
<1>4. SubSeq(t, 1, n) = t
  OBVIOUS
<1> QED BY <1>3, <1>4

(***************************************************************************)
(* What is kept of a list.                                                 *)
(***************************************************************************)
KeptUpTo(h, s, wanted) ==
  /\ h[0] = <<>>
  /\ \A i \in 1..Len(s) :
       h[i] = IF s[i] \in wanted THEN Append(h[i - 1], s[i]) ELSE h[i - 1]

\* A comprehension takes the list element by element.
LEMMA KeptSteps ==
  ASSUME NEW S, NEW s \in Seq(S), NEW wanted
  PROVE  \E h : KeptUpTo(h, s, wanted) /\ Kept(s, wanted) = h[Len(s)]
<1> DEFINE n == Len(s)
           F == [p \in (1..n) \X Seq(S) |-> IF s[p[1]] \in wanted THEN Append(p[2], s[p[1]]) ELSE p[2]]
           IsKept(it) == it = [t \in SUBSET (DOMAIN s) |->
                                IF t = {} THEN <<>>
                                ELSE IF s[Max(t)] \in wanted
                                  THEN Append(it[t \ {Max(t)}], s[Max(t)]) ELSE it[t \ {Max(t)}]]
           c == CHOOSE it : IsKept(it)
<1>1. n \in Nat /\ DOMAIN s = 1..n /\ \A i \in 1..n : s[i] \in S
  OBVIOUS
<1>2. PICK it \in [SUBSET (1..n) -> Seq(S)] : IsIteration(it, n, <<>>, F)
  <2>1. F \in [(1..n) \X Seq(S) -> Seq(S)]
    BY <1>1
  <2>2. <<>> \in Seq(S)
    OBVIOUS
  <2> HIDE DEF F, n
  <2> QED BY <1>1, <2>1, <2>2, IterationExists
<1>3. IsKept(it)
  <2>1. ASSUME NEW t \in SUBSET (1..n), t # {}
        PROVE  F[<<Max(t), it[t \ {Max(t)}]>>] =
                 IF s[Max(t)] \in wanted
                   THEN Append(it[t \ {Max(t)}], s[Max(t)]) ELSE it[t \ {Max(t)}]
    <3>1. Max(t) \in 1..n
      BY <1>1, <2>1, MaxIsThere
    <3>2. it[t \ {Max(t)}] \in Seq(S)
      OBVIOUS
    <3> HIDE DEF n
    <3> QED BY <3>1, <3>2
  <2>2. it = [t \in SUBSET (1..n) |->
                IF t = {} THEN <<>>
                ELSE IF s[Max(t)] \in wanted
                  THEN Append(it[t \ {Max(t)}], s[Max(t)]) ELSE it[t \ {Max(t)}]]
    <3> HIDE DEF F, n
    <3> QED BY <1>2, <2>1 DEF IsIteration
  <2> QED BY <1>1, <2>2
<1>4. IsKept(c)
  <2> HIDE DEF IsKept
  <2> QED BY <1>3
<1>5. Kept(s, wanted) = c[1..n]
  BY <1>1 DEF Kept, FoldLeft, MapThenFoldSet
<1> DEFINE h == [k \in 0..n |-> c[1..k]]
<1>6. /\ c[{}] = <<>>
      /\ \A k \in 1..n : c[1..k] = IF s[k] \in wanted THEN Append(c[1..(k - 1)], s[k])
                                                      ELSE c[1..(k - 1)]
  <2>1. c = [t \in SUBSET (1..n) |->
               IF t = {} THEN <<>>
               ELSE IF s[Max(t)] \in wanted
                 THEN Append(c[t \ {Max(t)}], s[Max(t)]) ELSE c[t \ {Max(t)}]]
    BY <1>1, <1>4
  <2> HIDE DEF c, n
  <2>2. ASSUME NEW k \in 1..n
        PROVE  c[1..k] = IF s[k] \in wanted THEN Append(c[1..(k - 1)], s[k]) ELSE c[1..(k - 1)]
    <3>1. 1..k \in SUBSET (1..n) /\ Max(1..k) = k /\ (1..k) \ {k} = 1..(k - 1) /\ 1..k # {}
      BY <1>1, IterationSteps
    <3> QED BY <2>1, <3>1
  <2> QED BY <2>1, <2>2
<1>7. KeptUpTo(h, s, wanted) /\ Kept(s, wanted) = h[Len(s)]
  <2>1. 1..0 = {}
    OBVIOUS
  <2> HIDE DEF c
  <2> QED BY <1>1, <1>5, <1>6, <2>1 DEF KeptUpTo
<1> QED BY <1>7

\* What a comprehension keeps of the beginning of a list depends on that alone.
LEMMA KeptAgree ==
  ASSUME NEW S, NEW s \in Seq(S), NEW t \in Seq(S), NEW wanted, NEW h, NEW g,
         KeptUpTo(h, s, wanted), KeptUpTo(g, t, wanted),
         Len(s) <= Len(t), \A i \in 1..Len(s) : s[i] = t[i]
  PROVE  h[Len(s)] = g[Len(s)]
<1> DEFINE m == Len(s)
           Good == {i \in 0..m : h[i] = g[i]}
<1>1. m \in Nat
  OBVIOUS
<1>2. 0 \in Good
  BY DEF KeptUpTo
<1>3. \A i \in 1..m : i - 1 \in Good => i \in Good
  BY DEF KeptUpTo
<1>4. m \in Good
  <2> HIDE DEF Good, m
  <2> QED BY <1>1, <1>2, <1>3, CountingTo
<1> QED BY <1>4

\* A comprehension over no elements.
LEMMA KeptOfNone == ASSUME NEW wanted PROVE Kept(<<>>, wanted) = <<>>
<1>1. <<>> \in Seq({}) /\ Len(<<>>) = 0
  OBVIOUS
<1>2. PICK h : KeptUpTo(h, <<>>, wanted) /\ Kept(<<>>, wanted) = h[Len(<<>>)]
  BY <1>1, KeptSteps
<1> QED BY <1>1, <1>2 DEF KeptUpTo

\* A comprehension over a list with one element more.
LEMMA KeptOfAppend ==
  ASSUME NEW S, NEW s \in Seq(S), NEW x \in S, NEW wanted
  PROVE  Kept(Append(s, x), wanted) =
           IF x \in wanted THEN Append(Kept(s, wanted), x) ELSE Kept(s, wanted)
<1> DEFINE t == Append(s, x)
<1>1. t \in Seq(S) /\ Len(t) = Len(s) + 1 /\ t[Len(t)] = x /\ \A i \in 1..Len(s) : t[i] = s[i]
  OBVIOUS
<1> HIDE DEF t
<1>2. PICK h : KeptUpTo(h, s, wanted) /\ Kept(s, wanted) = h[Len(s)]
  BY KeptSteps
<1>3. PICK g : KeptUpTo(g, t, wanted) /\ Kept(t, wanted) = g[Len(t)]
  BY <1>1, KeptSteps
<1>4. g[Len(s)] = h[Len(s)]
  <2>1. Len(s) <= Len(t) /\ \A i \in 1..Len(s) : s[i] = t[i]
    BY <1>1
  <2>2. KeptUpTo(h, s, wanted) /\ KeptUpTo(g, t, wanted)
    BY <1>2, <1>3
  <2>3. h[Len(s)] = g[Len(s)]
    BY <1>1, <2>1, <2>2, KeptAgree
  <2> QED BY <2>3
<1>5. g[Len(t)] = IF t[Len(t)] \in wanted THEN Append(g[Len(t) - 1], t[Len(t)])
                                           ELSE g[Len(t) - 1]
  <2>1. Len(t) \in 1..Len(t)
    BY <1>1
  <2> QED BY <1>3, <2>1 DEF KeptUpTo
<1>6. Len(t) - 1 = Len(s)
  BY <1>1
<1>7. Kept(t, wanted) = IF x \in wanted THEN Append(Kept(s, wanted), x) ELSE Kept(s, wanted)
  BY <1>1, <1>2, <1>3, <1>4, <1>5, <1>6
<1> QED BY <1>7 DEF t

\* What is kept is wanted, and nothing wanted is missing.
LEMMA KeptIsWanted ==
  ASSUME NEW S, NEW s \in Seq(S), NEW wanted
  PROVE  LET k == Kept(s, wanted)
         IN /\ k \in Seq(S \cap wanted)
            /\ \A i \in 1..Len(s) : s[i] \in wanted => \E j \in 1..Len(k) : k[j] = s[i]
<1> DEFINE n == Len(s)
           Holds(k, m) == /\ k \in Seq(S \cap wanted)
                          /\ \A i \in 1..m : s[i] \in wanted => \E j \in 1..Len(k) : k[j] = s[i]
<1>1. PICK h : KeptUpTo(h, s, wanted) /\ Kept(s, wanted) = h[n]
  BY KeptSteps
<1> DEFINE Good == {m \in 0..n : Holds(h[m], m)}
<1>2. n \in Nat
  OBVIOUS
<1>3. 0 \in Good
  <2>1. h[0] = <<>> /\ <<>> \in Seq(S \cap wanted) /\ 1..0 = {} /\ 0 \in 0..n
    BY <1>1 DEF KeptUpTo
  <2>2. Holds(h[0], 0)
    BY <2>1
  <2> HIDE DEF Holds
  <2> QED BY <2>1, <2>2
<1>4. ASSUME NEW m \in 1..n, m - 1 \in Good PROVE m \in Good
  <2> DEFINE k == h[m - 1]
  <2>1. k \in Seq(S \cap wanted) /\ Holds(k, m - 1) /\ s[m] \in S
    BY <1>4
  <2>2. h[m] = IF s[m] \in wanted THEN Append(k, s[m]) ELSE k
    BY <1>1 DEF KeptUpTo
  <2>3. CASE s[m] \in wanted
    <3> DEFINE l == Append(k, s[m])
    <3> HIDE DEF k
    <3>1. /\ l \in Seq(S \cap wanted) /\ Len(l) = Len(k) + 1 /\ l[Len(l)] = s[m]
          /\ \A j \in 1..Len(k) : l[j] = k[j]
      BY <2>1, <2>3
    <3> HIDE DEF l
    <3>2. ASSUME NEW i \in 1..m, s[i] \in wanted PROVE \E j \in 1..Len(l) : l[j] = s[i]
      <4>1. CASE i = m
        <5>1. Len(l) \in 1..Len(l)
          BY <2>1, <3>1
        <5> QED BY <3>1, <4>1, <5>1
      <4>2. CASE i # m
        <5>1. PICK j \in 1..Len(k) : k[j] = s[i]
          BY <2>1, <3>2, <4>2
        <5> QED BY <2>1, <3>1, <5>1
      <4> QED BY <4>1, <4>2
    <3>3. h[m] = l
      BY <2>2, <2>3 DEF l
    <3> QED BY <3>1, <3>2, <3>3
  <2>4. CASE s[m] \notin wanted
    <3>1. h[m] = k
      BY <2>2, <2>4
    <3> HIDE DEF k
    <3>2. ASSUME NEW i \in 1..m, s[i] \in wanted PROVE i \in 1..(m - 1)
      BY <2>4, <3>2
    <3> QED BY <2>1, <3>1, <3>2
  <2> QED BY <2>3, <2>4
<1>5. n \in Good
  <2> HIDE DEF Good, n
  <2> QED BY <1>2, <1>3, <1>4, CountingTo
<1> QED BY <1>1, <1>5

\* Where the wanted elements come first, they are what is kept.
LEMMA KeptOfBeginning ==
  ASSUME NEW S, NEW s \in Seq(S), NEW wanted, NEW k \in 0..Len(s),
         \A i \in 1..Len(s) : s[i] \in wanted <=> i <= k
  PROVE  Kept(s, wanted) = SubSeq(s, 1, k)
<1> DEFINE n == Len(s)
           Part(i) == SubSeq(s, 1, IF i < k THEN i ELSE k)
<1>1. PICK h : KeptUpTo(h, s, wanted) /\ Kept(s, wanted) = h[n]
  BY KeptSteps
<1> DEFINE Good == {i \in 0..n : h[i] = Part(i)}
<1>2. n \in Nat
  OBVIOUS
<1>3. 0 \in Good
  <2>1. h[0] = <<>> /\ SubSeq(s, 1, 0) = <<>>
    BY <1>1 DEF KeptUpTo
  <2>2. k = 0 \/ 0 < k
    OBVIOUS
  <2>3. Part(0) = SubSeq(s, 1, 0)
    BY <2>2
  <2> HIDE DEF Part
  <2> QED BY <1>2, <2>1, <2>3
<1>4. ASSUME NEW i \in 1..n, i - 1 \in Good PROVE i \in Good
  <2>1. h[i] = (IF s[i] \in wanted THEN Append(h[i - 1], s[i]) ELSE h[i - 1])
    BY <1>1 DEF KeptUpTo
  <2>2. h[i - 1] = Part(i - 1)
    BY <1>4
  <2>3. CASE i <= k
    <3>1. Part(i - 1) = SubSeq(s, 1, i - 1) /\ Part(i) = SubSeq(s, 1, i) /\ s[i] \in wanted
      BY <2>3
    <3>2. SubSeq(s, 1, i) = Append(SubSeq(s, 1, i - 1), s[i])
      OBVIOUS
    <3>3. h[i] = Part(i)
      <4> HIDE DEF Part
      <4> QED BY <2>1, <2>2, <3>1, <3>2
    <3> QED BY <3>3
  <2>4. CASE i > k
    <3>1. Part(i - 1) = SubSeq(s, 1, k) /\ Part(i) = SubSeq(s, 1, k) /\ s[i] \notin wanted
      BY <2>4
    <3>2. h[i] = Part(i)
      <4> HIDE DEF Part
      <4> QED BY <2>1, <2>2, <3>1
    <3> QED BY <3>2
  <2> QED BY <2>3, <2>4
<1>5. n \in Good
  <2> HIDE DEF Good, n
  <2> QED BY <1>2, <1>3, <1>4, CountingTo
<1>6. Part(n) = SubSeq(s, 1, k)
  BY <1>2
<1> HIDE DEF Part
<1> QED BY <1>1, <1>5, <1>6

(***************************************************************************)
(* Sorting.                                                                *)
(***************************************************************************)
\* `before` orders a set: of two elements, one is before the other and not
\* behind what is before it.
Orders(before, set) ==
  /\ \A x, y \in set : x # y => <<x, y>> \in before \/ <<y, x>> \in before
  /\ \A x \in set : <<x, x>> \notin before
  /\ \A x, y, z \in set : <<x, y>> \in before /\ <<y, z>> \in before => <<x, z>> \in before

\* The place of x in the order: behind those that are before it.
Place(x, set, before) == Cardinality({y \in set : <<y, x>> \in before}) + 1

\* In an order each element has a place of its own, from one upwards.
LEMMA PlacesDiffer ==
  ASSUME NEW set, IsFiniteSet(set), NEW before, Orders(before, set)
  PROVE  /\ \A x \in set : Place(x, set, before) \in 1..Cardinality(set)
         /\ \A x, y \in set : <<x, y>> \in before =>
              Place(x, set, before) < Place(y, set, before)
<1> DEFINE Before(x) == {y \in set : <<y, x>> \in before}
<1>1. ASSUME NEW x \in set
      PROVE  /\ IsFiniteSet(Before(x)) /\ Cardinality(Before(x)) \in Nat
             /\ Cardinality(Before(x)) < Cardinality(set)
  <2>1. Before(x) \in SUBSET set /\ Before(x) # set
    BY DEF Orders
  <2> HIDE DEF Before
  <2>2. /\ IsFiniteSet(Before(x)) /\ Cardinality(Before(x)) <= Cardinality(set)
        /\ Cardinality(set) # Cardinality(Before(x))
    BY <2>1, FS_Subset
  <2>3. Cardinality(Before(x)) \in Nat /\ Cardinality(set) \in Nat
    BY <2>2, FS_CardinalityType
  <2> QED BY <2>2, <2>3
<1>2. ASSUME NEW x \in set, NEW y \in set, <<x, y>> \in before
      PROVE  Cardinality(Before(x)) < Cardinality(Before(y))
  <2>1. Before(x) \in SUBSET Before(y) /\ Before(x) # Before(y)
    BY <1>2 DEF Orders
  <2>2. IsFiniteSet(Before(y)) /\ Cardinality(Before(x)) \in Nat /\ Cardinality(Before(y)) \in Nat
    BY <1>1
  <2> HIDE DEF Before
  <2>3. /\ Cardinality(Before(x)) <= Cardinality(Before(y))
        /\ Cardinality(Before(x)) # Cardinality(Before(y))
    BY <2>1, <2>2, FS_Subset
  <2> QED BY <2>2, <2>3
<1>3. Cardinality(set) \in Nat
  BY FS_CardinalityType
<1>4. \A x \in set : Place(x, set, before) = Cardinality(Before(x)) + 1
  BY DEF Place
<1> HIDE DEF Before
<1> QED BY <1>1, <1>2, <1>3, <1>4

\* Sorting gives each element once, in order.
LEMMA ArrangedIsSorted ==
  ASSUME NEW set, IsFiniteSet(set), NEW before, Orders(before, set)
  PROVE  LET list == Arranged(set, before)
             n == Cardinality(set)
         IN /\ n \in Nat
            /\ list \in [1..n -> set]
            /\ \A i, j \in 1..n : i < j => <<list[i], list[j]>> \in before
            /\ \A i, j \in 1..n : list[i] = list[j] => i = j
            /\ \A x \in set : \E i \in 1..n : list[i] = x
<1> DEFINE n == Cardinality(set)
           Sorted(list) == \A i, j \in 1..n : i < j => <<list[i], list[j]>> \in before
           place == [x \in set |-> Place(x, set, before)]
<1>1. n \in Nat
  BY FS_CardinalityType
<1>2. /\ \A x \in set : Place(x, set, before) \in 1..n
      /\ \A x, y \in set : <<x, y>> \in before => Place(x, set, before) < Place(y, set, before)
  BY PlacesDiffer
<1>3. \A x, y \in set : place[x] = place[y] => x = y
  <2> SUFFICES ASSUME NEW x \in set, NEW y \in set, place[x] = place[y], x # y
               PROVE  FALSE
    OBVIOUS
  <2>1. Place(x, set, before) \in Int /\ Place(y, set, before) \in Int
    BY <1>1, <1>2
  <2>2. <<x, y>> \in before \/ <<y, x>> \in before
    BY DEF Orders
  <2> QED BY <1>2, <2>1, <2>2
<1>4. place \in Injection(set, 1..n)
  BY <1>2, <1>3 DEF Injection, IsInjective
<1>5. IsFiniteSet(1..n) /\ Cardinality(1..n) = n
  <2>1. 1 \in Int /\ n \in Int
    BY <1>1
  <2>2. IsFiniteSet(1..n) /\ Cardinality(1..n) = IF 1 > n THEN 0 ELSE n - 1 + 1
    <3> HIDE DEF n
    <3> QED BY <2>1, FS_Interval
  <2> QED BY <1>1, <2>2
<1>6. place \in Surjection(set, 1..n)
  <2> HIDE DEF place, n
  <2>1. Cardinality(set) = Cardinality(1..n) <=> place \in Surjection(set, 1..n)
    BY <1>4, <1>5, FS_Injection
  <2>2. Cardinality(set) = n
    BY DEF n
  <2> QED BY <1>5, <2>1, <2>2
<1>7. \A i \in 1..n : \E x \in set : place[x] = i
  <2> HIDE DEF place, n
  <2> QED BY <1>6 DEF Surjection
<1> DEFINE at == [i \in 1..n |-> CHOOSE x \in set : place[x] = i]
<1>8. at \in [1..n -> set] /\ \A i \in 1..n : place[at[i]] = i
  <2> HIDE DEF place, n
  <2> QED BY <1>7
<1>9. Sorted(at)
  <2> SUFFICES ASSUME NEW i \in 1..n, NEW j \in 1..n, i < j
               PROVE  <<at[i], at[j]>> \in before
    OBVIOUS
  <2>1. /\ at[i] \in set /\ at[j] \in set /\ i \in Int /\ j \in Int
        /\ Place(at[i], set, before) = i /\ Place(at[j], set, before) = j
    BY <1>8
  <2> HIDE DEF at
  <2>2. at[i] # at[j]
    BY <2>1
  <2>3. ~(<<at[j], at[i]>> \in before)
    BY <1>2, <2>1
  <2> QED BY <2>1, <2>2, <2>3 DEF Orders
<1> DEFINE list == Arranged(set, before)
<1>10. list \in [1..n -> set] /\ Sorted(list)
  <2>1. list = CHOOSE l \in [1..n -> set] : Sorted(l)
    BY DEF Arranged
  <2> HIDE DEF Sorted, at, list
  <2> QED BY <1>8, <1>9, <2>1
<1>11. \A i, j \in 1..n : list[i] = list[j] => i = j
  <2> SUFFICES ASSUME NEW i \in 1..n, NEW j \in 1..n, i < j, list[i] = list[j]
               PROVE  FALSE
    <3> HIDE DEF list, n
    <3> QED BY <1>1
  <2>1. <<list[i], list[j]>> \in before /\ list[i] \in set
    BY <1>10
  <2> HIDE DEF list
  <2> QED BY <2>1 DEF Orders
<1>12. list \in Injection(1..n, set)
  <2> HIDE DEF list
  <2> QED BY <1>10, <1>11 DEF Injection, IsInjective
<1>13. list \in Surjection(1..n, set)
  <2> HIDE DEF list, n
  <2>1. Cardinality(1..n) = Cardinality(set) <=> list \in Surjection(1..n, set)
    BY <1>12, FS_Injection
  <2>2. Cardinality(set) = n
    BY DEF n
  <2> QED BY <1>5, <2>1, <2>2
<1>14. \A x \in set : \E i \in 1..n : list[i] = x
  <2> HIDE DEF list, n
  <2> QED BY <1>13 DEF Surjection
<1> HIDE DEF list, n
<1>15. /\ n \in Nat /\ list \in [1..n -> set] /\ Sorted(list)
       /\ \A i, j \in 1..n : list[i] = list[j] => i = j
       /\ \A x \in set : \E i \in 1..n : list[i] = x
  BY <1>1, <1>10, <1>11, <1>14
<1> QED BY <1>15 DEF list, n

\* Numbers from 1 to n that increase n times are all of them.
LEMMA IncreasingIsIdentity ==
  ASSUME NEW n \in Nat, NEW f \in [1..n -> 1..n], \A i, j \in 1..n : i < j => f[i] < f[j]
  PROVE  \A i \in 1..n : f[i] = i
<1> DEFINE Low == {i \in 0..n : i > 0 => f[i] >= i}
           High == {i \in 0..n : i < n => f[n - i] <= n - i}
<1>1. \A i \in 0..n : i \in Low
  <2>1. 0 \in Low
    OBVIOUS
  <2>2. ASSUME NEW i \in 1..n, i - 1 \in Low PROVE i \in Low
    <3>1. f[i] \in 1..n
      OBVIOUS
    <3>2. CASE i > 1
      <4>1. i - 1 \in 1..n /\ f[i - 1] < f[i] /\ f[i - 1] \in Int
        BY <3>2
      <4>2. f[i - 1] >= i - 1
        BY <2>2, <3>2
      <4>3. f[i] >= i
        BY <3>1, <4>1, <4>2
      <4> QED BY <4>3
    <3>3. CASE i = 1
      BY <3>1, <3>3
    <3> QED BY <3>2, <3>3
  <2> HIDE DEF Low
  <2> QED BY <2>1, <2>2, Counting
<1>2. \A i \in 0..n : i \in High
  <2>1. 0 \in High
    OBVIOUS
  <2>2. ASSUME NEW i \in 1..n, i - 1 \in High PROVE i \in High
    <3>1. CASE i < n
      <4> DEFINE a == n - i
                 b == n - (i - 1)
      <4>1. a \in 1..n /\ b \in 1..n /\ a < b /\ b = a + 1 /\ i - 1 < n
        BY <3>1
      <4>2. f[a] < f[b] /\ f[a] \in Int /\ f[b] \in Int
        BY <4>1
      <4>3. f[b] <= b
        BY <2>2, <4>1
      <4> HIDE DEF a, b
      <4>4. f[a] <= a
        BY <4>1, <4>2, <4>3
      <4> QED BY <4>4 DEF a
    <3>2. CASE i = n
      BY <3>2
    <3> QED BY <3>1, <3>2
  <2> HIDE DEF High
  <2> QED BY <2>1, <2>2, Counting
<1>3. ASSUME NEW i \in 1..n PROVE f[i] = i
  <2>1. f[i] >= i
    BY <1>1
  <2>2. n - i \in 0..n /\ n - i < n /\ n - (n - i) = i
    OBVIOUS
  <2>3. n - i \in High
    BY <1>2, <2>2
  <2>4. f[n - (n - i)] <= n - (n - i)
    BY <2>2, <2>3
  <2>5. f[i] <= i
    BY <2>2, <2>4
  <2>6. f[i] \in Int
    OBVIOUS
  <2> QED BY <2>1, <2>5, <2>6
<1> QED BY <1>3

\* A list without repetition is as long as it has elements.
LEMMA ElementsOfList ==
  ASSUME NEW n \in Nat, NEW elements, NEW list \in [1..n -> elements],
         \A x \in elements : \E i \in 1..n : list[i] = x,
         \A i, j \in 1..n : list[i] = list[j] => i = j
  PROVE  IsFiniteSet(elements) /\ Cardinality(elements) = n
<1>1. list \in Bijection(1..n, elements)
  BY DEF Bijection, Injection, Surjection, IsInjective
<1>2. ExistsBijection(1..n, elements)
  BY <1>1 DEF ExistsBijection
<1>3. Cardinality(elements) = n
  BY <1>2, FS_CountingElements
<1>4. IsFiniteSet(1..n)
  BY FS_Interval
<1>5. IsFiniteSet(elements)
  BY <1>2, <1>4, FS_Bijection
<1> QED BY <1>3, <1>5

(***************************************************************************)
(* Lists of lists.                                                         *)
(***************************************************************************)
FlatUpTo(h, seqs) ==
  /\ h[0] = <<>>
  /\ \A i \in 1..Len(seqs) : h[i] = h[i - 1] \o seqs[i]

\* FlattenSeq takes the lists one after the other.
LEMMA FlattenSteps ==
  ASSUME NEW S, NEW seqs \in Seq(Seq(S))
  PROVE  \E h \in [0..Len(seqs) -> Seq(S)] : FlatUpTo(h, seqs) /\ FlattenSeq(seqs) = h[Len(seqs)]
<1> DEFINE n == Len(seqs)
           Flat(flat, m) ==
             flat = [i \in 1..m |-> IF i = 1 THEN seqs[i] ELSE flat[i - 1] \o seqs[i]]
           Good == {m \in 0..n : \E flat \in [1..m -> Seq(S)] : Flat(flat, m)}
<1>1. n \in Nat /\ \A i \in 1..n : seqs[i] \in Seq(S)
  OBVIOUS
<1>2. 0 \in Good
  <2> DEFINE none == [i \in 1..0 |-> <<>>]
  <2>1. none \in [1..0 -> Seq(S)] /\ Flat(none, 0)
    OBVIOUS
  <2>2. 0 \in 0..n
    BY <1>1
  <2> HIDE DEF none, n, Flat
  <2> QED BY <2>1, <2>2
<1>3. ASSUME NEW m \in 1..n, m - 1 \in Good PROVE m \in Good
  <2>1. PICK f \in [1..(m - 1) -> Seq(S)] : Flat(f, m - 1)
    BY <1>3
  <2> DEFINE g == [i \in 1..m |-> IF i < m THEN f[i]
                                  ELSE IF m = 1 THEN seqs[m] ELSE f[m - 1] \o seqs[m]]
  <2>2. g \in [1..m -> Seq(S)]
    <3>1. m = 1 \/ f[m - 1] \in Seq(S)
      OBVIOUS
    <3>2. ASSUME NEW i \in 1..m, i < m PROVE f[i] \in Seq(S)
      BY <3>2
    <3>3. m = 1 \/ f[m - 1] \o seqs[m] \in Seq(S)
      BY <3>1, <1>1
    <3> QED BY <3>2, <3>3, <1>1
  <2>3. ASSUME NEW i \in 1..m PROVE g[i] = IF i = 1 THEN seqs[i] ELSE g[i - 1] \o seqs[i]
    <3>1. CASE i < m
      <4>1. i \in 1..(m - 1) /\ (i = 1 \/ i - 1 \in 1..(m - 1))
        BY <3>1
      <4>2. f[i] = IF i = 1 THEN seqs[i] ELSE f[i - 1] \o seqs[i]
        BY <2>1, <4>1
      <4>3. g[i] = f[i] /\ (i = 1 \/ g[i - 1] = f[i - 1])
        BY <3>1, <4>1
      <4> HIDE DEF g
      <4> QED BY <4>2, <4>3
    <3>2. CASE i = m
      <4>1. m = 1 \/ g[m - 1] = f[m - 1]
        OBVIOUS
      <4> QED BY <3>2, <4>1
    <3> QED BY <3>1, <3>2
  <2>4. Flat(g, m)
    <3> HIDE DEF g
    <3> QED BY <2>2, <2>3
  <2> HIDE DEF g, Flat
  <2> QED BY <2>2, <2>4
<1>4. n \in Good
  <2> HIDE DEF Good, n
  <2> QED BY <1>1, <1>2, <1>3, CountingTo
<1>5. PICK f \in [1..n -> Seq(S)] : Flat(f, n)
  BY <1>4
<1> DEFINE c == CHOOSE flat : Flat(flat, n)
<1>6. Flat(c, n)
  <2> HIDE DEF Flat
  <2> QED BY <1>5
<1>7. FlattenSeq(seqs) = IF n = 0 THEN <<>> ELSE c[n]
  <2>1. Len(seqs) = 0 => seqs = <<>>
    OBVIOUS
  <2> QED BY <2>1 DEF FlattenSeq
<1> HIDE DEF c
<1> DEFINE h == [i \in 0..n |-> IF i = 0 THEN <<>> ELSE c[i]]
<1>8. ASSUME NEW i \in 1..n PROVE h[i] = h[i - 1] \o seqs[i]
  <2>1. c[i] = IF i = 1 THEN seqs[i] ELSE c[i - 1] \o seqs[i]
    BY <1>6
  <2>2. h[i] = c[i] /\ h[i - 1] = IF i = 1 THEN <<>> ELSE c[i - 1]
    BY <1>1
  <2>3. seqs[i] = <<>> \o seqs[i]
    BY <1>1
  <2> HIDE DEF h
  <2> QED BY <2>1, <2>2, <2>3
<1>9. \A i \in 0..n : h[i] \in Seq(S)
  <2> DEFINE Fine == {i \in 0..n : h[i] \in Seq(S)}
  <2>1. 0 \in Fine
    BY <1>1
  <2>2. ASSUME NEW i \in 1..n, i - 1 \in Fine PROVE i \in Fine
    <3>1. h[i - 1] \in Seq(S) /\ seqs[i] \in Seq(S)
      BY <2>2, <1>1
    <3>2. h[i] \in Seq(S)
      <4> HIDE DEF h
      <4>1. h[i - 1] \o seqs[i] \in Seq(S)
        BY <3>1, ConcatProperties
      <4> QED BY <4>1, <1>8
    <3> HIDE DEF h
    <3> QED BY <3>2
  <2>3. \A i \in 0..n : i \in Fine
    <3> HIDE DEF Fine, n
    <3> QED BY <1>1, <2>1, <2>2, Counting
  <2> QED BY <2>3
<1>10. h[0] = <<>> /\ FlattenSeq(seqs) = h[n]
  BY <1>1, <1>7
<1> HIDE DEF h
<1>11. h \in [0..n -> Seq(S)]
  BY <1>9 DEF h
<1> QED BY <1>8, <1>10, <1>11 DEF FlatUpTo

\* What FlattenSeq makes of the first lists depends on those alone.
LEMMA FlattenAgree ==
  ASSUME NEW S, NEW s \in Seq(Seq(S)), NEW t \in Seq(Seq(S)), NEW h, NEW g,
         FlatUpTo(h, s), FlatUpTo(g, t),
         Len(s) <= Len(t), \A i \in 1..Len(s) : s[i] = t[i]
  PROVE  h[Len(s)] = g[Len(s)]
<1> DEFINE m == Len(s)
           Good == {i \in 0..m : h[i] = g[i]}
<1>1. m \in Nat
  OBVIOUS
<1>2. 0 \in Good
  BY DEF FlatUpTo
<1>3. ASSUME NEW i \in 1..m, i - 1 \in Good PROVE i \in Good
  <2>1. i \in 1..Len(s) /\ i \in 1..Len(t) /\ i \in 0..m
    BY <1>1
  <2>2. h[i] = h[i - 1] \o s[i] /\ g[i] = g[i - 1] \o t[i]
    BY <2>1, Zenon DEF FlatUpTo
  <2>3. h[i - 1] = g[i - 1] /\ s[i] = t[i]
    BY <1>3, <2>1
  <2>4. h[i] = g[i]
    BY <2>2, <2>3, Zenon
  <2> QED BY <2>1, <2>4
<1>4. m \in Good
  <2> HIDE DEF Good, m
  <2> QED BY <1>1, <1>2, <1>3, CountingTo
<1> QED BY <1>4

\* No lists are flattened to none.
LEMMA FlattenOfNone == FlattenSeq(<<>>) = <<>>
BY DEF FlattenSeq

\* Lists are flattened with one list more.
LEMMA FlattenOfAppend ==
  ASSUME NEW S, NEW s \in Seq(Seq(S)), NEW x \in Seq(S)
  PROVE  FlattenSeq(s) \in Seq(S) /\ FlattenSeq(Append(s, x)) = FlattenSeq(s) \o x
<1> DEFINE t == Append(s, x)
<1>1. t \in Seq(Seq(S)) /\ Len(t) = Len(s) + 1 /\ t[Len(t)] = x /\ \A i \in 1..Len(s) : t[i] = s[i]
  OBVIOUS
<1> HIDE DEF t
<1>2. PICK h \in [0..Len(s) -> Seq(S)] : FlatUpTo(h, s) /\ FlattenSeq(s) = h[Len(s)]
  BY FlattenSteps
<1>3. PICK g \in [0..Len(t) -> Seq(S)] : FlatUpTo(g, t) /\ FlattenSeq(t) = g[Len(t)]
  BY <1>1, FlattenSteps
<1>4. h[Len(s)] = g[Len(s)]
  <2>1. Len(s) <= Len(t) /\ \A i \in 1..Len(s) : s[i] = t[i]
    BY <1>1
  <2>2. FlatUpTo(h, s) /\ FlatUpTo(g, t)
    BY <1>2, <1>3
  <2> QED BY <1>1, <2>1, <2>2, FlattenAgree
<1>5. g[Len(t)] = g[Len(t) - 1] \o t[Len(t)]
  <2>1. Len(t) \in 1..Len(t)
    BY <1>1
  <2> QED BY <1>3, <2>1 DEF FlatUpTo
<1>6. Len(t) - 1 = Len(s) /\ Len(s) \in 0..Len(s)
  BY <1>1
<1>7. FlattenSeq(t) = FlattenSeq(s) \o x
  BY <1>1, <1>2, <1>3, <1>4, <1>5, <1>6
<1>8. FlattenSeq(s) \in Seq(S)
  BY <1>2, <1>6
<1> QED BY <1>7, <1>8 DEF t

\* Lists are flattened to the first one before the others.
LEMMA FlattenOfTail ==
  ASSUME NEW S, NEW s \in Seq(Seq(S)), s # <<>>
  PROVE  FlattenSeq(s) = Head(s) \o FlattenSeq(Tail(s))
<1> DEFINE n == Len(s) - 1
           Good == {i \in 0..n : FlattenSeq(SubSeq(s, 1, i + 1)) = s[1] \o FlattenSeq(SubSeq(s, 2, i + 1))}
<1>1. n \in Nat /\ Len(s) \in Nat /\ 1 \in 1..Len(s) /\ s[1] \in Seq(S)
  OBVIOUS
<1>2. 0 \in Good
  <2>1. SubSeq(s, 1, 1) = Append(<<>>, s[1]) /\ SubSeq(s, 2, 1) = <<>> /\ <<>> \in Seq(Seq(S))
    <3>1. SubSeq(s, 2, 1) = <<>>
      BY SubSeqEmpty
    <3>2. SubSeq(s, 1, 1) = Append(<<>>, s[1])
      <4>1. /\ SubSeq(s, 1, 1) \in Seq(Seq(S)) /\ Len(SubSeq(s, 1, 1)) = 1
            /\ SubSeq(s, 1, 1)[1] = s[1]
        BY <1>1, SubSeqProperties
      <4>2. /\ Append(<<>>, s[1]) \in Seq(Seq(S)) /\ Len(Append(<<>>, s[1])) = 1
            /\ Append(<<>>, s[1])[1] = s[1]
        BY <1>1
      <4> DEFINE a == SubSeq(s, 1, 1)
                 b == Append(<<>>, s[1])
      <4> HIDE DEF a, b
      <4>3. /\ a \in Seq(Seq(S)) /\ b \in Seq(Seq(S)) /\ Len(a) = Len(b)
            /\ \A i \in 1..Len(a) : a[i] = b[i]
        BY <4>1, <4>2 DEF a, b
      <4>4. a = b
        BY <4>3, SeqEqual
      <4> QED BY <4>4 DEF a, b
    <3> QED BY <3>1, <3>2
  <2>2. FlattenSeq(Append(<<>>, s[1])) = FlattenSeq(<<>>) \o s[1]
    BY <1>1, <2>1, FlattenOfAppend
  <2>3. <<>> \o s[1] = s[1] /\ s[1] \o <<>> = s[1]
    BY <1>1
  <2>4. FlattenSeq(SubSeq(s, 1, 1)) = s[1] \o FlattenSeq(SubSeq(s, 2, 1))
    BY <2>1, <2>2, <2>3, FlattenOfNone
  <2>5. 0 \in 0..n /\ 0 + 1 = 1
    BY <1>1
  <2> QED BY <2>4, <2>5
<1>3. ASSUME NEW i \in 1..n, i - 1 \in Good PROVE i \in Good
  <2> DEFINE u == SubSeq(s, 1, i)
             v == SubSeq(s, 2, i)
  <2>1. /\ u \in Seq(Seq(S)) /\ v \in Seq(Seq(S)) /\ s[i + 1] \in Seq(S)
        /\ SubSeq(s, 1, i + 1) = Append(u, s[i + 1])
        /\ SubSeq(s, 2, i + 1) = Append(v, s[i + 1])
    BY <1>1
  <2>2. FlattenSeq(u) = s[1] \o FlattenSeq(v)
    <3>1. (i - 1) + 1 = i
      OBVIOUS
    <3> QED BY <1>3, <3>1
  <2> HIDE DEF u, v
  <2>3. FlattenSeq(Append(u, s[i + 1])) = FlattenSeq(u) \o s[i + 1]
    BY <2>1, FlattenOfAppend
  <2>4. FlattenSeq(v) \in Seq(S) /\ FlattenSeq(Append(v, s[i + 1])) = FlattenSeq(v) \o s[i + 1]
    BY <2>1, FlattenOfAppend
  <2>5. (s[1] \o FlattenSeq(v)) \o s[i + 1] = s[1] \o (FlattenSeq(v) \o s[i + 1])
    <3>1. s[1] \in Seq(S) /\ FlattenSeq(v) \in Seq(S) /\ s[i + 1] \in Seq(S)
      BY <1>1, <2>1, <2>4
    <3> DEFINE a == s[1]
               b == FlattenSeq(v)
               c == s[i + 1]
    <3>2. a \in Seq(S) /\ b \in Seq(S) /\ c \in Seq(S)
      BY <3>1
    <3> HIDE DEF a, b, c
    <3>3. (a \o b) \o c = a \o (b \o c)
      BY <3>2
    <3> QED BY <3>3 DEF a, b, c
  <2>6. FlattenSeq(SubSeq(s, 1, i + 1)) = s[1] \o FlattenSeq(SubSeq(s, 2, i + 1))
    BY <2>1, <2>2, <2>3, <2>4, <2>5
  <2>7. i \in 0..n
    OBVIOUS
  <2> QED BY <2>6, <2>7
<1>4. n \in Good
  <2> HIDE DEF Good, n
  <2> QED BY <1>1, <1>2, <1>3, CountingTo
<1>5. n + 1 = Len(s) /\ SubSeq(s, 1, Len(s)) = s /\ SubSeq(s, 2, Len(s)) = Tail(s) /\ Head(s) = s[1]
  BY <1>1
<1> QED BY <1>4, <1>5

\* The list names all elements of the set, in order.
Sorts(list, m, set, before) ==
  /\ m \in Nat /\ list \in [1..m -> set]
  /\ \A i, j \in 1..m : i < j => <<list[i], list[j]>> \in before
  /\ \A x \in set : \E i \in 1..m : list[i] = x

\* There is one such list.
LEMMA ArrangedIsOnly ==
  ASSUME NEW set, IsFiniteSet(set), NEW before, Orders(before, set),
         NEW m, NEW list, Sorts(list, m, set, before)
  PROVE  Arranged(set, before) = list
<1>0. /\ m \in Nat /\ list \in [1..m -> set]
      /\ \A i, j \in 1..m : i < j => <<list[i], list[j]>> \in before
      /\ \A x \in set : \E i \in 1..m : list[i] = x
  BY DEF Sorts
<1> DEFINE sorted == Arranged(set, before)
           n == Cardinality(set)
<1>1. /\ n \in Nat /\ sorted \in [1..n -> set]
      /\ \A i, j \in 1..n : i < j => <<sorted[i], sorted[j]>> \in before
      /\ \A x \in set : \E i \in 1..n : sorted[i] = x
  BY ArrangedIsSorted
<1> HIDE DEF sorted
<1>2. \A i, j \in 1..m : list[i] = list[j] => i = j
  <2> SUFFICES ASSUME NEW i \in 1..m, NEW j \in 1..m, i < j, list[i] = list[j] PROVE FALSE
    BY <1>0
  <2>1. <<list[i], list[j]>> \in before /\ list[i] \in set
    BY <1>0
  <2> QED BY <2>1 DEF Orders
<1>3. n = m
  BY <1>0, <1>2, ElementsOfList
<1> HIDE DEF n
<1> DEFINE at == [i \in 1..n |-> CHOOSE j \in 1..n : sorted[j] = list[i]]
<1>4. \A i \in 1..n : at[i] \in 1..n /\ sorted[at[i]] = list[i] /\ list[i] \in set
  <2> SUFFICES ASSUME NEW i \in 1..n
               PROVE  at[i] \in 1..n /\ sorted[at[i]] = list[i] /\ list[i] \in set
    OBVIOUS
  <2>1. list[i] \in set
    BY <1>0, <1>3
  <2>2. \E j \in 1..n : sorted[j] = list[i]
    BY <1>1, <2>1
  <2> QED BY <2>1, <2>2
<1>5. at \in [1..n -> 1..n]
  BY <1>4
<1> HIDE DEF at
<1>6. ASSUME NEW i \in 1..n, NEW j \in 1..n, i < j PROVE at[i] < at[j]
  <2>1. /\ at[i] \in 1..n /\ at[j] \in 1..n
        /\ sorted[at[i]] = list[i] /\ sorted[at[j]] = list[j]
        /\ list[i] \in set /\ list[j] \in set
    BY <1>4
  <2>2. <<list[i], list[j]>> \in before
    BY <1>0, <1>3, <1>6
  <2>3. CASE at[j] < at[i]
    <3>1. <<list[j], list[i]>> \in before
      BY <1>1, <2>1, <2>3
    <3>2. <<list[i], list[i]>> \in before
      BY <2>1, <2>2, <3>1 DEF Orders
    <3> QED BY <2>1, <3>2 DEF Orders
  <2>4. CASE at[j] = at[i]
    <3>1. <<list[i], list[i]>> \in before
      BY <2>1, <2>2, <2>4
    <3> QED BY <2>1, <3>1 DEF Orders
  <2> QED BY <2>1, <2>3, <2>4
<1>7. \A i \in 1..n : at[i] = i
  BY <1>1, <1>5, <1>6, IncreasingIsIdentity
<1>8. \A i \in 1..n : sorted[i] = list[i]
  BY <1>4, <1>7
<1>9. sorted = list
  BY <1>0, <1>1, <1>3, <1>8
<1> QED BY <1>9 DEF sorted

\* Numbers ascend in one order.
LEMMA AscendingOrders ==
  ASSUME NEW set, NEW all, set \subseteq all, all \subseteq Int
  PROVE  Orders(Ascending(all), set)
<1>1. \A x, y \in set : <<x, y>> \in Ascending(all) <=> x < y
  BY DEF Ascending
<1>2. \A x \in set : x \in Int
  OBVIOUS
<1> QED BY <1>1, <1>2 DEF Orders

(***************************************************************************)
(* A recursive function over 0..n exists, if its steps stay in a set.      *)
(***************************************************************************)
IsRecursion(f, n, base, F) ==
  f = [i \in 0..n |-> IF i = 0 THEN base ELSE F[<<i, f[i - 1]>>]]

\* A function over 0..n that is defined from its value before exists.
LEMMA RecursionExists ==
  ASSUME NEW V, NEW base \in V, NEW n \in Nat, NEW F \in [(1..n) \X V -> V]
  PROVE  \E f \in [0..n -> V] : IsRecursion(f, n, base, F)
<1> DEFINE Good == {m \in 0..n : \E f \in [0..m -> V] : IsRecursion(f, m, base, F)}
<1>1. 0 \in Good
  <2> DEFINE f == [i \in 0..0 |-> base]
  <2>1. f \in [0..0 -> V] /\ IsRecursion(f, 0, base, F)
    BY DEF IsRecursion
  <2> QED BY <2>1
<1>2. ASSUME NEW m \in 1..n, m - 1 \in Good PROVE m \in Good
  <2>1. PICK g \in [0..(m - 1) -> V] : IsRecursion(g, m - 1, base, F)
    BY <1>2
  <2> DEFINE f == [i \in 0..m |-> IF i = m THEN F[<<m, g[m - 1]>>] ELSE g[i]]
  <2>2. g[m - 1] \in V
    OBVIOUS
  <2>3. f \in [0..m -> V]
    BY <2>2
  <2>4. ASSUME NEW i \in 0..m PROVE f[i] = IF i = 0 THEN base ELSE F[<<i, f[i - 1]>>]
    <3>1. CASE i = m
      <4>1. f[i] = F[<<m, g[m - 1]>>] /\ f[m - 1] = g[m - 1] /\ i # 0
        BY <3>1
      <4> HIDE DEF f
      <4> QED BY <3>1, <4>1
    <3>2. CASE i # m
      <4>1. g[i] = IF i = 0 THEN base ELSE F[<<i, g[i - 1]>>]
        BY <2>1, <3>2 DEF IsRecursion
      <4>2. f[i] = g[i] /\ (i # 0 => f[i - 1] = g[i - 1])
        BY <3>2
      <4> HIDE DEF f
      <4> QED BY <4>1, <4>2
    <3> QED BY <3>1, <3>2
  <2>5. IsRecursion(f, m, base, F)
    <3> HIDE DEF f
    <3> QED BY <2>3, <2>4 DEF IsRecursion
  <2> HIDE DEF f
  <2> QED BY <2>3, <2>5
<1>3. n \in Good
  <2> HIDE DEF Good
  <2> QED BY <1>1, <1>2, CountingTo
<1> QED BY <1>3
=============================================================================
