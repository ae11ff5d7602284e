----------------------- MODULE EmbeddingRequestsProofs -----------------------
(***************************************************************************)
(* Safety of the requests that generate vectors, for every document, every *)
(* limit and any number of chunks.                                         *)
(*                                                                         *)
(* Sums over sequences and filtered sequences are recursive functions.     *)
(* What they compute is shown by induction in the form NatSetInduction: a  *)
(* set that holds 0, and n + 1 with n, holds every number.                 *)
(***************************************************************************)
EXTENDS EmbeddingRequests, FiniteSetTheorems, SequenceTheorems, TLAPS

-----------------------------------------------------------------------------
(* Induction                                                               *)

\* Each set of natural numbers has a least: of the intervals from 0 to one of
\* them, one contains no other.
LEMMA LeastOfSet ==
  ASSUME NEW S, S \subseteq Nat, S # {}
  PROVE  \E n \in S : \A m \in S : n <= m
  <1> DEFINE R == StrictSubsetOrdering(Nat)
             T == {0 .. n : n \in S}
  <1>1. IsWellFoundedOn(R, FiniteSubsetsOf(Nat))
    BY FS_StrictSubsetOrderingWellFounded
  <1>2. T \subseteq FiniteSubsetsOf(Nat) /\ T # {}
    <2>1. \A n \in S : 0 .. n \subseteq Nat
      OBVIOUS
    <2>2. \A n \in S : IsFiniteSet(0 .. n)
      BY FS_Interval
    <2> QED
      BY <2>1, <2>2 DEF FiniteSubsetsOf
  <1>3. PICK t \in T : \A u \in T : <<u, t>> \notin R
    <2> HIDE DEF R, T
    <2> QED
      BY <1>1, <1>2, WFMin
  <1>4. PICK n \in S : t = 0 .. n
    OBVIOUS
  <1>5. ASSUME NEW m \in S, m < n PROVE FALSE
    <2>1. <<0 .. m, 0 .. n>> \notin R
      BY <1>3, <1>4
    <2>2. 0 .. m \subseteq 0 .. n /\ 0 .. m # 0 .. n
      BY <1>5
    <2> QED
      BY <2>1, <2>2 DEF StrictSubsetOrdering
  <1> QED
    BY <1>5

\* Induction over the natural numbers.
LEMMA NatSetInduction ==
  ASSUME NEW S, 0 \in S, \A n \in Nat : n \in S => n + 1 \in S
  PROVE  Nat \subseteq S
  <1> DEFINE U == Nat \ S
  <1> SUFFICES ASSUME U # {} PROVE FALSE
    OBVIOUS
  <1>1. PICK n \in U : \A m \in U : n <= m
    <2>1. U \subseteq Nat
      OBVIOUS
    <2> HIDE DEF U
    <2> QED
      BY <2>1, LeastOfSet
  <1>2. n - 1 \in Nat /\ n = (n - 1) + 1 /\ n - 1 \notin U
    BY <1>1
  <1> QED
    BY <1>2

-----------------------------------------------------------------------------
(* Sums                                                                    *)

\* g holds the sums of the first numbers of f.
IsSum(g, f, n) == g = [k \in 0 .. n |-> IF k = 0 THEN 0 ELSE g[k - 1] + f[k]]

\* f[1] + ... + f[n]
Sum(f, n) == (CHOOSE g : IsSum(g, f, n))[n]

\* There are such sums.
LEMMA SumsExist ==
  ASSUME NEW f, NEW n \in Nat
  PROVE  \E g : IsSum(g, f, n)
  <1> DEFINE S == {m \in Nat : \E g : IsSum(g, f, m)}
  <1>1. 0 \in S
    <2>1. IsSum([k \in 0 .. 0 |-> 0], f, 0)
      BY DEF IsSum
    <2> QED
      BY <2>1
  <1>2. ASSUME NEW m \in Nat, m \in S PROVE m + 1 \in S
    <2>1. PICK g : IsSum(g, f, m)
      BY <1>2
    <2> DEFINE h == [k \in 0 .. m + 1 |-> IF k = m + 1 THEN g[m] + f[m + 1] ELSE g[k]]
    <2>2. IsSum(h, f, m + 1)
      <3>1. ASSUME NEW k \in 0 .. m + 1
            PROVE  h[k] = IF k = 0 THEN 0 ELSE h[k - 1] + f[k]
        <4>1. CASE k = m + 1
          BY <4>1
        <4>2. CASE k \in 0 .. m
          BY <2>1, <4>2 DEF IsSum
        <4> QED
          BY <4>1, <4>2
      <3>2. h = [k \in 0 .. m + 1 |-> h[k]]
        OBVIOUS
      <3> HIDE DEF h
      <3> QED
        BY <3>1, <3>2 DEF IsSum
    <2> QED
      BY <2>2
  <1>3. Nat \subseteq S
    <2> HIDE DEF S
    <2> QED
      BY <1>1, <1>2, NatSetInduction
  <1> QED
    BY <1>3

\* They depend on the numbers only that are summed.
LEMMA SumsAgree ==
  ASSUME NEW f, NEW h, NEW n \in Nat, NEW m \in Nat, NEW F, NEW H,
         IsSum(F, f, n), IsSum(H, h, m),
         NEW p \in Nat, p <= n, p <= m, \A k \in 1 .. p : f[k] = h[k]
  PROVE  F[p] = H[p]
  <1> DEFINE S == {k \in Nat : k <= p => F[k] = H[k]}
  <1>1. 0 \in S
    BY DEF IsSum
  <1>2. ASSUME NEW k \in Nat, k \in S PROVE k + 1 \in S
    <2> SUFFICES ASSUME k + 1 <= p PROVE F[k + 1] = H[k + 1]
      OBVIOUS
    <2>1. F[k] = H[k] /\ f[k + 1] = h[k + 1] /\ (k + 1) - 1 = k /\ k + 1 # 0
      BY <1>2
    <2>2. F[k + 1] = F[k] + f[k + 1]
      BY <2>1 DEF IsSum
    <2>3. H[k + 1] = H[k] + h[k + 1]
      BY <2>1 DEF IsSum
    <2> QED
      BY <2>1, <2>2, <2>3
  <1>3. Nat \subseteq S
    <2> HIDE DEF S
    <2> QED
      BY <1>1, <1>2, NatSetInduction
  <1> QED
    BY <1>3

\* A sum to n is the sum to n - 1 and one number more.
LEMMA SumStep ==
  ASSUME NEW f, NEW n \in Nat
  PROVE  /\ Sum(f, 0) = 0
         /\ n > 0 => Sum(f, n) = Sum(f, n - 1) + f[n]
  <1>1. ASSUME NEW m \in Nat PROVE IsSum(CHOOSE g : IsSum(g, f, m), f, m)
    BY SumsExist, Zenon
  <1>2. Sum(f, 0) = 0
    <2> DEFINE g == CHOOSE g : IsSum(g, f, 0)
    <2>1. IsSum(g, f, 0)
      BY <1>1
    <2>2. g[0] = 0
      <3> HIDE DEF g
      <3> QED
        BY <2>1 DEF IsSum
    <2> QED
      BY <2>2 DEF Sum
  <1>3. ASSUME n > 0 PROVE Sum(f, n) = Sum(f, n - 1) + f[n]
    <2> DEFINE g == CHOOSE g : IsSum(g, f, n)
               h == CHOOSE h : IsSum(h, f, n - 1)
    <2>1. IsSum(g, f, n) /\ n - 1 \in Nat
      BY <1>1, <1>3
    <2>2. IsSum(h, f, n - 1)
      BY <1>1, <2>1
    <2>3. Sum(f, n) = g[n] /\ Sum(f, n - 1) = h[n - 1]
      BY DEF Sum
    <2> HIDE DEF g, h
    <2>4. g[n - 1] = h[n - 1]
      BY <2>1, <2>2, SumsAgree
    <2>5. g[n] = g[n - 1] + f[n]
      BY <1>3, <2>1 DEF IsSum
    <2> QED
      BY <2>3, <2>4, <2>5
  <1> QED
    BY <1>2, <1>3

\* What holds of the numbers is summed up: the type, the order, equality.
LEMMA SumsCompare ==
  ASSUME NEW f, NEW h, NEW n \in Nat,
         \A k \in 1 .. n : f[k] \in Nat /\ h[k] \in Nat /\ f[k] <= h[k]
  PROVE  Sum(f, n) \in Nat /\ Sum(h, n) \in Nat /\ Sum(f, n) <= Sum(h, n)
  <1> DEFINE P(m) == Sum(f, m) \in Nat /\ Sum(h, m) \in Nat /\ Sum(f, m) <= Sum(h, m)
             S == {m \in Nat : m <= n => P(m)}
  <1>1. 0 \in S
    BY SumStep
  <1>2. ASSUME NEW m \in Nat, m \in S PROVE m + 1 \in S
    <2> SUFFICES ASSUME m + 1 <= n PROVE P(m + 1)
      OBVIOUS
    <2>1. P(m) /\ m + 1 \in 1 .. n /\ (m + 1) - 1 = m /\ m + 1 > 0
      BY <1>2
    <2>2. Sum(f, m + 1) = Sum(f, m) + f[m + 1] /\ Sum(h, m + 1) = Sum(h, m) + h[m + 1]
      BY <2>1, SumStep
    <2> QED
      BY <2>1, <2>2
  <1>3. Nat \subseteq S
    <2> HIDE DEF S
    <2> QED
      BY <1>1, <1>2, NatSetInduction
  <1> QED
    BY <1>3

LEMMA SumNat ==
  ASSUME NEW f, NEW n \in Nat, \A k \in 1 .. n : f[k] \in Nat
  PROVE  Sum(f, n) \in Nat
  BY SumsCompare

\* Equal numbers have equal sums.
LEMMA SumSame ==
  ASSUME NEW f, NEW h, NEW n \in Nat, \A k \in 1 .. n : f[k] = h[k]
  PROVE  Sum(f, n) = Sum(h, n)
  <1> DEFINE F == CHOOSE g : IsSum(g, f, n)
             H == CHOOSE g : IsSum(g, h, n)
  <1>1. IsSum(F, f, n) /\ IsSum(H, h, n)
    BY SumsExist, Zenon
  <1>2. Sum(f, n) = F[n] /\ Sum(h, n) = H[n]
    BY DEF Sum
  <1> HIDE DEF F, H
  <1> QED
    BY <1>1, <1>2, SumsAgree

\* If one number changes, the sum changes with it.
LEMMA SumChange ==
  ASSUME NEW f, NEW h, NEW n \in Nat, NEW j \in 1 .. n,
         \A k \in 1 .. n : f[k] \in Nat /\ h[k] \in Nat /\ (k # j => f[k] = h[k])
  PROVE  Sum(h, n) + f[j] = Sum(f, n) + h[j]
  <1> DEFINE P(m) == /\ Sum(f, m) \in Nat /\ Sum(h, m) \in Nat
                     /\ IF m < j THEN Sum(h, m) = Sum(f, m)
                                 ELSE Sum(h, m) + f[j] = Sum(f, m) + h[j]
             S == {m \in Nat : m <= n => P(m)}
  <1>1. 0 \in S
    BY SumStep
  <1>2. ASSUME NEW m \in Nat, m \in S PROVE m + 1 \in S
    <2> SUFFICES ASSUME m + 1 <= n PROVE P(m + 1)
      OBVIOUS
    <2>1. P(m) /\ m + 1 \in 1 .. n /\ (m + 1) - 1 = m /\ m + 1 > 0
      BY <1>2
    <2>2. Sum(f, m + 1) = Sum(f, m) + f[m + 1] /\ Sum(h, m + 1) = Sum(h, m) + h[m + 1]
      BY <2>1, SumStep
    <2> QED
      BY <2>1, <2>2
  <1>3. Nat \subseteq S
    <2> HIDE DEF S
    <2> QED
      BY <1>1, <1>2, NatSetInduction
  <1> QED
    BY <1>3

\* The first n numbers of h are those of f that follow the first p.
Follows(h, n, f, p) == \A k \in 1 .. n : f[k + p] \in Nat /\ h[k] = f[k + p]

\* A sum is that of the first numbers and that of the others.
LEMMA SumSplit ==
  ASSUME NEW f, NEW n \in Nat, NEW h, NEW p \in Nat,
         Follows(h, n, f, p), Sum(f, p) \in Nat
  PROVE  Sum(h, n) \in Nat /\ Sum(f, n + p) = Sum(f, p) + Sum(h, n)
  <1> DEFINE P(m) == Sum(h, m) \in Nat /\ Sum(f, m + p) = Sum(f, p) + Sum(h, m)
             S == {m \in Nat : m <= n => P(m)}
  <1>1. 0 \in S
    <2>1. Sum(h, 0) = 0 /\ 0 + p = p
      BY SumStep
    <2> QED
      BY <2>1
  <1>2. ASSUME NEW m \in Nat, m \in S PROVE m + 1 \in S
    <2> SUFFICES ASSUME m + 1 <= n PROVE P(m + 1)
      OBVIOUS
    <2>1. /\ P(m) /\ m + 1 \in 1 .. n /\ (m + 1) - 1 = m /\ m + 1 > 0
          /\ m + 1 + p \in Nat /\ m + 1 + p > 0 /\ (m + 1 + p) - 1 = m + p
      BY <1>2
    <2>2. Sum(f, m + 1 + p) = Sum(f, m + p) + f[m + 1 + p] /\ Sum(h, m + 1) = Sum(h, m) + h[m + 1]
      BY <2>1, SumStep DEF Follows
    <2> QED
      BY <2>1, <2>2 DEF Follows
  <1>3. Nat \subseteq S
    <2> HIDE DEF S
    <2> QED
      BY <1>1, <1>2, NatSetInduction
  <1> QED
    BY <1>3

\* Numbers up to B, and only those in S not zero, sum up to B for each in S.
LEMMA SumBound ==
  ASSUME NEW f, NEW n \in Nat, NEW S, NEW B \in Nat,
         \A k \in 1 .. n : f[k] \in Nat /\ f[k] <= B /\ (k \notin S => f[k] = 0)
  PROVE  /\ Cardinality(S \cap (1 .. n)) \in Nat
         /\ Sum(f, n) <= Cardinality(S \cap (1 .. n)) * B
  <1> DEFINE C(m) == Cardinality(S \cap (1 .. m))
             P(m) == Sum(f, m) \in Nat /\ C(m) \in Nat /\ Sum(f, m) <= C(m) * B
             N == {m \in Nat : m <= n => P(m)}
  <1>0. \A m \in Nat : IsFiniteSet(S \cap (1 .. m))
    <2>1. \A m \in Nat : IsFiniteSet(1 .. m)
      BY FS_Interval
    <2>2. \A m \in Nat : S \cap (1 .. m) \subseteq 1 .. m
      OBVIOUS
    <2> QED
      BY <2>1, <2>2, FS_Subset
  <1>1. 0 \in N
    <2>1. S \cap (1 .. 0) = {}
      OBVIOUS
    <2>2. C(0) = 0
      BY <2>1, FS_EmptySet
    <2> QED
      BY <2>2, SumStep
  <1>2. ASSUME NEW m \in Nat, m \in N PROVE m + 1 \in N
    <2> SUFFICES ASSUME m + 1 <= n PROVE P(m + 1)
      OBVIOUS
    <2>1. P(m) /\ m + 1 \in 1 .. n /\ (m + 1) - 1 = m /\ m + 1 > 0
      BY <1>2
    <2>2. Sum(f, m + 1) = Sum(f, m) + f[m + 1]
      BY <2>1, SumStep
    <2>3. CASE m + 1 \in S
      <3>1. S \cap (1 .. m + 1) = (S \cap (1 .. m)) \cup {m + 1} /\ m + 1 \notin S \cap (1 .. m)
        BY <2>3
      <3>2. C(m + 1) = C(m) + 1
        BY <1>0, <3>1, FS_AddElement
      <3>3. (C(m) + 1) * B = C(m) * B + B
        BY <2>1
      <3> HIDE DEF C
      <3>4. C(m) * B \in Nat
        BY <2>1
      <3> QED
        BY <2>1, <2>2, <3>2, <3>3, <3>4
    <2>4. CASE m + 1 \notin S
      <3>1. S \cap (1 .. m + 1) = S \cap (1 .. m)
        BY <2>4
      <3>2. C(m + 1) = C(m) /\ f[m + 1] = 0
        BY <2>1, <2>4, <3>1
      <3> HIDE DEF C
      <3>3. C(m) * B \in Nat
        BY <2>1
      <3> QED
        BY <2>1, <2>2, <3>2, <3>3
    <2> QED
      BY <2>3, <2>4
  <1>3. Nat \subseteq N
    <2> HIDE DEF N
    <2> QED
      BY <1>1, <1>2, NatSetInduction
  <1> QED
    BY <1>3

-----------------------------------------------------------------------------
(* Sequences                                                               *)

\* One element more.
LEMMA AppendOf ==
  ASSUME NEW T, NEW s \in Seq(T), NEW e \in T
  PROVE  /\ Append(s, e) \in Seq(T)
         /\ Len(Append(s, e)) = Len(s) + 1
         /\ \A i \in 1 .. Len(s) : Append(s, e)[i] = s[i]
         /\ Append(s, e)[Len(s) + 1] = e
  OBVIOUS

\* The elements after the first p.
LEMMA SuffixOf ==
  ASSUME NEW T, NEW s \in Seq(T), NEW p \in 0 .. Len(s)
  PROVE  /\ SubSeq(s, p + 1, Len(s)) \in Seq(T)
         /\ Len(SubSeq(s, p + 1, Len(s))) = Len(s) - p
         /\ \A i \in 1 .. Len(s) - p : SubSeq(s, p + 1, Len(s))[i] = s[p + i]
  <1>1. Len(s) \in Nat /\ p + 1 \in Int /\ Len(s) \in Int /\ \A i \in p + 1 .. Len(s) : s[i] \in T
    OBVIOUS
  <1>2. /\ SubSeq(s, p + 1, Len(s)) \in Seq(T)
        /\ Len(SubSeq(s, p + 1, Len(s))) = IF p + 1 <= Len(s) THEN Len(s) - (p + 1) + 1 ELSE 0
        /\ \A i \in 1 .. Len(s) - (p + 1) + 1 : SubSeq(s, p + 1, Len(s))[i] = s[(p + 1) + i - 1]
    BY ONLY <1>1, SubSeqProperties
  <1> QED
    BY <1>1, <1>2

-----------------------------------------------------------------------------
(* Sequences without some of their elements                                *)

\* kept[k] is what is left of the first k elements.
IsKept(kept, s, S) ==
  kept = [k \in 0 .. Len(s) |->
            IF k = 0 THEN <<>> ELSE IF s[k] \in S THEN Append(kept[k - 1], s[k]) ELSE kept[k - 1]]

\* Those() is the last step of such a function.
LEMMA ThoseIsKept ==
  ASSUME NEW T, NEW s \in Seq(T), NEW S
  PROVE  \E kept : IsKept(kept, s, S) /\ Those(s, S) = kept[Len(s)]
  <1> DEFINE Step(g, k) == IF k = 0 THEN <<>> ELSE IF s[k] \in S THEN Append(g[k - 1], s[k]) ELSE g[k - 1]
             Is(g, m) == g = [k \in 0 .. m |-> Step(g, k)]
             N == {m \in Nat : m <= Len(s) => \E g : Is(g, m)}
  <1>0. Len(s) \in Nat
    OBVIOUS
  <1>1. 0 \in N
    <2>1. Is([k \in 0 .. 0 |-> <<>>], 0)
      OBVIOUS
    <2> QED
      BY <2>1
  <1>2. ASSUME NEW m \in Nat, m \in N PROVE m + 1 \in N
    <2> SUFFICES ASSUME m + 1 <= Len(s) PROVE \E g : Is(g, m + 1)
      BY SMTT(40)
    <2>1. PICK g : Is(g, m)
      <3> HIDE DEF Is
      <3> QED
        BY <1>0, <1>2
    <2> DEFINE h == [k \in 0 .. m + 1 |-> IF k = m + 1 THEN Step(g, m + 1) ELSE g[k]]
    <2>2. ASSUME NEW k \in 0 .. m + 1 PROVE h[k] = Step(h, k)
      <3>1. CASE k = m + 1
        <4>1. h[k] = Step(g, m + 1) /\ h[k - 1] = g[(m + 1) - 1]
          BY <3>1
        <4> HIDE DEF h
        <4> QED
          BY <3>1, <4>1
      <3>2. CASE k \in 0 .. m
        <4>1. h[k] = g[k] /\ (k # 0 => h[k - 1] = g[k - 1])
          BY <3>2
        <4>2. g[k] = Step(g, k)
          BY <2>1, <3>2
        <4> HIDE DEF h
        <4> QED
          BY <3>2, <4>1, <4>2
      <3> QED
        BY <3>1, <3>2
    <2>3. h = [k \in 0 .. m + 1 |-> h[k]]
      OBVIOUS
    <2> HIDE DEF h
    <2>4. Is(h, m + 1)
      <3> HIDE DEF Step
      <3> QED
        BY <2>2, <2>3
    <2> QED
      BY <2>4
  <1>3. \E g : Is(g, Len(s))
    <2>1. Nat \subseteq N
      <3> HIDE DEF N
      <3> QED
        BY <1>1, <1>2, NatSetInduction
    <2>2. Len(s) \in N
      BY <1>0, <2>1, Zenon
    <2>3. Len(s) <= Len(s)
      BY <1>0
    <2> HIDE DEF Is
    <2> QED
      BY <2>2, <2>3
  <1> DEFINE g == CHOOSE g : Is(g, Len(s))
  <1>4. Is(g, Len(s))
    BY <1>3, Zenon
  <1>5. Those(s, S) = g[Len(s)]
    BY SMTT(40) DEF Those
  <1>6. IsKept(g, s, S)
    BY <1>4 DEF IsKept
  <1> QED
    BY <1>5, <1>6

LEMMA KeptStep ==
  ASSUME NEW g, NEW T, NEW s \in Seq(T), NEW S, IsKept(g, s, S)
  PROVE  /\ g[0] = <<>>
         /\ \A m \in Nat : m + 1 <= Len(s) =>
              g[m + 1] = IF s[m + 1] \in S THEN Append(g[m], s[m + 1]) ELSE g[m]
  <1>0. Len(s) \in Nat
    OBVIOUS
  <1>1. \A k \in 0 .. Len(s) :
          g[k] = IF k = 0 THEN <<>> ELSE IF s[k] \in S THEN Append(g[k - 1], s[k]) ELSE g[k - 1]
    BY Zenon DEF IsKept
  <1>2. 0 \in 0 .. Len(s)
    BY <1>0
  <1>3. ASSUME NEW m \in Nat, m + 1 <= Len(s)
        PROVE  m + 1 \in 0 .. Len(s) /\ m + 1 # 0 /\ (m + 1) - 1 = m
    BY <1>0, <1>3
  <1> QED
    BY <1>1, <1>2, <1>3, Zenon

\* What is left comes from s, is in S, and is all of that; nothing doubles.
LEMMA ThoseAre ==
  ASSUME NEW T, NEW s \in Seq(T), NEW S
  PROVE  /\ Those(s, S) \in Seq(T)
         /\ Range(Those(s, S)) = Range(s) \cap S
         /\ IsInjective(s) => IsInjective(Those(s, S))
  <1>1. PICK g : IsKept(g, s, S) /\ Those(s, S) = g[Len(s)]
    BY ThoseIsKept
  <1> DEFINE P(m) == /\ g[m] \in Seq(T)
                     /\ \A i \in 1 .. Len(g[m]) : \E k \in 1 .. m : g[m][i] = s[k] /\ s[k] \in S
                     /\ \A k \in 1 .. m : s[k] \in S => \E i \in 1 .. Len(g[m]) : g[m][i] = s[k]
                     /\ IsInjective(s) => \A i, j \in 1 .. Len(g[m]) : g[m][i] = g[m][j] => i = j
             N == {m \in Nat : m <= Len(s) => P(m)}
  <1>0. Len(s) \in Nat /\ DOMAIN s = 1 .. Len(s)
    OBVIOUS
  <1>2. 0 \in N
    <2>1. g[0] = <<>>
      BY <1>1, KeptStep
    <2>2. g[0] \in Seq(T) /\ Len(g[0]) = 0
      BY <2>1, EmptySeq
    <2> QED
      BY <1>0, <2>2
  <1>3. ASSUME NEW m \in Nat, m \in N PROVE m + 1 \in N
    <2> SUFFICES ASSUME m + 1 <= Len(s) PROVE P(m + 1)
      OBVIOUS
    <2>1. P(m) /\ m + 1 \in 1 .. Len(s) /\ s[m + 1] \in T
      <3>1. m <= Len(s) /\ m + 1 \in 1 .. Len(s)
        BY <1>0
      <3>2. P(m)
        BY <1>3, <3>1
      <3> HIDE DEF P
      <3> QED
        BY <1>0, <3>1, <3>2
    <2>2. g[m + 1] = IF s[m + 1] \in S THEN Append(g[m], s[m + 1]) ELSE g[m]
      BY <1>1, KeptStep
    <2> DEFINE h == g[m]
    <2>3. CASE s[m + 1] \notin S
      <3>1. g[m + 1] = h
        BY <2>2, <2>3
      <3> HIDE DEF h
      <3>2. \A k \in 1 .. m + 1 : k \in 1 .. m \/ k = m + 1
        OBVIOUS
      <3>3. \A k \in 1 .. m : k \in 1 .. m + 1
        OBVIOUS
      <3>4. /\ h \in Seq(T)
            /\ \A i \in 1 .. Len(h) : \E k \in 1 .. m : h[i] = s[k] /\ s[k] \in S
            /\ \A k \in 1 .. m : s[k] \in S => \E i \in 1 .. Len(h) : h[i] = s[k]
            /\ IsInjective(s) => \A i, j \in 1 .. Len(h) : h[i] = h[j] => i = j
        BY <2>1 DEF h
      <3> QED
        BY <2>3, <3>1, <3>2, <3>3, <3>4, Zenon
    <2>4. CASE s[m + 1] \in S
      <3>1. g[m + 1] = Append(h, s[m + 1])
        BY <2>2, <2>4
      <3>2. /\ h \in Seq(T)
            /\ \A i \in 1 .. Len(h) : \E k \in 1 .. m : h[i] = s[k] /\ s[k] \in S
            /\ \A k \in 1 .. m : s[k] \in S => \E i \in 1 .. Len(h) : h[i] = s[k]
            /\ IsInjective(s) => \A i, j \in 1 .. Len(h) : h[i] = h[j] => i = j
        BY <2>1
      <3> HIDE DEF h
      <3> DEFINE a == Append(h, s[m + 1])
      <3>3. /\ a \in Seq(T) /\ Len(a) = Len(h) + 1 /\ Len(h) \in Nat
            /\ \A i \in 1 .. Len(h) : a[i] = h[i]
            /\ a[Len(h) + 1] = s[m + 1]
        BY <2>1, <3>2, AppendOf
      <3> HIDE DEF a
      <3>4. \A i \in 1 .. Len(a) : \E k \in 1 .. m + 1 : a[i] = s[k] /\ s[k] \in S
        <4> TAKE i \in 1 .. Len(a)
        <4>1. CASE i = Len(h) + 1
          BY <2>4, <3>3, <4>1
        <4>2. CASE i \in 1 .. Len(h)
          <5>1. PICK k \in 1 .. m : h[i] = s[k] /\ s[k] \in S
            BY <3>2, <4>2
          <5>2. k \in 1 .. m + 1
            OBVIOUS
          <5> QED
            BY <3>3, <4>2, <5>1, <5>2
        <4>3. i = Len(h) + 1 \/ i \in 1 .. Len(h)
          BY <3>3
        <4> QED
          BY <4>1, <4>2, <4>3
      <3>5. \A k \in 1 .. m + 1 : s[k] \in S => \E i \in 1 .. Len(a) : a[i] = s[k]
        <4> SUFFICES ASSUME NEW k \in 1 .. m + 1, s[k] \in S PROVE \E i \in 1 .. Len(a) : a[i] = s[k]
          OBVIOUS
        <4>1. CASE k = m + 1
          BY <3>3, <4>1
        <4>2. CASE k \in 1 .. m
          <5>1. PICK i \in 1 .. Len(h) : h[i] = s[k]
            BY <3>2, <4>2
          <5>2. i \in 1 .. Len(a)
            BY <3>3
          <5> QED
            BY <3>3, <5>1, <5>2
        <4> QED
          BY <4>1, <4>2
      <3>6. ASSUME IsInjective(s), NEW i \in 1 .. Len(a), NEW j \in 1 .. Len(a), a[i] = a[j]
            PROVE  i = j
        <4>1. ASSUME NEW l \in 1 .. Len(h) PROVE h[l] # s[m + 1]
          <5>1. PICK k \in 1 .. m : h[l] = s[k]
            BY <3>2
          <5>2. k # m + 1 /\ k \in DOMAIN s /\ m + 1 \in DOMAIN s
            BY <1>0, <2>1
          <5> QED
            BY <3>6, <5>1, <5>2 DEF IsInjective
        <4> QED
          BY <3>2, <3>3, <3>6, <4>1, SMTT(40)
      <3> QED
        BY <3>1, <3>3, <3>4, <3>5, <3>6, ZenonT(60) DEF a
    <2> QED
      BY <2>3, <2>4
  <1>4. P(Len(s))
    <2>1. Nat \subseteq N
      <3> HIDE DEF N
      <3> QED
        BY <1>2, <1>3, NatSetInduction
    <2>2. Len(s) \in N
      BY <1>0, <2>1, Zenon
    <2>3. Len(s) <= Len(s)
      BY <1>0
    <2> HIDE DEF P
    <2> QED
      BY <2>2, <2>3
  <1> DEFINE t == Those(s, S)
  <1>5. /\ t \in Seq(T)
        /\ \A i \in 1 .. Len(t) : \E k \in 1 .. Len(s) : t[i] = s[k] /\ s[k] \in S
        /\ \A k \in 1 .. Len(s) : s[k] \in S => \E i \in 1 .. Len(t) : t[i] = s[k]
        /\ IsInjective(s) => \A i, j \in 1 .. Len(t) : t[i] = t[j] => i = j
    BY <1>1, <1>4
  <1> HIDE DEF t
  <1>6. DOMAIN t = 1 .. Len(t)
    BY <1>5
  <1>7. Range(t) = Range(s) \cap S
    <2>1. ASSUME NEW x \in Range(t) PROVE x \in Range(s) \cap S
      <3>1. PICK i \in 1 .. Len(t) : x = t[i]
        BY <1>6 DEF Range
      <3>2. PICK k \in 1 .. Len(s) : t[i] = s[k] /\ s[k] \in S
        BY <1>5, <3>1
      <3> QED
        BY <1>0, <3>1, <3>2 DEF Range
    <2>2. ASSUME NEW x \in Range(s) \cap S PROVE x \in Range(t)
      <3>1. PICK k \in 1 .. Len(s) : x = s[k]
        BY <1>0 DEF Range
      <3>2. PICK i \in 1 .. Len(t) : t[i] = s[k]
        BY <1>5, <3>1
      <3> QED
        BY <1>6, <3>1, <3>2 DEF Range
    <2> QED
      BY <2>1, <2>2
  <1>8. IsInjective(s) => IsInjective(t)
    BY <1>5, <1>6 DEF IsInjective
  <1> QED
    BY <1>5, <1>7, <1>8 DEF t

\* If all that is left are the last elements, it is the sequence of these.
LEMMA ThoseLast ==
  ASSUME NEW T, NEW s \in Seq(T), NEW S, NEW p \in 0 .. Len(s),
         \A k \in 1 .. Len(s) : s[k] \in S <=> k > p
  PROVE  Those(s, S) = SubSeq(s, p + 1, Len(s))
  <1>1. PICK g : IsKept(g, s, S) /\ Those(s, S) = g[Len(s)]
    BY ThoseIsKept
  <1> DEFINE P(m) == /\ g[m] \in Seq(T) /\ Len(g[m]) = IF m <= p THEN 0 ELSE m - p
                     /\ \A i \in 1 .. Len(g[m]) : g[m][i] = s[p + i]
             N == {m \in Nat : m <= Len(s) => P(m)}
  <1>0. Len(s) \in Nat /\ DOMAIN s = 1 .. Len(s) /\ p \in Nat /\ p <= Len(s)
    OBVIOUS
  <1>2. 0 \in N
    <2>1. g[0] = <<>>
      BY <1>1, KeptStep
    <2>2. g[0] \in Seq(T) /\ Len(g[0]) = 0
      BY <2>1, EmptySeq
    <2> QED
      BY <1>0, <2>2
  <1>3. ASSUME NEW m \in Nat, m \in N PROVE m + 1 \in N
    <2> SUFFICES ASSUME m + 1 <= Len(s) PROVE P(m + 1)
      BY SMTT(40)
    <2>1. P(m) /\ m + 1 \in 1 .. Len(s) /\ s[m + 1] \in T
      <3>1. m <= Len(s) /\ m + 1 \in 1 .. Len(s)
        BY <1>0
      <3>2. P(m)
        BY <1>3, <3>1
      <3> HIDE DEF P
      <3> QED
        BY <1>0, <3>1, <3>2
    <2>2. g[m + 1] = IF s[m + 1] \in S THEN Append(g[m], s[m + 1]) ELSE g[m]
      BY <1>1, KeptStep
    <2>3. CASE m + 1 <= p
      BY <1>0, <2>1, <2>2, <2>3
    <2>4. CASE m + 1 > p
      <3> DEFINE h == g[m]
                 a == Append(h, s[m + 1])
      <3>1. g[m + 1] = a
        BY <1>0, <2>1, <2>2, <2>4
      <3>2. h \in Seq(T) /\ Len(h) = m - p /\ \A i \in 1 .. Len(h) : h[i] = s[p + i]
        BY <1>0, <2>1, <2>4
      <3> HIDE DEF h
      <3>3. /\ a \in Seq(T) /\ Len(a) = Len(h) + 1
            /\ \A i \in 1 .. Len(h) : a[i] = h[i]
            /\ a[Len(h) + 1] = s[m + 1]
        BY <2>1, <3>2, AppendOf
      <3> HIDE DEF a
      <3>4. \A i \in 1 .. Len(a) : i \in 1 .. Len(h) \/ (i = Len(h) + 1 /\ p + i = m + 1)
        BY <1>0, <3>2, <3>3
      <3>5. \A i \in 1 .. Len(a) : a[i] = s[p + i]
        BY <3>2, <3>3, <3>4
      <3> QED
        BY <1>0, <2>4, <3>1, <3>2, <3>3, <3>5
    <2> QED
      BY <1>0, <2>3, <2>4
  <1>4. P(Len(s))
    <2>1. Nat \subseteq N
      <3> HIDE DEF N
      <3> QED
        BY <1>2, <1>3, NatSetInduction
    <2>2. Len(s) \in N
      BY <1>0, <2>1, Zenon
    <2>3. Len(s) <= Len(s)
      BY <1>0
    <2> HIDE DEF P
    <2> QED
      BY <2>2, <2>3
  <1> DEFINE t == Those(s, S)
             u == SubSeq(s, p + 1, Len(s))
  <1>5. t \in Seq(T) /\ Len(t) = Len(s) - p /\ \A i \in 1 .. Len(t) : t[i] = s[p + i]
    <2>1. /\ t \in Seq(T) /\ Len(t) = IF Len(s) <= p THEN 0 ELSE Len(s) - p
          /\ \A i \in 1 .. Len(t) : t[i] = s[p + i]
      BY <1>1, <1>4
    <2>2. Len(s) <= p => Len(s) - p = 0
      <3>1. Len(s) \in Nat /\ p \in Nat /\ p <= Len(s)
        BY SMTT(40)
      <3> QED
        BY ONLY <3>1
    <2> HIDE DEF t
    <2> QED
      BY <2>1, <2>2
  <1>6. u \in Seq(T) /\ Len(u) = Len(s) - p /\ \A i \in 1 .. Len(u) : u[i] = s[p + i]
    BY <1>0, SuffixOf
  <1> HIDE DEF t, u
  <1>7. t = u
    BY <1>5, <1>6
  <1> QED
    BY <1>7 DEF t, u

\* If all that is left are the first elements, it is the sequence of these.
LEMMA ThoseFirst ==
  ASSUME NEW T, NEW s \in Seq(T), NEW S, NEW p \in 0 .. Len(s),
         \A k \in 1 .. Len(s) : s[k] \in S <=> k <= p
  PROVE  /\ Those(s, S) \in Seq(T) /\ Len(Those(s, S)) = p
         /\ \A i \in 1 .. p : Those(s, S)[i] = s[i]
  <1>1. PICK g : IsKept(g, s, S) /\ Those(s, S) = g[Len(s)]
    BY ThoseIsKept
  <1> DEFINE P(m) == /\ g[m] \in Seq(T) /\ Len(g[m]) = IF m <= p THEN m ELSE p
                     /\ \A i \in 1 .. Len(g[m]) : g[m][i] = s[i]
             N == {m \in Nat : m <= Len(s) => P(m)}
  <1>0. Len(s) \in Nat /\ DOMAIN s = 1 .. Len(s) /\ p \in Nat /\ p <= Len(s)
    OBVIOUS
  <1>2. 0 \in N
    <2>1. g[0] = <<>>
      BY <1>1, KeptStep
    <2>2. g[0] \in Seq(T) /\ Len(g[0]) = 0
      BY <2>1, EmptySeq
    <2> QED
      BY <1>0, <2>2
  <1>3. ASSUME NEW m \in Nat, m \in N PROVE m + 1 \in N
    <2> SUFFICES ASSUME m + 1 <= Len(s) PROVE P(m + 1)
      OBVIOUS
    <2>1. P(m) /\ m + 1 \in 1 .. Len(s) /\ s[m + 1] \in T
      <3>1. m <= Len(s) /\ m + 1 \in 1 .. Len(s)
        BY <1>0
      <3>2. P(m)
        BY <1>3, <3>1
      <3> HIDE DEF P
      <3> QED
        BY <1>0, <3>1, <3>2
    <2>2. g[m + 1] = IF s[m + 1] \in S THEN Append(g[m], s[m + 1]) ELSE g[m]
      BY <1>1, KeptStep
    <2>3. CASE m + 1 > p
      <3>1. g[m + 1] = g[m]
        BY <1>0, <2>1, <2>2, <2>3
      <3>2. Len(g[m]) = p
        BY <1>0, <2>1, <2>3
      <3> QED
        BY <1>0, <2>1, <2>3, <3>1, <3>2
    <2>4. CASE m + 1 <= p
      <3> DEFINE h == g[m]
                 a == Append(h, s[m + 1])
      <3>1. g[m + 1] = a
        BY <1>0, <2>1, <2>2, <2>4
      <3>2. h \in Seq(T) /\ Len(h) = m /\ \A i \in 1 .. Len(h) : h[i] = s[i]
        BY <1>0, <2>1, <2>4
      <3> HIDE DEF h
      <3>3. /\ a \in Seq(T) /\ Len(a) = Len(h) + 1
            /\ \A i \in 1 .. Len(h) : a[i] = h[i]
            /\ a[Len(h) + 1] = s[m + 1]
        BY <2>1, <3>2, AppendOf
      <3> HIDE DEF a
      <3>4. \A i \in 1 .. Len(a) : i \in 1 .. Len(h) \/ i = m + 1
        BY <1>0, <3>2, <3>3
      <3>5. \A i \in 1 .. Len(a) : a[i] = s[i]
        BY <3>2, <3>3, <3>4
      <3> QED
        BY <1>0, <2>4, <3>1, <3>2, <3>3, <3>5
    <2> QED
      BY <1>0, <2>3, <2>4
  <1>4. P(Len(s))
    <2>1. Nat \subseteq N
      <3> HIDE DEF N
      <3> QED
        BY <1>2, <1>3, NatSetInduction
    <2>2. Len(s) \in N
      BY <1>0, <2>1, Zenon
    <2>3. Len(s) <= Len(s)
      BY <1>0
    <2> HIDE DEF P
    <2> QED
      BY <2>2, <2>3
  <1>5. Len(s) <= p => Len(s) = p
    <2>1. Len(s) \in Nat /\ p \in Nat /\ p <= Len(s)
      OBVIOUS
    <2> QED
      BY ONLY <2>1
  <1> QED
    BY <1>1, <1>4, <1>5

-----------------------------------------------------------------------------
(* What requests cost                                                      *)

\* What a request costs by its tokens.
Costings == [Nat -> Nat]

LEMMA CostingTyped ==
  ASSUME NEW cost \in Costings, NEW t \in Nat
  PROVE  cost[t] \in Nat
  BY DEF Costings

\* What each request of s costs, if it is no older than v.
Costs(s, cost, v) == [k \in 1 .. Len(s) |-> IF s[k].age <= v THEN cost[s[k].tokens] ELSE 0]

Young(s, cost, v) == Sum(Costs(s, cost, v), Len(s))

\* A request costs its tokens, or one request.
ByTokens == [t \in Nat |-> t]
ByRequest == [t \in Nat |-> 1]

LEMMA LimitsTyped ==
  /\ Rpm \in Nat /\ Rpm > 0 /\ Tpm \in Nat /\ Tpm > 0 /\ Window \in Nat /\ Window > 0
  /\ Concurrency \in Nat /\ Concurrency > 0 /\ Permits \in Nat /\ Permits > 0
  /\ Budget \in Nat /\ Budget > 0
  BY RequestsAssumption

LEMMA RequestTyped ==
  ASSUME NEW r \in Requests
  PROVE  r.age \in Nat /\ r.age <= Window /\ r.tokens \in Nat
  BY LimitsTyped DEF Requests

LEMMA CostsTyped ==
  ASSUME NEW s \in Seq(Requests), NEW cost \in Costings, NEW v \in Int
  PROVE  /\ Len(s) \in Nat
         /\ \A k \in 1 .. Len(s) :
              /\ s[k].age \in Nat /\ s[k].tokens \in Nat /\ cost[s[k].tokens] \in Nat
              /\ Costs(s, cost, v)[k] = IF s[k].age <= v THEN cost[s[k].tokens] ELSE 0
              /\ Costs(s, cost, v)[k] \in Nat
  <1>1. Len(s) \in Nat /\ \A k \in 1 .. Len(s) : s[k] \in Requests
    OBVIOUS
  <1>2. \A r \in Requests : r.age \in Nat /\ r.tokens \in Nat
    BY RequestTyped
  <1>3. \A k \in 1 .. Len(s) : Costs(s, cost, v)[k] = IF s[k].age <= v THEN cost[s[k].tokens] ELSE 0
    BY DEF Costs
  <1>4. \A k \in 1 .. Len(s) : cost[s[k].tokens] \in Nat
    BY <1>1, <1>2, CostingTyped
  <1> QED
    BY <1>1, <1>2, <1>3, <1>4

\* Of more requests the costs are higher.
LEMMA YoungGrows ==
  ASSUME NEW s \in Seq(Requests), NEW cost \in Costings, NEW v \in Int, NEW w \in Int, v <= w
  PROVE  Young(s, cost, v) \in Nat /\ Young(s, cost, v) <= Young(s, cost, w)
  <1>1. /\ Len(s) \in Nat
        /\ \A k \in 1 .. Len(s) :
             /\ s[k].age \in Nat /\ cost[s[k].tokens] \in Nat
             /\ Costs(s, cost, v)[k] = IF s[k].age <= v THEN cost[s[k].tokens] ELSE 0
             /\ Costs(s, cost, w)[k] = IF s[k].age <= w THEN cost[s[k].tokens] ELSE 0
    BY CostsTyped
  <1>2. \A k \in 1 .. Len(s) : /\ Costs(s, cost, v)[k] \in Nat /\ Costs(s, cost, w)[k] \in Nat
                               /\ Costs(s, cost, v)[k] <= Costs(s, cost, w)[k]
    <2> TAKE k \in 1 .. Len(s)
    <2>1. s[k].age \in Int /\ cost[s[k].tokens] \in Nat
      BY <1>1
    <2>2. s[k].age <= v => s[k].age <= w
      BY <2>1
    <2> QED
      BY <1>1, <2>1, <2>2
  <1> QED
    BY <1>1, <1>2, SumsCompare DEF Young

\* The costs of one request more.
LEMMA YoungAppend ==
  ASSUME NEW s \in Seq(Requests), NEW e \in Requests, NEW cost \in Costings, NEW v \in Int
  PROVE  Young(Append(s, e), cost, v)
           = Young(s, cost, v) + IF e.age <= v THEN cost[e.tokens] ELSE 0
  <1> DEFINE a == Append(s, e)
             f == Costs(s, cost, v)
             h == Costs(a, cost, v)
             n == Len(s)
  <1>1. a \in Seq(Requests) /\ Len(a) = n + 1 /\ (\A k \in 1 .. n : a[k] = s[k]) /\ a[n + 1] = e
    BY AppendOf
  <1>2. n \in Nat /\ n + 1 \in Nat /\ n + 1 > 0 /\ (n + 1) - 1 = n /\ n + 1 \in 1 .. n + 1
    OBVIOUS
  <1>3. \A k \in 1 .. n : k \in 1 .. n + 1
    BY <1>2
  <1> HIDE DEF a
  <1>4. h[n + 1] = IF e.age <= v THEN cost[e.tokens] ELSE 0
    BY <1>1, <1>2 DEF Costs
  <1>5. \A k \in 1 .. n : f[k] = h[k]
    BY <1>1, <1>3 DEF Costs
  <1>6. Young(a, cost, v) = Sum(h, n + 1)
    BY <1>1 DEF Young
  <1>7. Young(s, cost, v) = Sum(f, n)
    BY DEF Young
  <1> HIDE DEF f, h, n
  <1>8. Sum(h, n + 1) = Sum(h, n) + h[n + 1]
    BY <1>2, SumStep
  <1>9. Sum(h, n) = Sum(f, n)
    BY <1>2, <1>5, SumSame
  <1> QED
    BY <1>4, <1>6, <1>7, <1>8, <1>9 DEF a

\* The costs after the first p.
LEMMA YoungSuffix ==
  ASSUME NEW s \in Seq(Requests), NEW p \in 0 .. Len(s), NEW cost \in Costings, NEW v \in Int
  PROVE  LET t == SubSeq(s, p + 1, Len(s)) IN
         /\ t \in Seq(Requests) /\ Young(t, cost, v) \in Nat
         /\ Sum(Costs(s, cost, v), p) \in Nat
         /\ Young(s, cost, v) = Sum(Costs(s, cost, v), p) + Young(t, cost, v)
         /\ (\A k \in 1 .. p : s[k].age > v) => Young(t, cost, v) = Young(s, cost, v)
  <1> DEFINE t == SubSeq(s, p + 1, Len(s))
             f == Costs(s, cost, v)
             h == Costs(t, cost, v)
             n == Len(s) - p
  <1>1. t \in Seq(Requests) /\ Len(t) = n /\ \A k \in 1 .. n : t[k] = s[p + k]
    BY SuffixOf
  <1>2. p \in Nat /\ n \in Nat /\ n + p = Len(s) /\ Len(s) \in Nat
    OBVIOUS
  <1>3. (\A k \in 1 .. p : k \in 1 .. Len(s)) /\ \A k \in 1 .. n : p + k \in 1 .. Len(s) /\ k + p = p + k
    BY <1>2
  <1>4. \A k \in 1 .. Len(s) : f[k] = (IF s[k].age <= v THEN cost[s[k].tokens] ELSE 0) /\ f[k] \in Nat
    BY CostsTyped
  <1> HIDE DEF t
  <1>5. \A k \in 1 .. n : h[k] = IF s[p + k].age <= v THEN cost[s[p + k].tokens] ELSE 0
    BY <1>1 DEF Costs
  <1>6. Young(s, cost, v) = Sum(f, n + p) /\ Young(t, cost, v) = Sum(h, n)
    BY <1>1, <1>2 DEF Young
  <1>7. (\A k \in 1 .. p : s[k].age > v) => \A k \in 1 .. p : f[k] = 0
    <2> SUFFICES ASSUME \A k \in 1 .. p : s[k].age > v, NEW k \in 1 .. p PROVE f[k] = 0
      OBVIOUS
    <2>1. s[k].age \in Nat /\ k \in 1 .. Len(s) /\ s[k].age > v
      BY <1>3, CostsTyped
    <2>2. ~ (s[k].age <= v)
      BY <2>1
    <2> HIDE DEF f
    <2> QED
      BY <1>4, <2>1, <2>2
  <1>8. (\A k \in 1 .. p : f[k] = 0) => Sum(f, p) = 0
    <2> DEFINE z == [k \in 1 .. p |-> 0]
    <2> SUFFICES ASSUME \A k \in 1 .. p : f[k] = 0 PROVE Sum(f, p) = 0
      OBVIOUS
    <2> HIDE DEF f
    <2>1. \A k \in 1 .. p : f[k] \in Nat /\ f[k] <= 0 /\ (k \notin {} => f[k] = 0)
      OBVIOUS
    <2>2. Sum(f, p) <= Cardinality({} \cap (1 .. p)) * 0 /\ Sum(f, p) \in Nat
      BY ONLY <1>2, <2>1, SumBound, SumNat
    <2>3. {} \cap (1 .. p) = {} /\ Cardinality({}) = 0
      BY FS_EmptySet
    <2> QED
      BY <2>2, <2>3
  <1> HIDE DEF f, h, n
  <1>9. Follows(h, n, f, p)
    BY <1>3, <1>4, <1>5 DEF Follows
  <1>10. Sum(f, p) \in Nat
    BY <1>2, <1>3, <1>4, SumNat
  <1>11. Sum(h, n) \in Nat /\ Sum(f, n + p) = Sum(f, p) + Sum(h, n)
    BY <1>2, <1>9, <1>10, SumSplit
  <1>12. (\A k \in 1 .. p : s[k].age > v) => Young(t, cost, v) = Young(s, cost, v)
    BY <1>6, <1>7, <1>8, <1>11
  <1> QED
    BY <1>1, <1>6, <1>10, <1>11, <1>12 DEF t, f

\* With every request counted.
LEMMA TokensAreCosts ==
  ASSUME NEW s \in Seq(Requests)
  PROVE  Tokens(s) = Young(s, ByTokens, Window) /\ Len(s) = Young(s, ByRequest, Window)
  <1>0. Len(s) \in Nat /\ ByTokens \in Costings /\ ByRequest \in Costings /\ Window \in Int
    BY LimitsTyped DEF ByTokens, ByRequest, Costings
  <1>1. \A k \in 1 .. Len(s) : s[k].age <= Window /\ s[k].tokens \in Nat
    <2>1. \A k \in 1 .. Len(s) : s[k] \in Requests
      OBVIOUS
    <2> QED
      BY <2>1, RequestTyped
  <1>2. \A k \in 1 .. Len(s) : Costs(s, ByTokens, Window)[k] = s[k].tokens
    BY <1>1 DEF Costs, ByTokens
  <1>3. \A k \in 1 .. Len(s) : Costs(s, ByRequest, Window)[k] = 1
    BY <1>1 DEF Costs, ByRequest
  <1>4. Tokens(s) = Young(s, ByTokens, Window)
    <2> DEFINE f == [k \in 1 .. Len(s) |-> s[k].tokens]
               n == Len(s)
               g == CHOOSE g : g = [k \in 0 .. n |-> IF k = 0 THEN 0 ELSE g[k - 1] + s[k].tokens]
    <2>1. Tokens(s) = g[n]
      BY DEF Tokens
    <2>2. \A k \in 1 .. n : f[k] = s[k].tokens /\ f[k] = Costs(s, ByTokens, Window)[k]
      BY <1>2
    <2>3. PICK h : IsSum(h, f, n)
      BY <1>0, SumsExist
    <2>4. h = [k \in 0 .. n |-> IF k = 0 THEN 0 ELSE h[k - 1] + s[k].tokens]
      <3>1. \A k \in 0 .. n : k # 0 => k \in 1 .. n
        BY <1>0
      <3> HIDE DEF f
      <3>2. \A k \in 0 .. n : (IF k = 0 THEN 0 ELSE h[k - 1] + f[k])
                                = (IF k = 0 THEN 0 ELSE h[k - 1] + s[k].tokens)
        BY <2>2, <3>1
      <3> QED
        BY <2>3, <3>2 DEF IsSum
    <2>5. g = [k \in 0 .. n |-> IF k = 0 THEN 0 ELSE g[k - 1] + s[k].tokens]
      BY <2>4, Zenon
    <2> HIDE DEF g
    <2>6. IsSum(g, f, n)
      <3>1. \A k \in 0 .. n : k # 0 => k \in 1 .. n
        BY <1>0
      <3> HIDE DEF f
      <3>2. \A k \in 0 .. n : (IF k = 0 THEN 0 ELSE g[k - 1] + f[k])
                                = (IF k = 0 THEN 0 ELSE g[k - 1] + s[k].tokens)
        BY <2>2, <3>1
      <3> QED
        BY <2>5, <3>2 DEF IsSum
    <2> DEFINE c == Costs(s, ByTokens, Window)
               e == CHOOSE e : IsSum(e, c, n)
    <2>7. IsSum(e, c, n)
      BY <1>0, SumsExist, Zenon
    <2>8. Young(s, ByTokens, Window) = e[n]
      BY DEF Young, Sum
    <2>9. n \in Nat /\ n <= n /\ \A k \in 1 .. n : f[k] = c[k]
      BY <1>0, <2>2
    <2> HIDE DEF f, n, c, e
    <2>10. g[n] = e[n]
      BY <2>6, <2>7, <2>9, SumsAgree
    <2> QED
      BY <2>1, <2>8, <2>10
  <1>5. Len(s) = Young(s, ByRequest, Window)
    <2> DEFINE f == Costs(s, ByRequest, Window)
               N == {m \in Nat : m <= Len(s) => Sum(f, m) = m}
    <2>1. 0 \in N
      BY SumStep
    <2>2. ASSUME NEW m \in Nat, m \in N PROVE m + 1 \in N
      <3> SUFFICES ASSUME m + 1 <= Len(s) PROVE Sum(f, m + 1) = m + 1
        OBVIOUS
      <3>1. m + 1 \in 1 .. Len(s) /\ (m + 1) - 1 = m /\ m + 1 > 0 /\ m <= Len(s) /\ m + 1 \in Nat
        BY <1>0
      <3>2. f[m + 1] = 1 /\ Sum(f, m) = m
        BY <1>3, <2>2, <3>1
      <3> HIDE DEF f
      <3>3. Sum(f, m + 1) = Sum(f, m) + f[m + 1]
        BY <3>1, SumStep
      <3> QED
        BY <3>2, <3>3
    <2>3. Nat \subseteq N
      <3> HIDE DEF N
      <3> QED
        BY <2>1, <2>2, NatSetInduction
    <2>4. Len(s) \in N /\ Len(s) <= Len(s)
      <3> HIDE DEF N
      <3> QED
        BY <1>0, <2>3
    <2> HIDE DEF f
    <2>5. Sum(f, Len(s)) = Len(s)
      BY <2>4
    <2> QED
      BY <2>5 DEF Young, f
  <1> QED
    BY <1>4, <1>5

-----------------------------------------------------------------------------
(* Time                                                                    *)

LEMMA MinIs ==
  ASSUME NEW S, S \subseteq Int, NEW m \in S, \A n \in S : m <= n
  PROVE  Min(S) = m
  <1>1. Min(S) \in S /\ \A n \in S : Min(S) <= n
    BY Zenon DEF Min
  <1>2. Min(S) \in Int /\ m \in Int /\ Min(S) <= m /\ m <= Min(S)
    BY <1>1
  <1> QED
    BY ONLY <1>2

LEMMA MaxIs ==
  ASSUME NEW S, S \subseteq Int, NEW m \in S, \A n \in S : n <= m
  PROVE  Max(S) = m
  <1>1. Max(S) \in S /\ \A n \in S : n <= Max(S)
    <2>1. \A n \in S : m >= n
      OBVIOUS
    <2>2. Max(S) \in S /\ \A n \in S : Max(S) >= n
      BY <2>1, Zenon DEF Max
    <2> QED
      BY <2>2
  <1>2. Max(S) \in Int /\ m \in Int /\ Max(S) <= m /\ m <= Max(S)
    BY <1>1
  <1> QED
    BY ONLY <1>2

LEMMA MinOfTwo ==
  ASSUME NEW a \in Int, NEW b \in Int
  PROVE  Min({a, b}) = IF a <= b THEN a ELSE b
  <1> DEFINE S == {a, b}
             m == IF a <= b THEN a ELSE b
  <1>1. S \subseteq Int /\ m \in S /\ \A n \in S : m <= n
    OBVIOUS
  <1> HIDE DEF S, m
  <1>2. Min(S) = m
    BY <1>1, MinIs
  <1> QED
    BY <1>2 DEF S, m

\* A tick makes each request older, and no other.
LEMMA OlderIs ==
  ASSUME NEW s \in Seq(Requests)
  PROVE  /\ Older(s) \in Seq(Requests) /\ Len(Older(s)) = Len(s)
         /\ \A k \in 1 .. Len(s) :
              /\ Older(s)[k].tokens = s[k].tokens
              /\ Older(s)[k].age = IF s[k].age < Window THEN s[k].age + 1 ELSE Window
  <1> DEFINE Next1(r) == [r EXCEPT !.age = Min({@ + 1, Window})]
             a == Older(s)
  <1>1. ASSUME NEW r \in Requests
        PROVE  /\ Next1(r) \in Requests /\ Next1(r).tokens = r.tokens
               /\ Next1(r).age = IF r.age < Window THEN r.age + 1 ELSE Window
    <2>1. r.age \in Nat /\ r.age <= Window /\ Window \in Nat
      BY RequestTyped, LimitsTyped
    <2>2. Min({r.age + 1, Window}) = IF r.age < Window THEN r.age + 1 ELSE Window
      <3>1. Min({r.age + 1, Window}) = IF r.age + 1 <= Window THEN r.age + 1 ELSE Window
        BY <2>1, MinOfTwo
      <3>2. r.age + 1 <= Window <=> r.age < Window
        BY <2>1
      <3> QED
        BY <3>1, <3>2
    <2> DEFINE x == IF r.age < Window THEN r.age + 1 ELSE Window
    <2>3. Next1(r) = [r EXCEPT !.age = x]
      BY <2>2
    <2>4. x \in 0 .. Window
      BY <2>1
    <2> HIDE DEF x, Next1
    <2>5. Next1(r) \in Requests /\ Next1(r).tokens = r.tokens /\ Next1(r).age = x
      BY <2>3, <2>4 DEF Requests
    <2> QED
      BY <2>5 DEF x
  <1>2. DOMAIN s = 1 .. Len(s) /\ \A k \in 1 .. Len(s) : s[k] \in Requests
    OBVIOUS
  <1>3. Len(s) \in Nat
    OBVIOUS
  <1>4. a = [k \in 1 .. Len(s) |-> Next1(s[k])]
    BY <1>2 DEF Older
  <1> HIDE DEF a, Next1
  <1>5. \A k \in 1 .. Len(s) : a[k] = Next1(s[k]) /\ a[k] \in Requests
    BY <1>1, <1>2, <1>4
  <1>6. a \in Seq(Requests) /\ Len(a) = Len(s)
    <2>1. a \in [1 .. Len(s) -> Requests]
      BY <1>4, <1>5
    <2> QED
      BY ONLY <1>3, <2>1
  <1> QED
    BY <1>1, <1>2, <1>5, <1>6 DEF a

\* A tick later those that were up to v old are up to v + 1 old.
LEMMA YoungOlder ==
  ASSUME NEW s \in Seq(Requests), NEW cost \in Costings, NEW v \in Int
  PROVE  /\ v < Window => Young(Older(s), cost, v) = Young(s, cost, v - 1)
         /\ Young(Older(s), cost, Window) = Young(s, cost, Window)
  <1>0. Window \in Nat /\ Len(s) \in Nat
    BY LimitsTyped
  <1>1. Older(s) \in Seq(Requests) /\ Len(Older(s)) = Len(s)
    BY OlderIs
  <1>2. \A k \in 1 .. Len(s) :
          /\ Older(s)[k].tokens = s[k].tokens /\ s[k].age \in Nat /\ s[k].age <= Window
          /\ Older(s)[k].age = IF s[k].age < Window THEN s[k].age + 1 ELSE Window
    <2>1. \A k \in 1 .. Len(s) : s[k] \in Requests
      OBVIOUS
    <2> QED
      BY <2>1, OlderIs, RequestTyped
  <1>3. ASSUME v < Window PROVE Young(Older(s), cost, v) = Young(s, cost, v - 1)
    <2>1. \A k \in 1 .. Len(s) : Older(s)[k].age <= v <=> s[k].age <= v - 1
      <3> TAKE k \in 1 .. Len(s)
      <3> QED
        BY <1>0, <1>2, <1>3, SMTT(40)
    <2>2. \A k \in 1 .. Len(s) : Costs(Older(s), cost, v)[k] = Costs(s, cost, v - 1)[k]
      BY <1>1, <1>2, <2>1, Zenon DEF Costs
    <2> QED
      BY <1>0, <1>1, <2>2, SumSame DEF Young
  <1>4. Young(Older(s), cost, Window) = Young(s, cost, Window)
    <2>1. \A k \in 1 .. Len(s) : Older(s)[k].age <= Window <=> s[k].age <= Window
      <3> TAKE k \in 1 .. Len(s)
      <3> QED
        BY <1>0, <1>2
    <2>2. \A k \in 1 .. Len(s) : Costs(Older(s), cost, Window)[k] = Costs(s, cost, Window)[k]
      BY <1>1, <1>2, <2>1, Zenon DEF Costs
    <2> QED
      BY <1>0, <1>1, <2>2, SumSame DEF Young
  <1> QED
    BY <1>3, <1>4

-----------------------------------------------------------------------------
(* The window                                                              *)

\* The oldest are first.
Sorted(s) == \A i, j \in 1 .. Len(s) : i < j => s[j].age <= s[i].age

\* The first p, and they only, have an age of a or more.
Passed(s, p, a) == p \in 0 .. Len(s) /\ \A k \in 1 .. Len(s) : s[k].age < a <=> k > p

LEMMA SomePassed ==
  ASSUME NEW s \in Seq(Requests), Sorted(s), NEW a \in Int
  PROVE  \E p \in 0 .. Len(s) : Passed(s, p, a)
  <1> DEFINE n == Len(s)
             S == {k \in 1 .. n : s[k].age < a}
  <1>0. n \in Nat
    OBVIOUS
  <1>1. \A k \in 1 .. n : s[k].age \in Int
    <2>1. \A k \in 1 .. n : s[k] \in Requests
      OBVIOUS
    <2> QED
      BY <2>1, RequestTyped
  <1>2. CASE S = {}
    <2>1. Passed(s, n, a)
      BY <1>0, <1>2 DEF Passed
    <2> QED
      BY <1>0, <2>1
  <1>3. CASE S # {}
    <2>1. S \subseteq Nat
      BY <1>0
    <2>2. PICK m \in S : \A k \in S : m <= k
      <3> HIDE DEF S
      <3> QED
        BY <1>3, <2>1, LeastOfSet
    <2>3. m \in 1 .. n /\ s[m].age < a /\ s[m].age \in Int
      BY <1>1
    <2>4. ASSUME NEW k \in 1 .. n PROVE s[k].age < a <=> k > m - 1
      <3>1. s[k].age < a => m <= k
        BY <2>2
      <3>2. m < k => s[k].age <= s[m].age
        BY <2>3 DEF Sorted
      <3>3. s[k].age \in Int /\ k \in Int /\ m \in Int
        BY <1>0, <1>1, <2>3
      <3> HIDE DEF S, n
      <3>4. k > m - 1 => k = m \/ m < k
        BY <3>3
      <3>5. m <= k => k > m - 1
        BY <3>3
      <3>6. s[k].age <= s[m].age => s[k].age < a
        BY <2>3, <3>3
      <3> QED
        BY <2>3, <3>1, <3>2, <3>4, <3>5, <3>6
    <2>5. m - 1 \in 0 .. n
      BY <1>0, <2>3
    <2> QED
      BY <2>4, <2>5 DEF Passed
  <1> QED
    BY <1>2, <1>3

\* t is what follows the first p of s.
IsRest(t, s, p) ==
  /\ p \in 0 .. Len(s)
  /\ t \in Seq(Requests) /\ Len(t) = Len(s) - p
  /\ \A k \in 1 .. Len(s) - p : t[k] = s[p + k]

LEMMA RestIs ==
  ASSUME NEW s \in Seq(Requests), NEW p \in 0 .. Len(s)
  PROVE  /\ IsRest(SubSeq(s, p + 1, Len(s)), s, p)
         /\ \A t : IsRest(t, s, p) => t = SubSeq(s, p + 1, Len(s))
  <1> DEFINE u == SubSeq(s, p + 1, Len(s))
  <1>1. IsRest(u, s, p)
    BY SuffixOf DEF IsRest
  <1>2. ASSUME NEW t, IsRest(t, s, p) PROVE t = u
    <2>1. u \in Seq(Requests) /\ Len(u) = Len(s) - p /\ \A k \in 1 .. Len(s) - p : u[k] = s[p + k]
      BY <1>1 DEF IsRest
    <2>2. t \in Seq(Requests) /\ Len(t) = Len(s) - p /\ \A k \in 1 .. Len(s) - p : t[k] = s[p + k]
      BY <1>2 DEF IsRest
    <2> HIDE DEF u
    <2>3. Len(t) = Len(u) /\ \A k \in 1 .. Len(t) : t[k] = u[k]
      BY <2>1, <2>2
    <2> QED
      BY ONLY <2>1, <2>2, <2>3, SeqEqual
  <1> QED
    BY <1>1, <1>2

\* What follows the first p and then the first q.
LEMMA RestOfRest ==
  ASSUME NEW s \in Seq(Requests), NEW p, NEW t, IsRest(t, s, p), NEW q, NEW u, IsRest(u, t, q)
  PROVE  IsRest(u, s, p + q)
  <1>1. /\ Len(s) \in Nat /\ p \in 0 .. Len(s) /\ Len(t) = Len(s) - p
        /\ q \in 0 .. Len(t) /\ Len(u) = Len(t) - q /\ u \in Seq(Requests)
    BY DEF IsRest
  <1>2. ASSUME NEW k \in 1 .. Len(s) - (p + q) PROVE u[k] = s[(p + q) + k]
    <2>1. k \in 1 .. Len(t) - q /\ q + k \in 1 .. Len(s) - p /\ p + (q + k) = (p + q) + k
      BY <1>1
    <2> QED
      BY <2>1 DEF IsRest
  <1>3. p + q \in 0 .. Len(s) /\ Len(u) = Len(s) - (p + q)
    BY <1>1
  <1> QED
    BY <1>1, <1>2, <1>3 DEF IsRest

\* Time passes for the rest as for all.
LEMMA RestOlder ==
  ASSUME NEW s \in Seq(Requests), NEW p, NEW t, IsRest(t, s, p)
  PROVE  IsRest(Older(t), Older(s), p)
  <1>0. /\ Len(s) \in Nat /\ p \in 0 .. Len(s) /\ Len(t) = Len(s) - p /\ t \in Seq(Requests)
        /\ \A k \in 1 .. Len(s) - p : t[k] = s[p + k]
    BY DEF IsRest
  <1>1. /\ Len(Older(s)) = Len(s) /\ Len(Older(t)) = Len(t) /\ Older(t) \in Seq(Requests)
        /\ Older(s) \in Seq(Requests)
    BY <1>0, OlderIs
  <1>2. ASSUME NEW k \in 1 .. Len(s) - p PROVE Older(t)[k] = Older(s)[p + k]
    <2>1. k \in 1 .. Len(t) /\ p + k \in 1 .. Len(s) /\ t[k] = s[p + k]
      BY <1>0
    <2>2. DOMAIN t = 1 .. Len(t) /\ DOMAIN s = 1 .. Len(s)
      BY <1>0
    <2> QED
      BY <2>1, <2>2, Zenon DEF Older
  <1> QED
    BY <1>0, <1>1, <1>2 DEF IsRest

\* The rest of what is sorted is sorted, and so is what time makes of it.
LEMMA SortedKept ==
  ASSUME NEW s \in Seq(Requests), Sorted(s)
  PROVE  /\ \A t, p : IsRest(t, s, p) => Sorted(t)
         /\ Sorted(Older(s))
         /\ \A e \in Requests : e.age = 0 => Sorted(Append(s, e))
  <1>0. Len(s) \in Nat /\ Window \in Nat
    BY LimitsTyped
  <1>1. \A k \in 1 .. Len(s) : s[k].age \in Nat /\ s[k].age <= Window
    <2>1. \A k \in 1 .. Len(s) : s[k] \in Requests
      OBVIOUS
    <2> QED
      BY <2>1, RequestTyped
  <1>2. ASSUME NEW t, NEW p, IsRest(t, s, p) PROVE Sorted(t)
    <2>1. /\ p \in 0 .. Len(s) /\ Len(t) = Len(s) - p
          /\ \A k \in 1 .. Len(s) - p : t[k] = s[p + k]
      BY <1>2 DEF IsRest
    <2> SUFFICES ASSUME NEW i \in 1 .. Len(t), NEW j \in 1 .. Len(t), i < j
                 PROVE  t[j].age <= t[i].age
      BY DEF Sorted
    <2>2. p + i \in 1 .. Len(s) /\ p + j \in 1 .. Len(s) /\ p + i < p + j
      BY <1>0, <2>1
    <2>3. t[i] = s[p + i] /\ t[j] = s[p + j]
      BY <2>1
    <2> QED
      BY <2>2, <2>3 DEF Sorted
  <1>3. Sorted(Older(s))
    <2> SUFFICES ASSUME NEW i \in 1 .. Len(s), NEW j \in 1 .. Len(s), i < j
                 PROVE  Older(s)[j].age <= Older(s)[i].age
      BY OlderIs DEF Sorted
    <2>1. s[j].age <= s[i].age
      BY DEF Sorted
    <2>2. /\ Older(s)[i].age = IF s[i].age < Window THEN s[i].age + 1 ELSE Window
          /\ Older(s)[j].age = IF s[j].age < Window THEN s[j].age + 1 ELSE Window
      BY OlderIs
    <2>3. s[i].age \in Nat /\ s[j].age \in Nat /\ s[i].age <= Window /\ s[j].age <= Window
      BY <1>1
    <2> QED
      BY ONLY <1>0, <2>1, <2>2, <2>3
  <1>4. ASSUME NEW e \in Requests, e.age = 0 PROVE Sorted(Append(s, e))
    <2>1. /\ Len(Append(s, e)) = Len(s) + 1 /\ Append(s, e)[Len(s) + 1] = e
          /\ \A k \in 1 .. Len(s) : Append(s, e)[k] = s[k]
      BY AppendOf
    <2> DEFINE a == Append(s, e)
    <2> HIDE DEF a
    <2> SUFFICES ASSUME NEW i \in 1 .. Len(s) + 1, NEW j \in 1 .. Len(s) + 1, i < j
                 PROVE  a[j].age <= a[i].age
      BY <2>1 DEF Sorted, a
    <2>2. i \in 1 .. Len(s) /\ (j \in 1 .. Len(s) \/ j = Len(s) + 1)
      BY <1>0
    <2>3. a[i] = s[i] /\ s[i].age \in Nat
      BY <1>1, <2>1, <2>2 DEF a
    <2>4. CASE j = Len(s) + 1
      <3>1. a[j].age = 0
        BY <1>4, <2>1, <2>4 DEF a
      <3> QED
        BY <2>3, <3>1
    <2>5. CASE j \in 1 .. Len(s)
      <3>1. a[j] = s[j]
        BY <2>1, <2>5 DEF a
      <3> QED
        BY <2>2, <2>3, <2>5, <3>1 DEF Sorted
    <2> QED
      BY <2>2, <2>4, <2>5
  <1> QED
    BY <1>2, <1>3, <1>4

\* What is in the window follows those that have passed it.
LEMMA InWindowIs ==
  ASSUME NEW s \in Seq(Requests), NEW p, Passed(s, p, Window)
  PROVE  IsRest(InWindow(s), s, p)
  <1>0. p \in 0 .. Len(s) /\ Len(s) \in Nat /\ p \in Nat
    BY DEF Passed
  <1>1. \A k \in 1 .. Len(s) : Over(s[k]) <=> k <= p
    <2> TAKE k \in 1 .. Len(s)
    <2>1. s[k] \in Requests
      OBVIOUS
    <2>2. s[k].age \in Nat /\ Window \in Nat /\ k \in Int
      BY <1>0, <2>1, RequestTyped, LimitsTyped
    <2>3. s[k].age < Window <=> k > p
      BY DEF Passed
    <2> QED
      BY <1>0, <2>2, <2>3 DEF Over
  <1> DEFINE over == {k \in 0 .. Len(s) : \A i \in 1 .. k : Over(s[i])}
  <1>2. over \subseteq Int
    OBVIOUS
  <1>3. p \in over
    <2>1. \A i \in 1 .. p : i \in 1 .. Len(s) /\ i <= p
      BY <1>0
    <2> QED
      BY <1>0, <1>1, <2>1
  <1>4. ASSUME NEW k \in over PROVE k <= p
    <2> SUFFICES ASSUME k > p PROVE FALSE
      BY <1>0
    <2>1. k \in 1 .. k /\ k \in 1 .. Len(s) /\ ~ (k <= p)
      BY <1>0
    <2> QED
      BY <1>1, <2>1
  <1>5. InWindow(s) = SubSeq(s, Max(over) + 1, Len(s))
    BY DEF InWindow
  <1> HIDE DEF over
  <1>6. Max(over) = p
    BY <1>2, <1>3, <1>4, MaxIs
  <1> QED
    BY <1>0, <1>5, <1>6, RestIs

\* None in the window has passed it.
LEMMA RestIsYoung ==
  ASSUME NEW s \in Seq(Requests), NEW p, NEW t, NEW a, Passed(s, p, a), IsRest(t, s, p)
  PROVE  \A k \in 1 .. Len(t) : t[k].age < a
  <1>0. Len(s) \in Nat
    OBVIOUS
  <1>1. /\ p \in 0 .. Len(s) /\ Len(t) = Len(s) - p
        /\ \A k \in 1 .. Len(s) - p : t[k] = s[p + k]
    BY DEF IsRest
  <1> SUFFICES ASSUME NEW k \in 1 .. Len(t) PROVE t[k].age < a
    OBVIOUS
  <1>2. t[k] = s[p + k] /\ p + k \in 1 .. Len(s) /\ p + k > p
    BY <1>0, <1>1
  <1> QED
    BY <1>2 DEF Passed

\* A window in which none has passed stays as it is.
LEMMA InWindowSame ==
  ASSUME NEW s \in Seq(Requests), \A k \in 1 .. Len(s) : s[k].age < Window
  PROVE  InWindow(s) = s
  <1>1. Len(s) \in Nat
    OBVIOUS
  <1>2. Passed(s, 0, Window)
    BY <1>1 DEF Passed
  <1>3. IsRest(InWindow(s), s, 0)
    BY <1>2, InWindowIs
  <1>4. IsRest(s, s, 0)
    <2>1. \A k \in 1 .. Len(s) - 0 : 0 + k = k
      OBVIOUS
    <2> QED
      BY <1>1, <2>1 DEF IsRest
  <1>5. 0 \in 0 .. Len(s)
    BY <1>1
  <1>6. InWindow(s) = SubSeq(s, 0 + 1, Len(s))
    BY <1>3, <1>5, RestIs
  <1>7. s = SubSeq(s, 0 + 1, Len(s))
    BY <1>4, <1>5, RestIs
  <1> QED
    BY <1>6, <1>7

\* What is kept of a history that is sorted is what would be in the window.
LEMMA ThoseYoung ==
  ASSUME NEW s \in Seq(Requests), NEW S, NEW a, NEW p, Passed(s, p, a),
         \A k \in 1 .. Len(s) : s[k] \in S <=> s[k].age < a
  PROVE  IsRest(Those(s, S), s, p)
  <1>1. p \in 0 .. Len(s) /\ \A k \in 1 .. Len(s) : s[k] \in S <=> k > p
    BY DEF Passed
  <1>2. Those(s, S) = SubSeq(s, p + 1, Len(s))
    BY <1>1, ThoseLast
  <1> QED
    BY <1>1, <1>2, RestIs

LEMMA LastWindowIs ==
  ASSUME NEW s \in Seq(Requests), NEW p, Passed(Older(s), p, Window)
  PROVE  IsRest(LastWindow(s), Older(s), p)
  <1> DEFINE o == Older(s)
             S == {r \in Range(o) : r.age < Window}
  <1>1. o \in Seq(Requests)
    BY OlderIs
  <1>2. LastWindow(s) = Those(o, S)
    BY DEF LastWindow
  <1>3. Passed(o, p, Window)
    OBVIOUS
  <1> HIDE DEF o
  <1>4. DOMAIN o = 1 .. Len(o)
    BY <1>1
  <1>5. \A k \in 1 .. Len(o) : o[k] \in S <=> o[k].age < Window
    BY <1>4 DEF Range
  <1> HIDE DEF S
  <1>6. IsRest(Those(o, S), o, p)
    BY <1>1, <1>3, <1>5, ThoseYoung
  <1> QED
    BY <1>2, <1>6 DEF o

\* The history of what was let pass is the window, and stays it.
LEMMA WindowTicks ==
  ASSUME NEW s \in Seq(Requests), Sorted(s)
  PROVE  /\ LastWindow(InWindow(s)) = InWindow(Older(s))
         /\ LastWindow(s) = InWindow(Older(s))
  <1> DEFINE t == InWindow(s)
             o == Older(s)
  <1>0. Window \in Int /\ Window \in Nat
    BY LimitsTyped
  <1>1. PICK p \in 0 .. Len(s) : Passed(s, p, Window)
    BY <1>0, SomePassed
  <1>2. IsRest(t, s, p)
    BY <1>1, InWindowIs
  <1>3. t \in Seq(Requests) /\ Sorted(t)
    BY <1>2, SortedKept DEF IsRest
  <1>4. o \in Seq(Requests) /\ Sorted(o) /\ Len(o) = Len(s)
    BY OlderIs, SortedKept
  <1>5. Older(t) \in Seq(Requests) /\ Sorted(Older(t)) /\ IsRest(Older(t), o, p)
    BY <1>2, <1>3, OlderIs, SortedKept, RestOlder
  <1>6. PICK q \in 0 .. Len(Older(t)) : Passed(Older(t), q, Window)
    BY <1>0, <1>5, SomePassed
  <1>7. IsRest(LastWindow(t), Older(t), q)
    BY <1>3, <1>6, LastWindowIs
  <1> HIDE DEF t, o
  <1>8. IsRest(LastWindow(t), o, p + q)
    BY <1>4, <1>5, <1>7, RestOfRest
  <1>9. Passed(o, p + q, Window)
    <2>1. /\ Len(o) \in Nat /\ p \in 0 .. Len(o) /\ Len(Older(t)) = Len(o) - p
          /\ \A k \in 1 .. Len(o) - p : Older(t)[k] = o[p + k]
      BY <1>4, <1>5 DEF IsRest
    <2>2. q \in 0 .. Len(Older(t))
      OBVIOUS
    <2>3. ASSUME NEW k \in 1 .. Len(o), k <= p PROVE ~ (o[k].age < Window)
      <3>1. k \in 1 .. Len(s) /\ s[k] \in Requests
        BY <1>4
      <3>2. ~ (s[k].age < Window)
        BY <1>1, <2>1, <2>3, <3>1 DEF Passed
      <3>3. o[k].age = Window
        BY <3>1, <3>2, OlderIs DEF o
      <3> QED
        BY <1>0, <3>3
    <2>4. ASSUME NEW k \in 1 .. Len(o), k > p PROVE o[k].age < Window <=> k > p + q
      <3>1. k - p \in 1 .. Len(o) - p /\ p + (k - p) = k /\ (k - p > q <=> k > p + q)
        BY <2>1, <2>2, <2>4
      <3>2. Older(t)[k - p] = o[k] /\ k - p \in 1 .. Len(Older(t))
        BY <2>1, <3>1
      <3>3. Older(t)[k - p].age < Window <=> k - p > q
        BY <1>6, <3>2 DEF Passed
      <3> QED
        BY <3>1, <3>2, <3>3
    <2>5. \A k \in 1 .. Len(o) : (k <= p \/ k > p) /\ (k <= p => ~ (k > p + q))
      BY <2>1, <2>2
    <2>6. p + q \in 0 .. Len(o)
      BY <2>1, <2>2
    <2> QED
      BY <2>3, <2>4, <2>5, <2>6 DEF Passed
  <1>10. IsRest(InWindow(o), o, p + q)
    BY <1>4, <1>9, InWindowIs
  <1>11. p + q \in 0 .. Len(o)
    BY <1>9 DEF Passed
  <1>12. LastWindow(t) = InWindow(o)
    BY <1>4, <1>8, <1>10, <1>11, RestIs
  <1>13. IsRest(LastWindow(s), o, p + q)
    BY <1>9, LastWindowIs DEF o
  <1>14. LastWindow(s) = InWindow(o)
    BY <1>4, <1>10, <1>11, <1>13, RestIs
  <1> QED
    BY <1>12, <1>14 DEF t, o

-----------------------------------------------------------------------------
(* The gate                                                                *)

\* Those in front have the permits.
InFront(s) == {s[k] : k \in 1 .. Min({Permits, Len(s)})}

LEMMA FrontIs ==
  ASSUME NEW T, NEW s \in Seq(T)
  PROVE  \A x : x \in InFront(s) <=> \E k \in 1 .. Len(s) : k <= Permits /\ x = s[k]
  <1>1. Len(s) \in Nat /\ Permits \in Nat
    BY LimitsTyped
  <1>2. Min({Permits, Len(s)}) = IF Permits <= Len(s) THEN Permits ELSE Len(s)
    BY <1>1, MinOfTwo
  <1>3. \A k : k \in 1 .. Min({Permits, Len(s)}) <=> k \in 1 .. Len(s) /\ k <= Permits
    BY <1>1, <1>2
  <1> QED
    BY <1>3, Zenon DEF InFront

\* Who leaves the gate is taken out of it, and those behind move up.
LEMMA RemovedIs ==
  ASSUME NEW T, NEW s \in Seq(T), IsInjective(s), NEW e \in Range(s)
  PROVE  \E p \in 1 .. Len(s) :
           /\ s[p] = e
           /\ RemoveFirst(s, e) \in Seq(T) /\ Len(RemoveFirst(s, e)) = Len(s) - 1
           /\ \A k \in 1 .. Len(s) - 1 : RemoveFirst(s, e)[k] = IF k < p THEN s[k] ELSE s[k + 1]
  <1>0. Len(s) \in Nat
    OBVIOUS
  <1>1. DOMAIN s = 1 .. Len(s)
    OBVIOUS
  <1>2. PICK p \in 1 .. Len(s) : s[p] = e
    BY <1>1 DEF Range
  <1> DEFINE I == {i \in 1 .. Len(s) : s[i] = e}
             a == SubSeq(s, 1, p - 1)
             b == SubSeq(s, p + 1, Len(s))
             t == a \o b
  <1>3. I = {p}
    BY <1>1, <1>2 DEF IsInjective
  <1>4. Min(I) = p
    <2>1. I \subseteq Int /\ p \in I /\ \A n \in I : p <= n
      BY <1>0, <1>3
    <2> HIDE DEF I
    <2> QED
      BY <2>1, MinIs
  <1>5. RemoveFirst(s, e) = t
    <2>1. SelectInSeq(s, LAMBDA v : v = e) = Min(I)
      BY <1>3 DEF SelectInSeq
    <2>2. RemoveFirst(s, e) = RemoveAt(s, SelectInSeq(s, LAMBDA v : v = e))
      BY <1>2 DEF RemoveFirst
    <2> QED
      BY <1>4, <2>1, <2>2 DEF RemoveAt
  <1>6. a \in Seq(T) /\ Len(a) = p - 1 /\ \A k \in 1 .. p - 1 : a[k] = s[k]
    <2>1. /\ 1 \in Int /\ p - 1 \in Int /\ \A i \in 1 .. p - 1 : s[i] \in T
      BY <1>0
    <2>2. /\ SubSeq(s, 1, p - 1) \in Seq(T)
          /\ Len(SubSeq(s, 1, p - 1)) = IF 1 <= p - 1 THEN (p - 1) - 1 + 1 ELSE 0
          /\ \A i \in 1 .. (p - 1) - 1 + 1 : SubSeq(s, 1, p - 1)[i] = s[1 + i - 1]
      BY ONLY <2>1, SubSeqProperties
    <2>3. (p - 1) - 1 + 1 = p - 1 /\ (~ (1 <= p - 1) => p - 1 = 0)
      BY <1>0
    <2>4. \A i \in 1 .. p - 1 : 1 + i - 1 = i
      OBVIOUS
    <2> QED
      BY <2>2, <2>3, <2>4
  <1>7. b \in Seq(T) /\ Len(b) = Len(s) - p /\ \A k \in 1 .. Len(s) - p : b[k] = s[p + k]
    BY <1>0, SuffixOf
  <1> HIDE DEF a, b
  <1>8. /\ t \in Seq(T) /\ Len(t) = Len(a) + Len(b)
        /\ \A k \in 1 .. Len(a) + Len(b) : t[k] = IF k <= Len(a) THEN a[k] ELSE b[k - Len(a)]
    BY <1>6, <1>7, ConcatProperties
  <1> HIDE DEF t
  <1>9. Len(t) = Len(s) - 1
    BY <1>0, <1>6, <1>7, <1>8
  <1>10. ASSUME NEW k \in 1 .. Len(s) - 1 PROVE t[k] = IF k < p THEN s[k] ELSE s[k + 1]
    <2>1. t[k] = IF k <= Len(a) THEN a[k] ELSE b[k - Len(a)]
      BY <1>8, <1>9
    <2>2. CASE k < p
      <3>1. k \in 1 .. p - 1 /\ k <= p - 1
        BY <1>0, <2>2
      <3> QED
        BY <1>6, <2>1, <2>2, <3>1
    <2>3. CASE ~ (k < p)
      <3>1. k - (p - 1) \in 1 .. Len(s) - p /\ p + (k - (p - 1)) = k + 1 /\ ~ (k <= p - 1)
        BY <1>0, <2>3
      <3>2. t[k] = b[k - (p - 1)]
        BY <1>6, <2>1, <3>1
      <3> QED
        BY <1>7, <2>3, <3>1, <3>2
    <2> QED
      BY <2>2, <2>3
  <1> QED
    BY <1>2, <1>5, <1>8, <1>9, <1>10

LEMMA GateAfterLeaving ==
  ASSUME NEW T, NEW s \in Seq(T), IsInjective(s), NEW e \in Range(s)
  PROVE  LET t == RemoveFirst(s, e) IN
         /\ t \in Seq(T) /\ IsInjective(t) /\ Range(t) = Range(s) \ {e}
         /\ InFront(s) \ {e} \subseteq InFront(t)
  <1> DEFINE t == RemoveFirst(s, e)
  <1>1. PICK p \in 1 .. Len(s) :
          /\ s[p] = e
          /\ t \in Seq(T) /\ Len(t) = Len(s) - 1
          /\ \A k \in 1 .. Len(s) - 1 : t[k] = IF k < p THEN s[k] ELSE s[k + 1]
    BY RemovedIs
  <1> HIDE DEF t
  <1>2. Len(s) \in Nat /\ Permits \in Nat
    BY LimitsTyped
  <1>3. \A i, j \in 1 .. Len(s) : s[i] = s[j] => i = j
    <2>1. DOMAIN s = 1 .. Len(s)
      OBVIOUS
    <2> QED
      BY <2>1 DEF IsInjective
  <1> DEFINE at(k) == IF k < p THEN k ELSE k + 1
  <1>4. ASSUME NEW k \in 1 .. Len(s) - 1 PROVE at(k) \in 1 .. Len(s) /\ at(k) # p /\ t[k] = s[at(k)]
    <2>1. at(k) \in 1 .. Len(s) /\ at(k) # p
      BY <1>2
    <2> QED
      BY <1>1, <2>1
  <1>5. ASSUME NEW j \in 1 .. Len(s), j # p
        PROVE  \E k \in 1 .. Len(s) - 1 : at(k) = j /\ k <= j
    <2>1. CASE j < p
      <3>1. j \in 1 .. Len(s) - 1 /\ at(j) = j /\ j <= j
        BY <1>2, <2>1
      <3> QED
        BY <3>1
    <2>2. CASE j > p
      <3>1. j - 1 \in 1 .. Len(s) - 1 /\ at(j - 1) = j /\ j - 1 <= j
        BY <1>2, <2>2
      <3> QED
        BY <3>1
    <2> QED
      BY <1>2, <1>5, <2>1, <2>2
  <1>6. \A i, j \in 1 .. Len(s) - 1 : at(i) = at(j) => i = j
    BY <1>2
  <1> HIDE DEF at
  <1>7. IsInjective(t)
    <2>1. DOMAIN t = 1 .. Len(s) - 1
      BY <1>1
    <2> SUFFICES ASSUME NEW i \in 1 .. Len(s) - 1, NEW j \in 1 .. Len(s) - 1, t[i] = t[j] PROVE i = j
      BY <2>1 DEF IsInjective
    <2>2. at(i) = at(j)
      BY <1>3, <1>4, SMTT(40)
    <2> QED
      BY <1>6, <2>2
  <1>8. \A x : x \in Range(s) <=> \E j \in 1 .. Len(s) : x = s[j]
    <2>1. DOMAIN s = 1 .. Len(s)
      OBVIOUS
    <2> QED
      BY <2>1, Zenon DEF Range
  <1>9. \A x : x \in Range(t) <=> \E k \in 1 .. Len(s) - 1 : x = t[k]
    <2>1. DOMAIN t = 1 .. Len(s) - 1
      BY <1>1
    <2> QED
      BY <2>1, Zenon DEF Range
  <1>10. Range(t) = Range(s) \ {e}
    <2>1. ASSUME NEW x \in Range(t) PROVE x \in Range(s) \ {e}
      <3>1. PICK k \in 1 .. Len(s) - 1 : x = t[k]
        BY <1>9
      <3> QED
        BY <1>1, <1>3, <1>4, <1>8, <3>1
    <2>2. ASSUME NEW x \in Range(s), x # e PROVE x \in Range(t)
      <3>1. PICK j \in 1 .. Len(s) : x = s[j] /\ j # p
        BY <1>1, <1>8, <2>2
      <3> QED
        BY <1>4, <1>5, <1>9, <3>1
    <2> QED
      BY <2>1, <2>2
  <1>11. ASSUME NEW x \in InFront(s), x # e PROVE x \in InFront(t)
    <2>1. PICK j \in 1 .. Len(s) : x = s[j] /\ j <= Permits /\ j # p
      BY <1>1, <1>11, FrontIs
    <2>2. PICK k \in 1 .. Len(s) - 1 : at(k) = j /\ k <= j
      BY <1>5, <2>1
    <2>3. x = t[k] /\ k <= Permits
      BY <1>2, <1>4, <2>1, <2>2
    <2>4. k \in 1 .. Len(t)
      BY <1>1
    <2> QED
      BY <1>1, <2>3, <2>4, FrontIs
  <1> QED
    BY <1>1, <1>7, <1>10, <1>11 DEF t

\* Who comes waits behind all others.
LEMMA GateAfterAsking ==
  ASSUME NEW T, NEW s \in Seq(T), IsInjective(s), NEW e \in T, e \notin Range(s)
  PROVE  LET t == Append(s, e) IN
         /\ t \in Seq(T) /\ IsInjective(t) /\ Range(t) = Range(s) \cup {e}
         /\ InFront(s) \subseteq InFront(t)
  <1> DEFINE t == Append(s, e)
  <1>1. /\ t \in Seq(T) /\ Len(t) = Len(s) + 1 /\ t[Len(s) + 1] = e
        /\ \A k \in 1 .. Len(s) : t[k] = s[k]
    BY AppendOf
  <1> HIDE DEF t
  <1>2. Len(s) \in Nat
    OBVIOUS
  <1>3. \A k : k \in 1 .. Len(s) + 1 <=> k \in 1 .. Len(s) \/ k = Len(s) + 1
    BY <1>2
  <1>4. DOMAIN t = 1 .. Len(s) + 1
    BY <1>1
  <1>5. DOMAIN s = 1 .. Len(s)
    OBVIOUS
  <1>6. Range(t) = Range(s) \cup {e}
    <2>1. ASSUME NEW x \in Range(t) PROVE x \in Range(s) \cup {e}
      BY <1>1, <1>3, <1>4, <1>5 DEF Range
    <2>2. ASSUME NEW x \in Range(s) PROVE x \in Range(t)
      BY <1>1, <1>3, <1>4, <1>5 DEF Range
    <2>3. e \in Range(t)
      BY <1>1, <1>3, <1>4 DEF Range
    <2> QED
      BY <2>1, <2>2, <2>3
  <1>7. IsInjective(t)
    <2>1. \A k \in 1 .. Len(s) : s[k] # e
      BY <1>5 DEF Range
    <2>2. \A i, j \in 1 .. Len(s) : s[i] = s[j] => i = j
      BY <1>5 DEF IsInjective
    <2> QED
      BY <1>1, <1>3, <1>4, <2>1, <2>2, Zenon DEF IsInjective
  <1>8. ASSUME NEW x \in InFront(s) PROVE x \in InFront(t)
    <2>1. PICK k \in 1 .. Len(s) : k <= Permits /\ x = s[k]
      BY FrontIs
    <2>2. k \in 1 .. Len(t) /\ x = t[k]
      BY <1>1, <1>3, <2>1
    <2> QED
      BY <1>1, <2>1, <2>2, FrontIs
  <1> QED
    BY <1>1, <1>6, <1>7, <1>8 DEF t

-----------------------------------------------------------------------------
(* The headings of a document                                              *)

Lines == [kind : LineKinds, run : Nat, rest : STRING, size : Nat]

LEMMA DocumentTyped ==
  ASSUME NEW d \in Documents
  PROVE  /\ d.lines \in Seq(Lines) /\ Len(d.lines) \in Nat
         /\ \A k \in 1 .. Len(d.lines) : d.lines[k] \in Lines
         /\ Length(d) \in Nat /\ 0 \in d.chars /\ Length(d) \in d.chars
         /\ \A c \in d.chars : c \in Nat /\ c <= Length(d)
         /\ \A c, e \in d.chars : d.tokens[<<c, e>>] \in Nat
         /\ \A k \in 0 .. Len(d.lines) : LineEnds(d)[k] \in d.chars
  <1>1. /\ d.lines \in Seq(Lines)
        /\ {0, Length(d)} \subseteq d.chars /\ d.chars \subseteq 0 .. Length(d) /\ Length(d) \in Nat
        /\ d.tokens \in [d.chars \X d.chars -> Nat]
        /\ \A k \in 0 .. Len(d.lines) : LineEnds(d)[k] \in d.chars
    BY DocumentsAssumption DEF Lines
  <1>2. Len(d.lines) \in Nat /\ \A k \in 1 .. Len(d.lines) : d.lines[k] \in Lines
    BY <1>1
  <1>3. \A c \in d.chars : c \in Nat /\ c <= Length(d)
    BY <1>1
  <1>4. \A c, e \in d.chars : d.tokens[<<c, e>>] \in Nat
    BY <1>1
  <1> QED
    BY <1>1, <1>2, <1>3, <1>4

\* Where lines end.
LEMMA LineEndsStep ==
  ASSUME NEW d, Len(d.lines) \in Nat
  PROVE  /\ LineEnds(d)[0] = 0
         /\ \A m \in Nat : m + 1 <= Len(d.lines) =>
              LineEnds(d)[m + 1] = LineEnds(d)[m] + d.lines[m + 1].size
  <1> DEFINE n == Len(d.lines)
             f == [k \in 1 .. n |-> d.lines[k].size]
             Is(g) == g = [k \in 0 .. n |-> IF k = 0 THEN 0 ELSE g[k - 1] + d.lines[k].size]
             e == CHOOSE g : Is(g)
  <1>1. LineEnds(d) = e
    BY DEF LineEnds
  <1>2. \E g : Is(g)
    <2>1. PICK g : IsSum(g, f, n)
      BY SumsExist
    <2>2. \A k \in 0 .. n : k # 0 => k \in 1 .. n
      OBVIOUS
    <2>3. \A k \in 0 .. n : (IF k = 0 THEN 0 ELSE g[k - 1] + f[k])
                              = (IF k = 0 THEN 0 ELSE g[k - 1] + d.lines[k].size)
      BY <2>2
    <2> HIDE DEF f
    <2> QED
      BY <2>1, <2>3 DEF IsSum
  <1>3. Is(e)
    BY <1>2, Zenon
  <1> HIDE DEF e
  <1>4. \A k \in 0 .. n : e[k] = IF k = 0 THEN 0 ELSE e[k - 1] + d.lines[k].size
    BY <1>3, Zenon
  <1>5. ASSUME NEW m \in Nat, m + 1 <= n
        PROVE  m + 1 \in 0 .. n /\ m + 1 # 0 /\ (m + 1) - 1 = m /\ 0 \in 0 .. n
    BY <1>5
  <1>6. 0 \in 0 .. n
    OBVIOUS
  <1> QED
    BY <1>1, <1>4, <1>5, <1>6, Zenon

Fresh == [at |-> 0, fence |-> NoFence, open |-> <<>>, paths |-> <<>>]

\* g holds what the scan is after each line.
IsScan(g, d) ==
  g = [k \in 0 .. Len(d.lines) |-> IF k = 0 THEN Fresh ELSE Scanned(g[k - 1], d.lines[k])]

LEMMA HeadingsAreScanned ==
  ASSUME NEW d, Len(d.lines) \in Nat
  PROVE  \E g : IsScan(g, d) /\ HeadingPaths(d) = g[Len(d.lines)].paths
  <1> DEFINE n == Len(d.lines)
             Step(g, k) == IF k = 0 THEN Fresh ELSE Scanned(g[k - 1], d.lines[k])
             Is(g, m) == g = [k \in 0 .. m |-> Step(g, k)]
             N == {m \in Nat : \E g : Is(g, m)}
  <1>1. 0 \in N
    <2>1. Is([k \in 0 .. 0 |-> Fresh], 0)
      OBVIOUS
    <2> QED
      BY <2>1
  <1>2. ASSUME NEW m \in Nat, m \in N PROVE m + 1 \in N
    <2>1. PICK g : Is(g, m)
      BY <1>2
    <2> DEFINE h == [k \in 0 .. m + 1 |-> IF k = m + 1 THEN Step(g, m + 1) ELSE g[k]]
    <2>2. ASSUME NEW k \in 0 .. m + 1 PROVE h[k] = Step(h, k)
      <3>1. CASE k = m + 1
        <4>1. h[k] = Step(g, m + 1) /\ h[k - 1] = g[(m + 1) - 1]
          BY <3>1
        <4> HIDE DEF h
        <4> QED
          BY <3>1, <4>1
      <3>2. CASE k \in 0 .. m
        <4>1. h[k] = g[k] /\ (k # 0 => h[k - 1] = g[k - 1])
          BY <3>2
        <4>2. g[k] = Step(g, k)
          BY <2>1, <3>2
        <4> HIDE DEF h
        <4> QED
          BY <3>2, <4>1, <4>2
      <3> QED
        BY <3>1, <3>2
    <2>3. h = [k \in 0 .. m + 1 |-> h[k]]
      OBVIOUS
    <2> HIDE DEF h
    <2>4. Is(h, m + 1)
      <3> HIDE DEF Step
      <3> QED
        BY <2>2, <2>3
    <2> QED
      BY <2>4
  <1>3. \E g : Is(g, n)
    <2>1. Nat \subseteq N
      <3> HIDE DEF N
      <3> QED
        BY <1>1, <1>2, NatSetInduction
    <2> QED
      BY <2>1
  <1> DEFINE g == CHOOSE g : Is(g, n)
  <1>4. Is(g, n)
    BY <1>3, Zenon
  <1>5. HeadingPaths(d) = g[n].paths
    BY DEF HeadingPaths, Fresh
  <1>6. IsScan(g, d)
    BY <1>4 DEF IsScan
  <1> QED
    BY <1>5, <1>6

LEMMA ScanStep ==
  ASSUME NEW d, Len(d.lines) \in Nat, NEW g, IsScan(g, d)
  PROVE  /\ g[0] = Fresh
         /\ \A m \in Nat : m + 1 <= Len(d.lines) => g[m + 1] = Scanned(g[m], d.lines[m + 1])
  <1> DEFINE n == Len(d.lines)
  <1>1. \A k \in 0 .. n : g[k] = IF k = 0 THEN Fresh ELSE Scanned(g[k - 1], d.lines[k])
    BY Zenon DEF IsScan
  <1>2. 0 \in 0 .. n
    OBVIOUS
  <1>3. ASSUME NEW m \in Nat, m + 1 <= n
        PROVE  m + 1 \in 0 .. n /\ m + 1 # 0 /\ (m + 1) - 1 = m
    BY <1>3
  <1> QED
    BY <1>1, <1>2, <1>3, Zenon

Fences == [kind : LineKinds, run : Nat]
Opened == [level : Nat, title : STRING]
Headings == [at : Nat, path : Seq(STRING)]
Scans == [at : Nat, fence : Fences, open : Seq(Opened), paths : Seq(Headings)]

Heads(scan, line) == scan.fence = NoFence /\ line.kind = "heading"

Titles(open) == [i \in DOMAIN open |-> open[i].title]

\* The fence that is open after a line.
FenceAfter(fence, line) ==
  IF fence # NoFence THEN IF Closes(line, fence) THEN NoFence ELSE fence
  ELSE IF Opens(line) THEN [kind |-> line.kind, run |-> line.run] ELSE NoFence

LEMMA OpenTyped ==
  ASSUME NEW open \in Seq(Opened), NEW line \in Lines
  PROVE  Open(open, line) \in Seq(Opened) /\ Titles(Open(open, line)) \in Seq(STRING)
  <1> DEFINE a == Above(open, line.run)
             b == IF line.rest = "blank" THEN <<>> ELSE <<[level |-> line.run, title |-> line.rest]>>
             o == Open(open, line)
  <1>1. a \in Seq(Opened)
    BY ThoseAre DEF Above
  <1>2. line.run \in Nat /\ line.rest \in STRING
    BY DEF Lines
  <1>3. b \in Seq(Opened)
    <2>1. [level |-> line.run, title |-> line.rest] \in Opened
      BY <1>2 DEF Opened
    <2> HIDE DEF Opened
    <2> QED
      BY <2>1
  <1>4. o = a \o b
    BY DEF Open
  <1> HIDE DEF a, b, o
  <1>5. o \in Seq(Opened)
    BY <1>1, <1>3, <1>4, ConcatProperties
  <1>6. Len(o) \in Nat
    BY <1>5
  <1>7. DOMAIN o = 1 .. Len(o) /\ \A i \in 1 .. Len(o) : o[i] \in Opened
    BY <1>5
  <1>8. \A i \in 1 .. Len(o) : o[i].title \in STRING
    BY <1>7 DEF Opened
  <1>9. Titles(o) \in [1 .. Len(o) -> STRING]
    BY <1>7, <1>8 DEF Titles
  <1>10. Titles(o) \in Seq(STRING)
    BY ONLY <1>6, <1>9
  <1> QED
    BY <1>5, <1>10 DEF o

\* What a line does to the scan.
LEMMA ScannedIs ==
  ASSUME NEW scan \in Scans, NEW line \in Lines
  PROVE  LET next == Scanned(scan, line)
             open == Open(scan.open, line)
             path == [at |-> scan.at, path |-> Titles(open)] IN
         /\ next \in Scans /\ path \in Headings
         /\ next.at = scan.at + line.size
         /\ next.fence = FenceAfter(scan.fence, line)
         /\ next.open = IF Heads(scan, line) THEN open ELSE scan.open
         /\ next.paths = IF Heads(scan, line) THEN Append(scan.paths, path) ELSE scan.paths
  <1> DEFINE next == Scanned(scan, line)
             at == scan.at + line.size
             open == Open(scan.open, line)
             path == [at |-> scan.at, path |-> Titles(open)]
             fence == [kind |-> line.kind, run |-> line.run]
             paths == Append(scan.paths, path)
  <1>1. /\ scan.at \in Nat /\ scan.fence \in Fences /\ scan.open \in Seq(Opened)
        /\ scan.paths \in Seq(Headings)
        /\ scan = [at |-> scan.at, fence |-> scan.fence, open |-> scan.open, paths |-> scan.paths]
    BY DEF Scans
  <1>2. line.size \in Nat /\ line.kind \in LineKinds /\ line.run \in Nat
    BY DEF Lines
  <1>3. at \in Nat /\ fence \in Fences /\ NoFence \in Fences
    BY <1>1, <1>2 DEF Fences, NoFence, LineKinds
  <1>4. open \in Seq(Opened) /\ Titles(open) \in Seq(STRING)
    BY <1>1, OpenTyped
  <1>5. path \in Headings
    BY <1>1, <1>4 DEF Headings
  <1>6. paths \in Seq(Headings)
    BY <1>1, <1>5, AppendOf
  <1>7. next = IF scan.fence # NoFence
               THEN IF Closes(line, scan.fence)
                    THEN [at |-> at, fence |-> NoFence, open |-> scan.open, paths |-> scan.paths]
                    ELSE [at |-> at, fence |-> scan.fence, open |-> scan.open, paths |-> scan.paths]
               ELSE IF Opens(line)
                    THEN [at |-> at, fence |-> fence, open |-> scan.open, paths |-> scan.paths]
               ELSE IF line.kind = "heading"
                    THEN [at |-> at, fence |-> scan.fence, open |-> open, paths |-> paths]
                    ELSE [at |-> at, fence |-> scan.fence, open |-> scan.open, paths |-> scan.paths]
    <2> DEFINE moved == [scan EXCEPT !.at = @ + line.size]
    <2>1. moved = [at |-> at, fence |-> scan.fence, open |-> scan.open, paths |-> scan.paths]
      BY <1>1, SMTT(40)
    <2>2. CASE scan.fence # NoFence
      <3>1. next = IF Closes(line, scan.fence) THEN [moved EXCEPT !.fence = NoFence] ELSE moved
        BY <2>2 DEF Scanned
      <3> HIDE DEF moved, next, at, open, path, fence, paths
      <3> QED
        BY <2>1, <2>2, <3>1
    <2>3. CASE scan.fence = NoFence /\ Opens(line)
      <3>1. next = [moved EXCEPT !.fence = fence]
        BY <2>3 DEF Scanned, Opens
      <3> HIDE DEF moved, next, at, open, path, fence, paths
      <3> QED
        BY <2>1, <2>3, <3>1
    <2>4. CASE scan.fence = NoFence /\ ~ Opens(line) /\ line.kind = "heading"
      <3>1. next = [moved EXCEPT !.open = open, !.paths = Append(@, path)]
        BY <2>4 DEF Scanned, Titles
      <3> HIDE DEF moved, next, at, open, path, fence
      <3>2. Append(moved.paths, path) = paths
        BY <2>1
      <3>3. next = [moved EXCEPT !.open = open, !.paths = Append(moved.paths, path)]
        BY <2>1, <3>1
      <3> HIDE DEF paths
      <3>4. next = [moved EXCEPT !.open = open, !.paths = paths]
        BY <3>2, <3>3
      <3>5. next = [at |-> at, fence |-> scan.fence, open |-> open, paths |-> paths]
        BY <2>1, <3>4
      <3> QED
        BY <2>4, <3>5
    <2>5. CASE scan.fence = NoFence /\ ~ Opens(line) /\ line.kind # "heading"
      <3>1. next = moved
        BY <2>5 DEF Scanned
      <3> HIDE DEF moved, next, at, open, path, fence, paths
      <3> QED
        BY <2>1, <2>5, <3>1
    <2> QED
      BY <2>2, <2>3, <2>4, <2>5
  <1>8. Opens(line) => line.kind # "heading"
    BY DEF Opens
  <1> HIDE DEF next, at, open, path, fence, paths
  <1>9. next \in Scans
    BY <1>1, <1>3, <1>4, <1>6, <1>7 DEF Scans
  <1>10. next.at = at
    BY <1>7
  <1>11. next.fence = FenceAfter(scan.fence, line)
    BY <1>7 DEF FenceAfter, fence
  <1>12. next.open = IF Heads(scan, line) THEN open ELSE scan.open
    BY <1>7, <1>8 DEF Heads
  <1>13. next.paths = IF Heads(scan, line) THEN paths ELSE scan.paths
    BY <1>7, <1>8 DEF Heads
  <1> QED
    BY <1>5, <1>9, <1>10, <1>11, <1>12, <1>13 DEF next, at, open, path, paths

\* f goes through S from the least to the greatest, in n steps.
Enumerates(f, n, S) ==
  /\ f \in [1 .. n -> S]
  /\ \A x \in S : \E j \in 1 .. n : f[j] = x
  /\ \A i, j \in 1 .. n : i < j => f[i] < f[j]

LEMMA EnumerateMore ==
  ASSUME NEW f, NEW n \in Nat, NEW S, S \subseteq Nat, Enumerates(f, n, S),
         NEW x \in Nat, \A y \in S : y < x
  PROVE  Enumerates([j \in 1 .. n + 1 |-> IF j = n + 1 THEN x ELSE f[j]], n + 1, S \cup {x})
  <1> DEFINE h == [j \in 1 .. n + 1 |-> IF j = n + 1 THEN x ELSE f[j]]
  <1>1. \A j \in 1 .. n + 1 : j \in 1 .. n \/ j = n + 1
    OBVIOUS
  <1>2. n + 1 \in 1 .. n + 1 /\ \A j \in 1 .. n : j \in 1 .. n + 1 /\ j # n + 1
    OBVIOUS
  <1>3. h[n + 1] = x /\ \A j \in 1 .. n : h[j] = f[j]
    BY <1>2
  <1>4. \A j \in 1 .. n : f[j] \in S
    BY DEF Enumerates
  <1>5. h \in [1 .. n + 1 -> S \cup {x}]
    BY <1>1, <1>4
  <1> HIDE DEF h
  <1>6. \A y \in S \cup {x} : \E j \in 1 .. n + 1 : h[j] = y
    BY <1>2, <1>3, Zenon DEF Enumerates
  <1>7. ASSUME NEW i \in 1 .. n + 1, NEW j \in 1 .. n + 1, i < j PROVE h[i] < h[j]
    <2>1. i \in 1 .. n
      BY <1>7
    <2>2. CASE j = n + 1
      BY <1>3, <1>4, <2>1, <2>2
    <2>3. CASE j \in 1 .. n
      BY <1>3, <1>7, <2>1, <2>3 DEF Enumerates
    <2> QED
      BY <1>1, <2>2, <2>3
  <1> QED
    BY <1>5, <1>6, <1>7 DEF Enumerates, h

\* The first p of them, if T holds these and no other.
LEMMA EnumerateFirst ==
  ASSUME NEW f, NEW n \in Nat, NEW S, Enumerates(f, n, S), NEW p \in 0 .. n, NEW T, T \subseteq S,
         \A j \in 1 .. n : f[j] \in T <=> j <= p
  PROVE  Enumerates([j \in 1 .. p |-> f[j]], p, T)
  <1> DEFINE h == [j \in 1 .. p |-> f[j]]
  <1>1. \A j \in 1 .. p : j \in 1 .. n /\ j <= p /\ h[j] = f[j]
    OBVIOUS
  <1>2. h \in [1 .. p -> T]
    BY <1>1
  <1> HIDE DEF h
  <1>3. ASSUME NEW x \in T PROVE \E j \in 1 .. p : h[j] = x
    <2>1. PICK j \in 1 .. n : f[j] = x
      BY DEF Enumerates
    <2>2. j \in 1 .. p
      BY <2>1
    <2> QED
      BY <1>1, <2>1, <2>2
  <1>4. \A i, j \in 1 .. p : i < j => h[i] < h[j]
    BY <1>1 DEF Enumerates
  <1> QED
    BY <1>2, <1>3, <1>4 DEF Enumerates, h

\* The headings among the first m lines, outside of fences.
HeadingLines(g, d, m) == {k \in 1 .. m : Heads(g[k - 1], d.lines[k])}

\* Each has its path.
PathsRead(g, d, m) ==
  \E line : /\ Enumerates(line, Len(g[m].paths), HeadingLines(g, d, m))
            /\ \A j \in 1 .. Len(g[m].paths) :
                 g[m].paths[j] = [at |-> LineEnds(d)[line[j] - 1], path |-> Titles(g[line[j]].open)]

LEMMA ScanTyped ==
  ASSUME NEW d \in Documents, NEW g, IsScan(g, d), NEW m \in 0 .. Len(d.lines)
  PROVE  g[m] \in Scans /\ g[m].at = LineEnds(d)[m]
  <1> DEFINE n == Len(d.lines)
             P(k) == g[k] \in Scans /\ g[k].at = LineEnds(d)[k]
             N == {k \in Nat : k <= n => P(k)}
  <1>0. n \in Nat
    BY DocumentTyped
  <1>1. 0 \in N
    <2>1. g[0] = Fresh
      BY <1>0, ScanStep
    <2>2. Fresh \in Scans
      BY EmptySeq DEF Fresh, Scans, Fences, NoFence, LineKinds
    <2>3. Fresh.at = 0 /\ LineEnds(d)[0] = 0
      BY <1>0, LineEndsStep DEF Fresh
    <2> QED
      BY <2>1, <2>2, <2>3
  <1>2. ASSUME NEW k \in Nat, k \in N PROVE k + 1 \in N
    <2> SUFFICES ASSUME k + 1 <= n PROVE P(k + 1)
      OBVIOUS
    <2>1. P(k) /\ k + 1 \in 1 .. n
      BY <1>0, <1>2
    <2>2. g[k + 1] = Scanned(g[k], d.lines[k + 1])
      BY <1>0, ScanStep
    <2>3. d.lines[k + 1] \in Lines
      BY <2>1, DocumentTyped
    <2>4. g[k + 1] \in Scans /\ g[k + 1].at = g[k].at + d.lines[k + 1].size
      BY <2>1, <2>2, <2>3, ScannedIs, ZenonT(60)
    <2>5. LineEnds(d)[k + 1] = LineEnds(d)[k] + d.lines[k + 1].size
      BY <1>0, LineEndsStep
    <2> QED
      BY <2>1, <2>4, <2>5
  <1>3. Nat \subseteq N
    <2> HIDE DEF N
    <2> QED
      BY <1>1, <1>2, NatSetInduction
  <1>4. m \in N /\ m <= n
    <2> HIDE DEF N
    <2> QED
      BY <1>0, <1>3
  <1> QED
    BY <1>4

\* What line m + 1 adds.
Adds(g, d, m) ==
  LET line == d.lines[m + 1]
      open == Open(g[m].open, line)
      path == [at |-> LineEnds(d)[m], path |-> Titles(open)] IN
  /\ m + 1 \in 1 .. Len(d.lines) /\ line \in Lines /\ g[m] \in Scans /\ path \in Headings
  /\ g[m + 1].fence = FenceAfter(g[m].fence, line)
  /\ Heads(g[m], line) =>
       /\ g[m + 1].open = open /\ g[m + 1].paths = Append(g[m].paths, path)
       /\ HeadingLines(g, d, m + 1) = HeadingLines(g, d, m) \cup {m + 1}
  /\ ~ Heads(g[m], line) =>
       /\ g[m + 1].open = g[m].open /\ g[m + 1].paths = g[m].paths
       /\ HeadingLines(g, d, m + 1) = HeadingLines(g, d, m)

LEMMA ScanMore ==
  ASSUME NEW d \in Documents, NEW g, IsScan(g, d), NEW m \in Nat, m + 1 <= Len(d.lines)
  PROVE  Adds(g, d, m)
  <1>1. Len(d.lines) \in Nat /\ m + 1 \in 1 .. Len(d.lines) /\ m \in 0 .. Len(d.lines)
    BY DocumentTyped
  <1>2. d.lines[m + 1] \in Lines /\ g[m] \in Scans /\ g[m].at = LineEnds(d)[m]
    BY <1>1, DocumentTyped, ScanTyped
  <1>3. g[m + 1] = Scanned(g[m], d.lines[m + 1])
    BY <1>1, ScanStep
  <1>4. HeadingLines(g, d, m + 1) = HeadingLines(g, d, m)
          \cup IF Heads(g[m], d.lines[m + 1]) THEN {m + 1} ELSE {}
    <2>1. \A k : k \in 1 .. m + 1 <=> k \in 1 .. m \/ k = m + 1
      OBVIOUS
    <2>2. (m + 1) - 1 = m
      OBVIOUS
    <2> QED
      BY <2>1, <2>2 DEF HeadingLines
  <1> DEFINE line == d.lines[m + 1]
             open == Open(g[m].open, line)
             path == [at |-> g[m].at, path |-> Titles(open)]
  <1>5. /\ path \in Headings
        /\ g[m + 1].fence = FenceAfter(g[m].fence, line)
        /\ g[m + 1].open = IF Heads(g[m], line) THEN open ELSE g[m].open
        /\ g[m + 1].paths = IF Heads(g[m], line) THEN Append(g[m].paths, path) ELSE g[m].paths
    BY <1>2, <1>3, ScannedIs
  <1>6. path = [at |-> LineEnds(d)[m], path |-> Titles(open)]
    BY <1>2
  <1> HIDE DEF path, open
  <1>7. Heads(g[m], line) =>
          /\ g[m + 1].open = open /\ g[m + 1].paths = Append(g[m].paths, path)
          /\ HeadingLines(g, d, m + 1) = HeadingLines(g, d, m) \cup {m + 1}
    BY <1>4, <1>5
  <1>8. ~ Heads(g[m], line) =>
          /\ g[m + 1].open = g[m].open /\ g[m + 1].paths = g[m].paths
          /\ HeadingLines(g, d, m + 1) = HeadingLines(g, d, m)
    BY <1>4, <1>5
  <1> QED
    BY <1>1, <1>2, <1>5, <1>6, <1>7, <1>8, Zenon DEF open, Adds

LEMMA PathsAreRead ==
  ASSUME NEW d \in Documents, NEW g, IsScan(g, d), NEW m \in 0 .. Len(d.lines)
  PROVE  PathsRead(g, d, m)
  <1> DEFINE n == Len(d.lines)
             N == {k \in Nat : k <= n => PathsRead(g, d, k)}
  <1>0. n \in Nat
    BY DocumentTyped
  <1>1. 0 \in N
    <2>1. g[0] = Fresh
      BY <1>0, ScanStep
    <2>2. g[0].paths = <<>> /\ Len(g[0].paths) = 0
      BY <2>1, EmptySeq DEF Fresh
    <2>3. HeadingLines(g, d, 0) = {}
      BY DEF HeadingLines
    <2>4. Enumerates([j \in 1 .. 0 |-> 0], 0, {})
      BY DEF Enumerates
    <2>5. \A line : \A j \in 1 .. 0 :
            g[0].paths[j] = [at |-> LineEnds(d)[line[j] - 1], path |-> Titles(g[line[j]].open)]
      OBVIOUS
    <2>6. PathsRead(g, d, 0)
      BY <2>2, <2>3, <2>4, <2>5, Zenon DEF PathsRead
    <2> QED
      BY <2>6
  <1>2. ASSUME NEW k \in Nat, k \in N PROVE k + 1 \in N
    <2> SUFFICES ASSUME k + 1 <= n PROVE PathsRead(g, d, k + 1)
      OBVIOUS
    <2>1. PathsRead(g, d, k)
      BY <1>0, <1>2
    <2> DEFINE line == d.lines[k + 1]
               open == Open(g[k].open, line)
               path == [at |-> LineEnds(d)[k], path |-> Titles(open)]
               S == HeadingLines(g, d, k)
               paths == g[k].paths
               len == Len(paths)
    <2>2. /\ k + 1 \in 1 .. n /\ line \in Lines /\ g[k] \in Scans /\ path \in Headings
          /\ Heads(g[k], line) =>
               /\ g[k + 1].open = open /\ g[k + 1].paths = Append(paths, path)
               /\ HeadingLines(g, d, k + 1) = S \cup {k + 1}
          /\ ~ Heads(g[k], line) =>
               /\ g[k + 1].open = g[k].open /\ g[k + 1].paths = paths
               /\ HeadingLines(g, d, k + 1) = S
      <3>1. Adds(g, d, k)
        BY ScanMore
      <3> QED
        BY <3>1, Zenon DEF Adds
    <2>3. CASE ~ Heads(g[k], line)
      BY <2>1, <2>2, <2>3 DEF PathsRead
    <2>4. CASE Heads(g[k], line)
      <3>1. paths \in Seq(Headings)
        BY <2>2 DEF Scans
      <3> DEFINE more == Append(paths, path)
      <3>2. /\ len \in Nat /\ Len(more) = len + 1 /\ more[len + 1] = path
            /\ \A j \in 1 .. len : more[j] = paths[j]
        BY <2>2, <3>1, AppendOf
      <3>3. g[k + 1].paths = more /\ g[k + 1].open = open /\ HeadingLines(g, d, k + 1) = S \cup {k + 1}
        BY <2>2, <2>4
      <3>4. PICK f : /\ Enumerates(f, len, S)
                     /\ \A j \in 1 .. len :
                          paths[j] = [at |-> LineEnds(d)[f[j] - 1], path |-> Titles(g[f[j]].open)]
        BY <2>1 DEF PathsRead
      <3>5. S \subseteq Nat /\ \A x \in S : x < k + 1
        BY DEF HeadingLines
      <3> DEFINE h == [j \in 1 .. len + 1 |-> IF j = len + 1 THEN k + 1 ELSE f[j]]
      <3>6. Enumerates(h, len + 1, S \cup {k + 1})
        <4>1. k + 1 \in Nat
          OBVIOUS
        <4> HIDE DEF S, len
        <4> QED
          BY <3>2, <3>4, <3>5, <4>1, EnumerateMore
      <3>7. h[len + 1] = k + 1 /\ \A j \in 1 .. len : h[j] = f[j]
        BY <3>2
      <3>8. \A j \in 1 .. len + 1 : j \in 1 .. len \/ j = len + 1
        BY <3>2, SMTT(40)
      <3>9. (k + 1) - 1 = k
        OBVIOUS
      <3>10. path = [at |-> LineEnds(d)[h[len + 1] - 1], path |-> Titles(g[h[len + 1]].open)]
        BY <3>3, <3>7, <3>9
      <3> HIDE DEF h, more, path, open, S, line
      <3>11. \A j \in 1 .. len + 1 :
               more[j] = [at |-> LineEnds(d)[h[j] - 1], path |-> Titles(g[h[j]].open)]
        BY <3>2, <3>4, <3>7, <3>8, <3>10
      <3> QED
        BY <3>2, <3>3, <3>6, <3>11 DEF PathsRead
    <2> QED
      BY <2>3, <2>4
  <1>3. Nat \subseteq N
    <2> HIDE DEF N
    <2> QED
      BY <1>1, <1>2, NatSetInduction
  <1>4. m \in N /\ m <= n
    <2> HIDE DEF N
    <2> QED
      BY <1>0, <1>3
  <1> QED
    BY <1>4

\* Headings begin where a line does.
LEMMA HeadingsTyped ==
  ASSUME NEW d \in Documents
  PROVE  /\ HeadingPaths(d) \in Seq(Headings)
         /\ \A h \in Range(HeadingPaths(d)) : h.at \in d.chars
  <1> DEFINE n == Len(d.lines)
             paths == HeadingPaths(d)
  <1>0. n \in Nat /\ n \in 0 .. n
    BY DocumentTyped
  <1>1. PICK g : IsScan(g, d) /\ paths = g[n].paths
    BY <1>0, HeadingsAreScanned
  <1> HIDE DEF paths
  <1>2. paths \in Seq(Headings)
    BY <1>0, <1>1, ScanTyped DEF Scans
  <1>3. PICK line : /\ Enumerates(line, Len(paths), HeadingLines(g, d, n))
                    /\ \A j \in 1 .. Len(paths) :
                         paths[j] = [at |-> LineEnds(d)[line[j] - 1], path |-> Titles(g[line[j]].open)]
    BY <1>0, <1>1, PathsAreRead DEF PathsRead
  <1>4. ASSUME NEW h \in Range(paths) PROVE h.at \in d.chars
    <2>1. PICK j \in 1 .. Len(paths) : h = paths[j]
      BY <1>2 DEF Range
    <2>2. line[j] \in 1 .. n
      BY <1>3 DEF Enumerates, HeadingLines
    <2>3. line[j] - 1 \in 0 .. n
      BY <1>0, <2>2
    <2>4. h.at = LineEnds(d)[line[j] - 1]
      <3>1. paths[j] = [at |-> LineEnds(d)[line[j] - 1], path |-> Titles(g[line[j]].open)]
        BY <1>3
      <3> QED
        BY ONLY <2>1, <3>1
    <2> QED
      BY <2>3, <2>4, DocumentTyped
  <1> QED
    BY <1>2, <1>4 DEF paths

-----------------------------------------------------------------------------
(* The chunks of a document                                                *)

\* hs are headings within d.
Within(hs, d) == hs \in Seq(Headings) /\ \A h \in Range(hs) : h.at \in d.chars

NoneInside(hs, start, end) == \A h \in Range(hs) : ~ (start < h.at /\ h.at < end)

\* A section ends after it starts, and at the next heading.
LEMMA SectionEndIs ==
  ASSUME NEW d \in Documents, NEW hs, Within(hs, d), NEW start \in d.chars
  PROVE  /\ SectionEnd(d, hs, start) \in d.chars
         /\ start < SectionEnd(d, hs, start) \/ start = Length(d)
         /\ NoneInside(hs, start, SectionEnd(d, hs, start))
  <1> DEFINE S == {h.at : h \in {h \in Range(hs) : h.at > start}} \cup {Length(d)}
             stop == SectionEnd(d, hs, start)
  <1>1. \A c \in d.chars : c \in Nat /\ c <= Length(d)
    BY DocumentTyped
  <1>2. S \subseteq d.chars /\ Length(d) \in S
    BY DocumentTyped DEF Within
  <1>3. \A h \in Range(hs) : h.at > start => h.at \in S
    OBVIOUS
  <1>4. \A c \in S : c > start \/ c = Length(d)
    OBVIOUS
  <1>5. stop = Min(S)
    BY DEF SectionEnd
  <1> HIDE DEF S, stop
  <1>6. S \subseteq Nat /\ S \subseteq Int
    BY <1>1, <1>2
  <1>7. PICK m \in S : \A c \in S : m <= c
    BY <1>2, <1>6, LeastOfSet
  <1>8. stop = m
    BY <1>5, <1>6, <1>7, MinIs
  <1>9. start \in Nat /\ m \in Nat /\ m \in d.chars /\ start <= Length(d) /\ Length(d) \in Nat
    BY <1>1, <1>2, DocumentTyped
  <1>10. start < m \/ start = Length(d)
    <2>1. m > start \/ m = Length(d)
      BY <1>4
    <2> QED
      BY <1>9, <2>1
  <1>11. ASSUME NEW h \in Range(hs), start < h.at, h.at < m PROVE FALSE
    <2>1. h.at \in Nat
      BY <1>1 DEF Within
    <2>2. h.at \in S
      BY <1>3, <1>9, <1>11, <2>1
    <2>3. m <= h.at
      BY <1>7, <2>2
    <2> QED
      BY <1>9, <1>11, <2>1, <2>3
  <1> QED
    BY <1>8, <1>9, <1>10, <1>11 DEF NoneInside, stop

\* What the loop may cut off next.
LEMMA FittingEndIs ==
  ASSUME NEW d \in Documents, NEW hs, Within(hs, d), NEW start \in d.chars,
         NEW end \in FittingEnds(d, hs, start)
  PROVE  /\ end \in d.chars /\ (start < end \/ start = Length(d))
         /\ d.tokens[<<start, end>>] <= Budget
         /\ NoneInside(hs, start, end)
  <1> DEFINE stop == SectionEnd(d, hs, start)
  <1>1. \A c \in d.chars : c \in Nat /\ c <= Length(d)
    BY DocumentTyped
  <1>2. stop \in d.chars /\ (start < stop \/ start = Length(d)) /\ NoneInside(hs, start, stop)
    BY SectionEndIs
  <1>3. \/ end = stop /\ Fits(d, start, end)
        \/ end \in d.chars /\ start < end /\ end < stop /\ Fits(d, start, end)
    BY DEF FittingEnds
  <1> HIDE DEF stop
  <1>4. end \in d.chars /\ (start < end \/ start = Length(d))
    BY <1>2, <1>3
  <1>5. d.tokens[<<start, end>>] <= Budget
    BY <1>3 DEF Fits
  <1>6. NoneInside(hs, start, end)
    <2>1. CASE end = stop
      BY <1>2, <2>1
    <2>2. CASE end < stop
      <3>1. ASSUME NEW h \in Range(hs), start < h.at, h.at < end PROVE FALSE
        <4>1. h.at \in Nat /\ end \in Nat /\ stop \in Nat
          BY <1>1, <1>2, <1>4 DEF Within
        <4>2. h.at < stop
          BY <2>2, <3>1, <4>1
        <4> QED
          BY <1>2, <3>1, <4>2 DEF NoneInside
      <3> QED
        BY <3>1 DEF NoneInside
    <2> QED
      BY <1>3, <2>1, <2>2
  <1> QED
    BY <1>4, <1>5, <1>6

ChunkOf(hs) ==
  [index : Nat, start : Nat, end : Nat, title : {TitleAt(hs, at) : at \in Nat}, tokens : Nat]

\* The i-th chunk, if it is cut as the code does it.
Cutting(d, hs, cs, i) ==
  /\ cs[i].index = i - 1
  /\ cs[i].start = IF i = 1 THEN 0 ELSE cs[i - 1].end
  /\ cs[i].start \in d.chars /\ cs[i].end \in d.chars
  /\ cs[i].start < cs[i].end \/ Length(d) = 0
  /\ cs[i].tokens <= Budget
  /\ NoneInside(hs, cs[i].start, cs[i].end)
  /\ cs[i].title = TitleAt(hs, cs[i].start)

WellCut(d, hs, cs) ==
  /\ cs \in Seq(ChunkOf(hs))
  /\ \A i \in 1 .. Len(cs) : Cutting(d, hs, cs, i)
  /\ Length(d) = 0 => Len(cs) <= 1

LEMMA CutsWell ==
  ASSUME NEW d \in Documents, NEW hs, Within(hs, d), NEW cs, WellCut(d, hs, cs),
         ~ (cs # <<>> /\ EndOf(cs) = Length(d)),
         NEW end \in FittingEnds(d, hs, EndOf(cs))
  PROVE  WellCut(d, hs, Append(cs, ChunkTo(d, hs, cs, EndOf(cs), end)))
  <1> DEFINE start == EndOf(cs)
             c == ChunkTo(d, hs, cs, start, end)
             n == Len(cs)
             more == Append(cs, c)
  <1>1. cs \in Seq(ChunkOf(hs)) /\ n \in Nat /\ \A i \in 1 .. n : Cutting(d, hs, cs, i)
    BY DEF WellCut
  <1>2. \A x \in d.chars : x \in Nat /\ x <= Length(d)
    BY DocumentTyped
  <1>3. n = 0 <=> cs = <<>>
    BY <1>1, EmptySeq
  <1>4. start = IF n = 0 THEN 0 ELSE cs[n].end
    BY <1>3 DEF EndOf, Last
  <1>5. start \in d.chars
    <2>1. CASE n = 0
      BY <1>4, <2>1, DocumentTyped
    <2>2. CASE n # 0
      <3>1. n \in 1 .. n
        BY <1>1, <2>2
      <3>2. Cutting(d, hs, cs, n)
        BY <1>1, <3>1
      <3> QED
        BY <1>4, <2>2, <3>2 DEF Cutting
    <2> QED
      BY <2>1, <2>2
  <1>6. n = 0 \/ start # Length(d)
    BY <1>3
  <1>7. /\ end \in d.chars /\ (start < end \/ start = Length(d))
        /\ d.tokens[<<start, end>>] <= Budget /\ NoneInside(hs, start, end)
    BY <1>5, FittingEndIs
  <1>8. c = [index |-> n, start |-> start, end |-> end, title |-> TitleAt(hs, start),
             tokens |-> d.tokens[<<start, end>>]]
    BY DEF ChunkTo
  <1> HIDE DEF c, start
  <1>9. c \in ChunkOf(hs)
    <2>1. start \in Nat /\ end \in Nat /\ d.tokens[<<start, end>>] \in Nat
      BY <1>2, <1>5, <1>7, DocumentTyped
    <2> QED
      BY <1>1, <1>8, <2>1 DEF ChunkOf
  <1>10. /\ more \in Seq(ChunkOf(hs)) /\ Len(more) = n + 1 /\ more[n + 1] = c
         /\ \A i \in 1 .. n : more[i] = cs[i]
    BY <1>1, <1>9, AppendOf
  <1> HIDE DEF more
  <1>11. ASSUME NEW i \in 1 .. n PROVE Cutting(d, hs, more, i)
    <2>1. more[i] = cs[i] /\ (i # 1 => more[i - 1] = cs[i - 1])
      BY <1>1, <1>10
    <2>2. Cutting(d, hs, cs, i)
      BY <1>1
    <2> QED
      BY <2>1, <2>2 DEF Cutting
  <1>12. Cutting(d, hs, more, n + 1)
    <2>1. /\ c.index = (n + 1) - 1 /\ c.start = start /\ c.end = end
          /\ c.title = TitleAt(hs, c.start) /\ c.tokens <= Budget
      BY <1>1, <1>7, <1>8
    <2>2. start = IF n + 1 = 1 THEN 0 ELSE more[(n + 1) - 1].end
      <3>1. n # 0 => n \in 1 .. n
        BY <1>1
      <3> QED
        BY <1>1, <1>4, <1>10, <3>1
    <2>3. start < end \/ Length(d) = 0
      <3>1. n = 0 => start = 0
        BY <1>4
      <3> QED
        BY <1>6, <1>7, <3>1
    <2> QED
      BY <1>5, <1>7, <1>10, <2>1, <2>2, <2>3 DEF Cutting
  <1>13. \A i \in 1 .. n + 1 : i \in 1 .. n \/ i = n + 1
    BY <1>1
  <1>14. Length(d) = 0 => n + 1 <= 1
    <2> SUFFICES ASSUME Length(d) = 0, n # 0 PROVE FALSE
      BY <1>1
    <2>1. start = 0
      BY <1>2, <1>5
    <2> QED
      BY <1>6, <2>1
  <1> QED
    BY <1>10, <1>11, <1>12, <1>13, <1>14 DEF WellCut, more, c, start

-----------------------------------------------------------------------------
(* The inductive invariant                                                 *)

\* Between generations there are no chunks; during one they are cut well.
JobInv ==
  /\ doc \in Documents \cup {None}
  /\ doc = None => headings = <<>> /\ chunks = <<>>
  /\ doc # None => headings = HeadingPaths(doc) /\ WellCut(doc, headings, chunks)

Placed(places) == {i \in DOMAIN progress : progress[i].at \in places}

\* Who is at the gate, and who is done.
GateInv ==
  /\ progress \in Seq(Progress) /\ Len(progress) = Len(chunks)
  /\ gate \in Seq(Nat \cup Searches) /\ IsInjective(gate)
  /\ Range(gate) \ Searches = Placed({"queued", "sent"})
  /\ Placed({"sent"}) \subseteq InFront(gate)
  /\ done \in Seq(Nat) /\ IsInjective(done) /\ Range(done) = Placed({"done"})

\* No more are under way than the stream keeps.
FewUnderWay == Cardinality(UnderWay) <= Concurrency

\* The window holds what was let pass, without what has passed it since.
WindowInv ==
  /\ recent \in Seq(Requests) /\ Sorted(recent)
  /\ admitted \in Seq(Requests) /\ Sorted(admitted) /\ admitted = InWindow(recent)
  /\ sent \in Seq(Requests) /\ Sorted(sent)
  /\ \A k \in 1 .. Len(admitted) : admitted[k].age < Window
  /\ \A k \in 1 .. Len(sent) : sent[k].age < Window
  /\ AdmittedWithinLimits

\* What those cost that have been let pass and are not sent yet.
QueueCosts(cost) ==
  [i \in 1 .. Len(progress) |-> IF progress[i].at = "queued" THEN cost[chunks[i].tokens] ELSE 0]

Queue(cost) == Sum(QueueCosts(cost), Len(progress))

\* Of any age, no more has been sent than let pass, but for what was under way.
SentInv(cost, most) ==
  \A v \in 0 .. Window - 1 :
    Young(sent, cost, v) + Queue(cost) <= Young(admitted, cost, v) + Concurrency * most

RequestsInv ==
  /\ JobInv /\ GateInv /\ FewUnderWay /\ WindowInv
  /\ SentInv(ByRequest, 1) /\ SentInv(ByTokens, Budget)

-----------------------------------------------------------------------------
(* How long a request waits                                                *)

LEMMA RoomIs ==
  ASSUME NEW s \in Seq(Requests), NEW tokens \in Nat
  PROVE  Room(s, tokens) <=> /\ Young(s, ByRequest, Window) < Rpm
                             /\ Young(s, ByTokens, Window) + tokens <= Tpm
  <1>1. Tokens(s) = Young(s, ByTokens, Window) /\ Len(s) = Young(s, ByRequest, Window)
    BY TokensAreCosts
  <1> QED
    BY <1>1 DEF Room

LEMMA CostingsAre ==
  /\ ByTokens \in Costings /\ ByRequest \in Costings
  /\ \A t \in Nat : ByTokens[t] = t /\ ByRequest[t] = 1
  BY DEF ByTokens, ByRequest, Costings

\* The fewer are left, the more room there is; when none is, there is room.
LEMMA RoomGrows ==
  ASSUME NEW s \in Seq(Requests), NEW tokens \in Nat
  PROVE  /\ \A t, p : IsRest(t, s, p) => (Room(s, tokens) => Room(t, tokens))
         /\ Len(s) = 0 /\ tokens <= Tpm => Room(s, tokens)
  <1>1. ASSUME NEW t, NEW p, IsRest(t, s, p), Room(s, tokens) PROVE Room(t, tokens)
    <2>1. p \in 0 .. Len(s) /\ t = SubSeq(s, p + 1, Len(s)) /\ t \in Seq(Requests)
      BY <1>1, RestIs DEF IsRest
    <2>2. ASSUME NEW cost \in Costings
          PROVE  /\ Young(t, cost, Window) \in Nat /\ Young(s, cost, Window) \in Nat
                 /\ Young(t, cost, Window) <= Young(s, cost, Window)
      <3>1. Window \in Int /\ Window <= Window
        BY LimitsTyped
      <3>2. /\ Sum(Costs(s, cost, Window), p) \in Nat /\ Young(t, cost, Window) \in Nat
            /\ Young(s, cost, Window) = Sum(Costs(s, cost, Window), p) + Young(t, cost, Window)
        BY <2>1, <3>1, YoungSuffix
      <3> QED
        BY <3>2
    <2>3. /\ Young(t, ByTokens, Window) \in Nat /\ Young(s, ByTokens, Window) \in Nat
          /\ Young(t, ByTokens, Window) <= Young(s, ByTokens, Window)
      BY <2>2, CostingsAre
    <2>4. /\ Young(t, ByRequest, Window) \in Nat /\ Young(s, ByRequest, Window) \in Nat
          /\ Young(t, ByRequest, Window) <= Young(s, ByRequest, Window)
      BY <2>2, CostingsAre
    <2>5. Young(s, ByRequest, Window) < Rpm /\ Young(s, ByTokens, Window) + tokens <= Tpm
      BY <1>1, RoomIs
    <2>6. Young(t, ByRequest, Window) < Rpm /\ Young(t, ByTokens, Window) + tokens <= Tpm
      BY <2>3, <2>4, <2>5, LimitsTyped
    <2> QED
      BY <2>1, <2>6, RoomIs
  <1>2. ASSUME Len(s) = 0, tokens <= Tpm PROVE Room(s, tokens)
    <2>1. Tokens(s) = Young(s, ByTokens, Window)
      BY TokensAreCosts
    <2>2. Young(s, ByTokens, Window) = 0
      BY <1>2, SumStep DEF Young
    <2>3. 0 + tokens = tokens /\ 0 < Rpm
      BY LimitsTyped
    <2> QED
      BY <1>2, <2>1, <2>2, <2>3 DEF Room
  <1> QED
    BY <1>1, <1>2

\* Who waits, waits until the first has passed after whom there is room.
LEMMA WaitForIs ==
  ASSUME NEW s \in Seq(Requests), NEW tokens \in Nat, tokens <= Tpm, ~ Room(s, tokens)
  PROVE  \E m \in 1 .. Len(s) :
           /\ WaitFor(s, tokens) = Window - s[m].age
           /\ Room(SubSeq(s, m + 1, Len(s)), tokens)
           /\ \A k \in 0 .. m - 1 : ~ Room(SubSeq(s, k + 1, Len(s)), tokens)
  <1> DEFINE n == Len(s)
             leaving == {k \in 1 .. n : Room(SubSeq(s, k + 1, n), tokens)}
  <1>0. n \in Nat
    OBVIOUS
  <1>1. n # 0
    BY RoomGrows
  <1>2. n \in leaving
    <2>1. n \in 0 .. n /\ n \in 1 .. n
      BY <1>0, <1>1
    <2>2. IsRest(SubSeq(s, n + 1, n), s, n)
      BY <2>1, RestIs
    <2>3. SubSeq(s, n + 1, n) \in Seq(Requests) /\ Len(SubSeq(s, n + 1, n)) = n - n
      BY <2>2 DEF IsRest
    <2>4. n - n = 0
      BY <1>0
    <2>5. Room(SubSeq(s, n + 1, n), tokens)
      BY <2>3, <2>4, RoomGrows
    <2> QED
      BY <2>1, <2>5
  <1>3. leaving \subseteq Nat /\ leaving \subseteq Int
    BY <1>0
  <1>4. \A k : k \in leaving <=> k \in 1 .. n /\ Room(SubSeq(s, k + 1, n), tokens)
    OBVIOUS
  <1>5. WaitFor(s, tokens) = Window - s[Min(leaving)].age
    BY DEF WaitFor
  <1> HIDE DEF leaving
  <1>6. PICK m \in leaving : \A k \in leaving : m <= k
    BY <1>2, <1>3, LeastOfSet
  <1>7. Min(leaving) = m
    BY <1>3, <1>6, MinIs
  <1>8. m \in 1 .. n /\ Room(SubSeq(s, m + 1, n), tokens)
    BY <1>4
  <1>9. ASSUME NEW k \in 0 .. m - 1 PROVE ~ Room(SubSeq(s, k + 1, n), tokens)
    <2>1. CASE k = 0
      <3>1. SubSeq(s, 1, n) = s
        BY SubSeqFull
      <3>2. k + 1 = 1
        BY <2>1
      <3> QED
        BY <3>1, <3>2
    <2>2. CASE k # 0
      <3>1. k \in 1 .. n /\ ~ (m <= k)
        BY <1>0, <1>8, <2>2
      <3> QED
        BY <1>4, <1>6, <3>1
    <2> QED
      BY <2>1, <2>2
  <1> QED
    BY <1>5, <1>7, <1>8, <1>9

-----------------------------------------------------------------------------
(* How a step changes the chunks' progress                                 *)

\* The i-th chunk comes to e, the others stay.
Moves(i, e) ==
  /\ i \in DOMAIN progress /\ e \in Progress
  /\ progress' = [progress EXCEPT ![i] = e]

LEMMA ProgressTyped ==
  ASSUME progress \in Seq(Progress)
  PROVE  /\ Len(progress) \in Nat /\ DOMAIN progress = 1 .. Len(progress)
         /\ \A i \in DOMAIN progress :
              /\ progress[i] \in Progress /\ progress[i].at \in Places /\ progress[i].left \in Nat
              /\ progress[i].attempt \in 0 .. Len(Delays)
  <1>1. Len(progress) \in Nat /\ DOMAIN progress = 1 .. Len(progress)
    OBVIOUS
  <1>2. \A i \in DOMAIN progress : progress[i] \in Progress
    BY <1>1
  <1>3. \A e \in Progress : e.at \in Places /\ e.left \in Nat /\ e.attempt \in 0 .. Len(Delays)
    BY DEF Progress
  <1> QED
    BY <1>1, <1>2, <1>3

LEMMA MovesIs ==
  ASSUME progress \in Seq(Progress), NEW i, NEW e, Moves(i, e)
  PROVE  /\ progress' \in Seq(Progress) /\ Len(progress') = Len(progress)
         /\ DOMAIN progress' = DOMAIN progress
         /\ \A j \in DOMAIN progress : progress'[j] = IF j = i THEN e ELSE progress[j]
         /\ \A places : Placed(places)' = (Placed(places) \ {i}) \cup IF e.at \in places THEN {i} ELSE {}
  <1>1. DOMAIN progress = 1 .. Len(progress) /\ i \in 1 .. Len(progress) /\ e \in Progress
    BY DEF Moves
  <1>2. /\ progress' \in Seq(Progress) /\ Len(progress') = Len(progress)
        /\ \A j \in 1 .. Len(progress) : progress'[j] = IF j = i THEN e ELSE progress[j]
    BY <1>1, ExceptSeq DEF Moves
  <1>3. DOMAIN progress' = DOMAIN progress
    BY <1>1, <1>2
  <1>4. ASSUME NEW places
        PROVE  Placed(places)' = (Placed(places) \ {i}) \cup IF e.at \in places THEN {i} ELSE {}
    BY <1>1, <1>2, <1>3 DEF Placed
  <1> QED
    BY <1>1, <1>2, <1>3, <1>4

LEMMA ChunksTyped ==
  ASSUME JobInv, NEW i \in 1 .. Len(chunks)
  PROVE  /\ doc \in Documents /\ headings = HeadingPaths(doc) /\ WellCut(doc, headings, chunks)
         /\ chunks[i].tokens \in Nat /\ chunks[i].tokens <= Budget
         /\ Now(i) \in Requests /\ Now(i).age = 0 /\ Now(i).tokens = chunks[i].tokens
  <1>1. doc # None
    BY EmptySeq DEF JobInv
  <1>2. doc \in Documents /\ headings = HeadingPaths(doc) /\ WellCut(doc, headings, chunks)
    BY <1>1 DEF JobInv
  <1>3. chunks \in Seq(ChunkOf(headings)) /\ Cutting(doc, headings, chunks, i)
    BY <1>2 DEF WellCut
  <1>4. chunks[i] \in ChunkOf(headings)
    BY <1>3
  <1>5. chunks[i].tokens \in Nat
    BY <1>4 DEF ChunkOf
  <1>6. chunks[i].tokens <= Budget
    BY <1>3 DEF Cutting
  <1>7. Now(i) \in Requests /\ Now(i).age = 0 /\ Now(i).tokens = chunks[i].tokens
    BY <1>5, LimitsTyped DEF Now, Requests
  <1> QED
    BY <1>2, <1>5, <1>6, <1>7

-----------------------------------------------------------------------------
(* Steps at the gate                                                       *)

LEMMA GateFacts ==
  ASSUME GateInv
  PROVE  /\ \A i \in Placed({"queued", "sent"}) : i \in Range(gate) /\ i \notin Searches /\ i \in Nat
         /\ \A i \in DOMAIN progress : i \in Nat /\ i \notin Searches
         /\ \A x \in Range(gate) : x \in Searches \/ x \in Placed({"queued", "sent"})
         /\ \A i : i \in Placed({"sent"}) <=> i \in DOMAIN progress /\ progress[i].at = "sent"
         /\ \A i : i \in Placed({"queued", "sent"}) <=> i \in DOMAIN progress /\ progress[i].at \in {"queued", "sent"}
         /\ \A i : i \in Placed({"done"}) <=> i \in DOMAIN progress /\ progress[i].at = "done"
  <1>1. progress \in Seq(Progress) /\ Range(gate) \ Searches = Placed({"queued", "sent"})
    BY DEF GateInv
  <1>2. DOMAIN progress = 1 .. Len(progress)
    BY <1>1
  <1>3. \A i \in DOMAIN progress : i \in Nat /\ i \notin Searches
    BY <1>2, RequestsAssumption
  <1>4. \A places : Placed(places) \subseteq DOMAIN progress
    BY DEF Placed
  <1>5. \A i \in Placed({"queued", "sent"}) : i \in Range(gate) /\ i \notin Searches /\ i \in Nat
    BY <1>1, <1>3, <1>4
  <1>6. \A x \in Range(gate) : x \in Searches \/ x \in Placed({"queued", "sent"})
    BY <1>1
  <1> QED
    BY <1>3, <1>5, <1>6 DEF Placed

\* A chunk that stays at the gate, or away from it.
LEMMA GateStays ==
  ASSUME GateInv, NEW i, NEW e, Moves(i, e), UNCHANGED <<chunks, gate, done>>,
         progress[i].at \in {"queued", "sent"} <=> e.at \in {"queued", "sent"},
         progress[i].at = "done" <=> e.at = "done",
         e.at = "sent" => i \in InFront(gate)
  PROVE  GateInv'
  <1>1. /\ progress \in Seq(Progress) /\ Len(progress) = Len(chunks)
        /\ Range(gate) \ Searches = Placed({"queued", "sent"})
        /\ Placed({"sent"}) \subseteq InFront(gate)
        /\ Range(done) = Placed({"done"})
    BY DEF GateInv
  <1>2. /\ progress' \in Seq(Progress) /\ Len(progress') = Len(progress) /\ i \in DOMAIN progress
        /\ \A places : Placed(places)' = (Placed(places) \ {i}) \cup IF e.at \in places THEN {i} ELSE {}
    BY <1>1, MovesIs DEF Moves
  <1>3. Placed({"queued", "sent"})' = Placed({"queued", "sent"})
    <2>1. i \in Placed({"queued", "sent"}) <=> e.at \in {"queued", "sent"}
      BY <1>2 DEF Placed
    <2> QED
      BY <1>2, <2>1
  <1>4. Placed({"done"})' = Placed({"done"})
    <2>1. i \in Placed({"done"}) <=> e.at \in {"done"}
      BY <1>2 DEF Placed
    <2> QED
      BY <1>2, <2>1
  <1>5. Placed({"sent"})' \subseteq InFront(gate)
    BY <1>1, <1>2
  <1>6. InFront(gate)' = InFront(gate)
    BY DEF InFront
  <1> QED
    BY <1>1, <1>2, <1>3, <1>4, <1>5, <1>6 DEF GateInv

\* A chunk that asks for a permit.
LEMMA GateAsked ==
  ASSUME GateInv, NEW i, NEW e, Moves(i, e), UNCHANGED <<chunks, done>>,
         progress[i].at = "asleep", e.at = "queued", gate' = Append(gate, i)
  PROVE  GateInv'
  <1> DEFINE T == Nat \cup Searches
  <1>1. /\ progress \in Seq(Progress) /\ Len(progress) = Len(chunks)
        /\ gate \in Seq(T) /\ IsInjective(gate)
        /\ Range(gate) \ Searches = Placed({"queued", "sent"})
        /\ Placed({"sent"}) \subseteq InFront(gate)
        /\ done \in Seq(Nat) /\ IsInjective(done) /\ Range(done) = Placed({"done"})
    BY DEF GateInv
  <1>2. /\ progress' \in Seq(Progress) /\ Len(progress') = Len(progress) /\ i \in DOMAIN progress
        /\ \A places : Placed(places)' = (Placed(places) \ {i}) \cup IF e.at \in places THEN {i} ELSE {}
    BY <1>1, MovesIs DEF Moves
  <1>3. i \in T /\ i \notin Searches /\ i \notin Range(gate) /\ i \notin Placed({"done"})
        /\ i \notin Placed({"sent"}) /\ i \notin Placed({"queued", "sent"})
    BY <1>2, GateFacts
  <1>4. /\ gate' \in Seq(T) /\ IsInjective(gate') /\ Range(gate') = Range(gate) \cup {i}
        /\ InFront(gate) \subseteq InFront(gate')
    <2> HIDE DEF T
    <2> QED
      BY <1>1, <1>3, GateAfterAsking
  <1>5. Range(gate') \ Searches = Placed({"queued", "sent"})'
    <2>1. Placed({"queued", "sent"})' = Placed({"queued", "sent"}) \cup {i}
      BY <1>2, <1>3
    <2> QED
      BY <1>1, <1>3, <1>4, <2>1
  <1>6. Placed({"sent"})' \subseteq InFront(gate')
    <2>1. Placed({"sent"})' = Placed({"sent"})
      BY <1>2, <1>3
    <2> QED
      BY <1>1, <1>4, <2>1
  <1>7. Placed({"done"})' = Placed({"done"})
    BY <1>2, <1>3
  <1>8. InFront(gate)' = InFront(gate')
    BY DEF InFront
  <1> QED
    BY <1>1, <1>2, <1>4, <1>5, <1>6, <1>7, <1>8 DEF GateInv

\* A chunk that gives its permit back.
LEMMA GateLeft ==
  ASSUME GateInv, NEW i, NEW e, Moves(i, e), UNCHANGED chunks,
         progress[i].at = "sent", e.at \notin {"queued", "sent"}, gate' = RemoveFirst(gate, i),
         done' = IF e.at = "done" THEN Append(done, i) ELSE done
  PROVE  GateInv'
  <1> DEFINE T == Nat \cup Searches
  <1>1. /\ progress \in Seq(Progress) /\ Len(progress) = Len(chunks)
        /\ gate \in Seq(T) /\ IsInjective(gate)
        /\ Range(gate) \ Searches = Placed({"queued", "sent"})
        /\ Placed({"sent"}) \subseteq InFront(gate)
        /\ done \in Seq(Nat) /\ IsInjective(done) /\ Range(done) = Placed({"done"})
    BY DEF GateInv
  <1>2. /\ progress' \in Seq(Progress) /\ Len(progress') = Len(progress) /\ i \in DOMAIN progress
        /\ \A places : Placed(places)' = (Placed(places) \ {i}) \cup IF e.at \in places THEN {i} ELSE {}
    BY <1>1, MovesIs DEF Moves
  <1>3. i \in Nat /\ i \notin Searches /\ i \in Range(gate) /\ i \notin Placed({"done"})
    BY <1>2, GateFacts
  <1>4. /\ gate' \in Seq(T) /\ IsInjective(gate') /\ Range(gate') = Range(gate) \ {i}
        /\ InFront(gate) \ {i} \subseteq InFront(gate')
    <2> HIDE DEF T
    <2> QED
      BY <1>1, <1>3, GateAfterLeaving
  <1>5. Range(gate') \ Searches = Placed({"queued", "sent"})'
    <2>1. Placed({"queued", "sent"})' = Placed({"queued", "sent"}) \ {i}
      BY <1>2
    <2> QED
      BY <1>1, <1>3, <1>4, <2>1
  <1>6. Placed({"sent"})' \subseteq InFront(gate')
    <2>1. Placed({"sent"})' = Placed({"sent"}) \ {i}
      BY <1>2
    <2> QED
      BY <1>1, <1>4, <2>1
  <1>7. done' \in Seq(Nat) /\ IsInjective(done') /\ Range(done') = Placed({"done"})'
    <2>1. CASE e.at = "done"
      <3>1. done' = Append(done, i) /\ i \notin Range(done)
        BY <1>1, <1>3, <2>1
      <3>2. done' \in Seq(Nat) /\ IsInjective(done') /\ Range(done') = Range(done) \cup {i}
        BY <1>1, <1>3, <3>1, GateAfterAsking
      <3>3. Placed({"done"})' = Placed({"done"}) \cup {i}
        BY <1>2, <1>3, <2>1
      <3> QED
        BY <1>1, <3>2, <3>3
    <2>2. CASE e.at # "done"
      <3>1. Placed({"done"})' = Placed({"done"})
        BY <1>2, <1>3, <2>2
      <3> QED
        BY <1>1, <2>2, <3>1
    <2> QED
      BY <2>1, <2>2
  <1>8. InFront(gate)' = InFront(gate')
    BY DEF InFront
  <1> QED
    BY <1>1, <1>2, <1>4, <1>5, <1>6, <1>7, <1>8 DEF GateInv

\* Searches come and go, and take no chunk's permit.
LEMMA GateSearched ==
  ASSUME GateInv, NEW u \in Searches, Enter(u) \/ Leave(u)
  PROVE  GateInv'
  <1> DEFINE T == Nat \cup Searches
  <1>1. /\ gate \in Seq(T) /\ IsInjective(gate) /\ u \in T
        /\ Range(gate) \ Searches = Placed({"queued", "sent"})
        /\ Placed({"sent"}) \subseteq InFront(gate)
    BY DEF GateInv
  <1>2. UNCHANGED <<chunks, progress, done>>
    BY DEF Enter, Leave, job
  <1>3. u \notin Placed({"sent"})
    BY <1>2, GateFacts
  <1> HIDE DEF T
  <1>4. /\ gate' \in Seq(T) /\ IsInjective(gate') /\ Range(gate') \ Searches = Range(gate) \ Searches
        /\ InFront(gate) \ {u} \subseteq InFront(gate')
    <2>1. CASE Enter(u)
      <3>1. gate' = Append(gate, u) /\ u \notin Range(gate)
        BY <2>1 DEF Enter
      <3>2. /\ gate' \in Seq(T) /\ IsInjective(gate') /\ Range(gate') = Range(gate) \cup {u}
            /\ InFront(gate) \subseteq InFront(gate')
        BY <1>1, <3>1, GateAfterAsking
      <3> QED
        BY <3>2
    <2>2. CASE Leave(u)
      <3>1. gate' = RemoveFirst(gate, u) /\ u \in Range(gate)
        BY <2>2 DEF Leave
      <3>2. /\ gate' \in Seq(T) /\ IsInjective(gate') /\ Range(gate') = Range(gate) \ {u}
            /\ InFront(gate) \ {u} \subseteq InFront(gate')
        BY <1>1, <3>1, GateAfterLeaving
      <3> QED
        BY <3>2
    <2> QED
      BY <2>1, <2>2
  <1>5. \A places : Placed(places)' = Placed(places)
    BY <1>2 DEF Placed
  <1>6. InFront(gate)' = InFront(gate')
    BY DEF InFront
  <1>7. Placed({"sent"})' \subseteq InFront(gate)'
    BY <1>1, <1>3, <1>4, <1>5, <1>6
  <1>8. gate' \in Seq(Nat \cup Searches)
    BY <1>4 DEF T
  <1> QED
    BY <1>1, <1>2, <1>4, <1>5, <1>7, <1>8 DEF GateInv

\* The end of a generation takes all its chunks from the gate.
LEMMA GateEnded ==
  ASSUME GateInv, Ended
  PROVE  GateInv'
  <1> DEFINE T == Nat \cup Searches
  <1>1. gate \in Seq(T) /\ IsInjective(gate)
    BY DEF GateInv
  <1>2. gate' = Those(gate, Searches) /\ chunks' = <<>> /\ progress' = <<>> /\ done' = <<>>
    BY DEF Ended
  <1> HIDE DEF T
  <1>3. gate' \in Seq(T) /\ Range(gate') = Range(gate) \cap Searches /\ IsInjective(gate')
    BY <1>1, <1>2, ThoseAre
  <1>4. DOMAIN progress' = {} /\ DOMAIN done' = {}
    BY <1>2
  <1>5. \A places : Placed(places)' = {}
    BY <1>4 DEF Placed
  <1>6. Range(done') = {} /\ IsInjective(done')
    BY <1>4 DEF Range, IsInjective
  <1>7. progress' \in Seq(Progress) /\ done' \in Seq(Nat) /\ Len(progress') = Len(chunks')
    BY <1>2, EmptySeq
  <1>8. gate' \in Seq(Nat \cup Searches)
    BY <1>3 DEF T
  <1> QED
    BY <1>3, <1>5, <1>6, <1>7, <1>8 DEF GateInv

\* A chunk that is new has no progress.
LEMMA GateCut ==
  ASSUME GateInv, JobInv, JobInv', Cut
  PROVE  GateInv'
  <1> DEFINE n == Len(progress)
  <1>1. /\ progress \in Seq(Progress) /\ n \in Nat /\ Len(chunks) = n
        /\ DOMAIN progress = 1 .. n
    BY DEF GateInv
  <1>2. progress' = Append(progress, Unstarted) /\ UNCHANGED <<done, gate>>
    BY DEF Cut
  <1>3. Unstarted \in Progress
    <2>1. Len(Delays) \in Nat
      BY RequestsAssumption
    <2> QED
      BY <2>1 DEF Unstarted, Progress, Places
  <1>4. /\ progress' \in Seq(Progress) /\ Len(progress') = n + 1 /\ progress'[n + 1] = Unstarted
        /\ \A i \in 1 .. n : progress'[i] = progress[i]
    BY <1>1, <1>2, <1>3, AppendOf
  <1>5. Len(chunks') = n + 1
    <2>1. PICK c : chunks' = Append(chunks, c)
      BY DEF Cut
    <2>2. \E S : chunks \in Seq(S)
      <3>1. doc # None
        BY DEF Cut, Generating
      <3> QED
        BY <3>1 DEF JobInv, WellCut
    <2>3. PICK S : chunks \in Seq(S)
      BY <2>2
    <2>4. chunks \in Seq(S \cup {c})
      BY <2>3, SeqMonotonic
    <2> QED
      BY <1>1, <2>1, <2>4, AppendOf
  <1>6. DOMAIN progress' = 1 .. n + 1
    BY <1>4
  <1>7. \A i : i \in 1 .. n + 1 <=> i \in 1 .. n \/ i = n + 1
    BY <1>1
  <1>8. \A places : "unstarted" \notin places => Placed(places)' = Placed(places)
    <2> TAKE places
    <2> SUFFICES ASSUME "unstarted" \notin places PROVE Placed(places)' = Placed(places)
      OBVIOUS
    <2>1. progress'[n + 1].at = "unstarted"
      BY <1>4 DEF Unstarted
    <2>2. \A i : i \in Placed(places)' <=> i \in 1 .. n + 1 /\ progress'[i].at \in places
      BY <1>6 DEF Placed
    <2>3. \A i : i \in Placed(places) <=> i \in 1 .. n /\ progress[i].at \in places
      BY <1>1 DEF Placed
    <2> QED
      BY <1>4, <1>7, <2>1, <2>2, <2>3
  <1>9. InFront(gate)' = InFront(gate)
    BY <1>2 DEF InFront
  <1>10. /\ Placed({"queued", "sent"})' = Placed({"queued", "sent"})
         /\ Placed({"sent"})' = Placed({"sent"}) /\ Placed({"done"})' = Placed({"done"})
    BY <1>8
  <1> QED
    BY <1>2, <1>4, <1>5, <1>9, <1>10 DEF GateInv

\* Time wakes those that sleep, and no more.
LEMMA TickMoves ==
  ASSUME progress \in Seq(Progress), Tick
  PROVE  /\ progress' \in Seq(Progress) /\ Len(progress') = Len(progress)
         /\ DOMAIN progress' = DOMAIN progress
         /\ \A i \in DOMAIN progress :
              /\ progress'[i].at = progress[i].at
              /\ progress'[i].left = IF progress[i].left = 0 THEN 0 ELSE progress[i].left - 1
         /\ \A places : Placed(places)' = Placed(places)
  <1> DEFINE n == Len(progress)
             Less(e) == [e EXCEPT !.left = IF @ = 0 THEN 0 ELSE @ - 1]
  <1>1. n \in Nat /\ DOMAIN progress = 1 .. n /\ \A i \in 1 .. n : progress[i] \in Progress
    OBVIOUS
  <1>2. ASSUME NEW e \in Progress
        PROVE  /\ Less(e) \in Progress /\ Less(e).at = e.at
               /\ Less(e).left = IF e.left = 0 THEN 0 ELSE e.left - 1
    <2> DEFINE x == IF e.left = 0 THEN 0 ELSE e.left - 1
    <2>1. e.left \in Nat
      BY DEF Progress
    <2>2. x \in Nat
      BY <2>1
    <2>3. Less(e) = [e EXCEPT !.left = x]
      OBVIOUS
    <2> HIDE DEF x, Less
    <2>4. Less(e) \in Progress /\ Less(e).at = e.at /\ Less(e).left = x
      BY <2>2, <2>3 DEF Progress
    <2> QED
      BY <2>4 DEF x
  <1>3. progress' = [i \in 1 .. n |-> Less(progress[i])]
    BY <1>1 DEF Tick
  <1> HIDE DEF Less
  <1>4. \A i \in 1 .. n : progress'[i] = Less(progress[i]) /\ progress'[i] \in Progress
    BY <1>1, <1>2, <1>3
  <1>5. progress' \in [1 .. n -> Progress]
    BY <1>3, <1>4
  <1>6. progress' \in Seq(Progress) /\ Len(progress') = n
    BY ONLY <1>1, <1>5
  <1>7. DOMAIN progress' = 1 .. n
    BY <1>3
  <1>8. \A i \in 1 .. n :
          /\ progress'[i].at = progress[i].at
          /\ progress'[i].left = IF progress[i].left = 0 THEN 0 ELSE progress[i].left - 1
    BY <1>1, <1>2, <1>4
  <1>9. \A places : Placed(places)' = Placed(places)
    BY <1>1, <1>7, <1>8, Zenon DEF Placed
  <1> QED
    BY <1>1, <1>6, <1>7, <1>8, <1>9

LEMMA GateTicks ==
  ASSUME GateInv, Tick
  PROVE  GateInv'
  <1>1. progress \in Seq(Progress) /\ UNCHANGED <<chunks, gate, done>>
    BY DEF GateInv, Tick
  <1>2. /\ progress' \in Seq(Progress) /\ Len(progress') = Len(progress)
        /\ \A places : Placed(places)' = Placed(places)
    BY <1>1, TickMoves
  <1>3. InFront(gate)' = InFront(gate)
    BY <1>1 DEF InFront
  <1> QED
    BY <1>1, <1>2, <1>3 DEF GateInv

-----------------------------------------------------------------------------
(* Each step keeps the invariant                                           *)

\* What is cut stays well cut; a generation begins and ends with nothing.
LEMMA JobKept ==
  ASSUME JobInv, [RequestsNext]_requestsVars
  PROVE  JobInv'
  <1>1. CASE UNCHANGED <<doc, headings, chunks>>
    BY <1>1 DEF JobInv
  <1>2. ASSUME NEW d \in Documents, Begin(d) PROVE JobInv'
    <2>1. doc' = d /\ headings' = HeadingPaths(d) /\ chunks' = chunks /\ doc = None
      BY <1>2 DEF Begin, Generating
    <2>2. chunks' = <<>> /\ d # None
      BY <2>1, RequestsAssumption DEF JobInv
    <2>3. <<>> \in Seq(ChunkOf(headings')) /\ Len(<<>>) = 0
      BY EmptySeq
    <2>4. WellCut(doc', headings', chunks')
      <3>1. \A i \in 1 .. 0 : FALSE
        OBVIOUS
      <3> QED
        BY <2>2, <2>3, <3>1 DEF WellCut
    <2> QED
      BY <2>1, <2>2, <2>4 DEF JobInv
  <1>3. CASE Cut
    <2>1. PICK end \in FittingEnds(doc, headings, EndOf(chunks)) :
            chunks' = Append(chunks, ChunkTo(doc, headings, chunks, EndOf(chunks), end))
      BY <1>3 DEF Cut
    <2>2. /\ doc \in Documents /\ headings = HeadingPaths(doc) /\ WellCut(doc, headings, chunks)
          /\ doc # None /\ UNCHANGED <<doc, headings>>
      BY <1>3 DEF Cut, Generating, JobInv
    <2>3. Within(headings, doc)
      BY <2>2, HeadingsTyped DEF Within
    <2>4. ~ (chunks # <<>> /\ EndOf(chunks) = Length(doc))
      BY <1>3 DEF Cut, IsCut
    <2>5. WellCut(doc, headings, chunks')
      BY <2>1, <2>2, <2>3, <2>4, CutsWell
    <2> QED
      BY <2>2, <2>5 DEF JobInv
  <1>4. CASE Ended
    BY <1>4 DEF Ended, JobInv
  <1>5. ASSUME NEW i, ChunkStep(i)
        PROVE  UNCHANGED <<doc, headings, chunks>> \/ Ended
    BY <1>5 DEF ChunkStep, Start, Admit, SleepOn, TooLarge, Send, Succeed, Retry, Fail
  <1>6. CASE \E u \in Searches : Enter(u) \/ Leave(u)
    <2>1. UNCHANGED <<doc, headings, chunks>>
      BY <1>6 DEF Enter, Leave, job
    <2> QED
      BY <1>1, <2>1
  <1>7. CASE Tick
    BY <1>1, <1>7 DEF Tick
  <1>8. CASE CutFails \/ Finish
    BY <1>4, <1>8 DEF CutFails, Finish
  <1>9. CASE UNCHANGED requestsVars
    BY <1>1, <1>9 DEF requestsVars
  <1> QED
    BY <1>1, <1>2, <1>3, <1>4, <1>5, <1>6, <1>7, <1>8, <1>9 DEF RequestsNext

\* What a chunk's step does to its progress.
LEMMA StepMoves ==
  ASSUME JobInv, GateInv, WindowInv, NEW i \in DOMAIN progress, ChunkStep(i)
  PROVE  \/ Ended /\ UNCHANGED recent
         \/ \E e :
              /\ Moves(i, e) /\ UNCHANGED <<doc, headings, chunks>>
              /\ \/ Start(i) /\ progress[i].at = "unstarted" /\ e.at = "asleep"
                 \/ Admit(i) /\ progress[i].at = "asleep" /\ e.at = "queued"
                 \/ SleepOn(i) /\ progress[i].at = "asleep" /\ e.at = "asleep"
                 \/ Send(i) /\ progress[i].at = "queued" /\ e.at = "sent"
                 \/ Succeed(i) /\ progress[i].at = "sent" /\ e.at = "done"
                 \/ Retry(i) /\ progress[i].at = "sent" /\ e.at = "asleep"
  <1> DEFINE p == progress[i]
  <1>1. /\ progress \in Seq(Progress) /\ Len(progress) = Len(chunks) /\ i \in 1 .. Len(chunks)
        /\ p \in Progress
    BY ProgressTyped DEF GateInv
  <1>2. ASSUME NEW at \in Places
        PROVE  [p EXCEPT !.at = at] \in Progress /\ [p EXCEPT !.at = at].at = at
    BY <1>1 DEF Progress
  <1>3. ASSUME NEW at \in Places, progress' = [progress EXCEPT ![i].at = at]
        PROVE  Moves(i, [p EXCEPT !.at = at])
    BY <1>2, <1>3 DEF Moves
  <1>4. {"asleep", "queued", "sent", "done"} \subseteq Places
    BY DEF Places
  <1>5. CASE Start(i)
    <2>1. Moves(i, [p EXCEPT !.at = "asleep"]) /\ [p EXCEPT !.at = "asleep"].at = "asleep"
      BY <1>2, <1>3, <1>4, <1>5 DEF Start
    <2>2. UNCHANGED <<doc, headings, chunks>> /\ p.at = "unstarted"
      BY <1>5 DEF Start, Unstarted
    <2> QED
      BY <1>5, <2>1, <2>2, Zenon
  <1>6. CASE Admit(i)
    <2>1. Moves(i, [p EXCEPT !.at = "queued"]) /\ [p EXCEPT !.at = "queued"].at = "queued"
      BY <1>2, <1>3, <1>4, <1>6 DEF Admit
    <2>2. UNCHANGED <<doc, headings, chunks>> /\ p.at = "asleep"
      BY <1>6 DEF Admit, Awake
    <2> QED
      BY <1>6, <2>1, <2>2, Zenon
  <1>7. CASE SleepOn(i)
    <2> DEFINE w == WaitFor(InWindow(recent), chunks[i].tokens)
               e == [p EXCEPT !.left = w]
    <2>1. p.at = "asleep" /\ UNCHANGED <<doc, headings, chunks>> /\ progress' = [progress EXCEPT ![i].left = w]
      BY <1>7 DEF SleepOn, Awake
    <2>2. w \in Nat
      <3>1. chunks[i].tokens \in Nat
        BY <1>1, ChunksTyped
      <3>2. /\ admitted \in Seq(Requests) /\ InWindow(recent) = admitted
            /\ chunks[i].tokens <= Tpm /\ ~ Room(admitted, chunks[i].tokens)
        BY <1>7 DEF SleepOn, WindowInv
      <3>3. PICK m \in 1 .. Len(admitted) : w = Window - admitted[m].age
        BY <3>1, <3>2, WaitForIs
      <3>4. admitted[m] \in Requests
        BY <3>2
      <3>5. admitted[m].age \in Nat /\ admitted[m].age <= Window /\ Window \in Nat
        BY <3>4, RequestTyped, LimitsTyped
      <3> QED
        BY <3>3, <3>5
    <2> HIDE DEF w
    <2>3. e \in Progress /\ e.at = p.at
      BY <1>1, <2>2 DEF Progress
    <2>4. Moves(i, e)
      BY <2>1, <2>3 DEF Moves
    <2> HIDE DEF e
    <2> QED
      BY <1>7, <2>1, <2>3, <2>4, Zenon
  <1>8. CASE Send(i)
    <2>1. Moves(i, [p EXCEPT !.at = "sent"]) /\ [p EXCEPT !.at = "sent"].at = "sent"
      BY <1>2, <1>3, <1>4, <1>8 DEF Send
    <2>2. UNCHANGED <<doc, headings, chunks>> /\ p.at = "queued"
      BY <1>8 DEF Send
    <2> QED
      BY <1>8, <2>1, <2>2, Zenon
  <1>9. CASE Succeed(i)
    <2>1. Moves(i, [p EXCEPT !.at = "done"]) /\ [p EXCEPT !.at = "done"].at = "done"
      BY <1>2, <1>3, <1>4, <1>9 DEF Succeed
    <2>2. UNCHANGED <<doc, headings, chunks>> /\ p.at = "sent"
      BY <1>9 DEF Succeed
    <2> QED
      BY <1>9, <2>1, <2>2, Zenon
  <1>10. CASE Retry(i)
    <2> DEFINE k == p.attempt + 1
               e == [at |-> "asleep", left |-> Delays[k], attempt |-> k]
    <2>1. /\ p.at = "sent" /\ UNCHANGED <<doc, headings, chunks>> /\ k <= Len(Delays)
          /\ progress' = [progress EXCEPT ![i] = e]
      BY <1>10 DEF Retry
    <2>2. p.attempt \in 0 .. Len(Delays)
      BY <1>1 DEF Progress
    <2>3. Delays \in Seq(Nat \ {0}) /\ Len(Delays) \in Nat
      BY RequestsAssumption
    <2>4. k \in 1 .. Len(Delays)
      BY <2>1, <2>2, <2>3
    <2>5. Delays[k] \in Nat /\ k \in 0 .. Len(Delays)
      BY <2>3, <2>4
    <2>6. e \in Progress /\ e.at = "asleep"
      BY <1>4, <2>5 DEF Progress
    <2>7. Moves(i, e)
      BY <2>1, <2>6 DEF Moves
    <2> HIDE DEF e
    <2> QED
      BY <1>10, <2>1, <2>6, <2>7, Zenon
  <1>11. CASE TooLarge(i) \/ Fail(i)
    BY <1>11 DEF TooLarge, Fail
  <1> QED
    BY <1>5, <1>6, <1>7, <1>8, <1>9, <1>10, <1>11 DEF ChunkStep

\* The gate and the chunks' progress agree after each step.
LEMMA GateKept ==
  ASSUME JobInv, JobInv', GateInv, WindowInv, [RequestsNext]_requestsVars
  PROVE  GateInv'
  <1>1. CASE UNCHANGED <<chunks, progress, gate, done>>
    <2>1. \A places : Placed(places)' = Placed(places)
      BY <1>1 DEF Placed
    <2>2. InFront(gate)' = InFront(gate)
      BY <1>1 DEF InFront
    <2> QED
      BY <1>1, <2>1, <2>2 DEF GateInv
  <1>2. ASSUME NEW d \in Documents, Begin(d) PROVE GateInv'
    <2>1. UNCHANGED <<chunks, progress, gate, done>>
      BY <1>2 DEF Begin
    <2> QED
      BY <1>1, <2>1
  <1>3. CASE Cut
    BY <1>3, GateCut
  <1>4. CASE Ended
    BY <1>4, GateEnded
  <1>5. ASSUME NEW i \in DOMAIN progress, ChunkStep(i) PROVE GateInv'
    <2>1. SUFFICES ASSUME NEW e,
                     Moves(i, e), UNCHANGED <<doc, headings, chunks>>,
                     \/ Start(i) /\ progress[i].at = "unstarted" /\ e.at = "asleep"
                     \/ Admit(i) /\ progress[i].at = "asleep" /\ e.at = "queued"
                     \/ SleepOn(i) /\ progress[i].at = "asleep" /\ e.at = "asleep"
                     \/ Send(i) /\ progress[i].at = "queued" /\ e.at = "sent"
                     \/ Succeed(i) /\ progress[i].at = "sent" /\ e.at = "done"
                     \/ Retry(i) /\ progress[i].at = "sent" /\ e.at = "asleep"
                   PROVE  GateInv'
      BY <1>4, <1>5, StepMoves, Zenon
    <2>2. CASE Start(i) /\ progress[i].at = "unstarted" /\ e.at = "asleep"
      <3>1. UNCHANGED <<chunks, gate, done>>
        BY <2>2 DEF Start
      <3> QED
        BY <2>1, <2>2, <3>1, GateStays
    <2>3. CASE Admit(i) /\ progress[i].at = "asleep" /\ e.at = "queued"
      <3>1. UNCHANGED <<chunks, done>> /\ gate' = Append(gate, i)
        BY <2>3 DEF Admit
      <3> QED
        BY <2>1, <2>3, <3>1, GateAsked
    <2>4. CASE SleepOn(i) /\ progress[i].at = "asleep" /\ e.at = "asleep"
      <3>1. UNCHANGED <<chunks, gate, done>>
        BY <2>4 DEF SleepOn
      <3> QED
        BY <2>1, <2>4, <3>1, GateStays
    <2>5. CASE Send(i) /\ progress[i].at = "queued" /\ e.at = "sent"
      <3>1. UNCHANGED <<chunks, gate, done>> /\ i \in InFront(gate)
        BY <2>5 DEF Send, Served, InFront
      <3> QED
        BY <2>1, <2>5, <3>1, GateStays
    <2>6. CASE Succeed(i) /\ progress[i].at = "sent" /\ e.at = "done"
      <3>1. UNCHANGED chunks /\ gate' = RemoveFirst(gate, i) /\ done' = Append(done, i)
        BY <2>6 DEF Succeed
      <3> QED
        BY <2>1, <2>6, <3>1, GateLeft
    <2>7. CASE Retry(i) /\ progress[i].at = "sent" /\ e.at = "asleep"
      <3>1. UNCHANGED chunks /\ gate' = RemoveFirst(gate, i) /\ done' = done
        BY <2>7 DEF Retry
      <3> QED
        BY <2>1, <2>7, <3>1, GateLeft
    <2> QED
      BY <2>1, <2>2, <2>3, <2>4, <2>5, <2>6, <2>7
  <1>6. CASE \E u \in Searches : Enter(u) \/ Leave(u)
    BY <1>6, GateSearched
  <1>7. CASE Tick
    BY <1>7, GateTicks
  <1>8. CASE CutFails \/ Finish
    BY <1>4, <1>8 DEF CutFails, Finish
  <1>9. CASE UNCHANGED requestsVars
    BY <1>1, <1>9 DEF requestsVars
  <1> QED
    BY <1>2, <1>3, <1>4, <1>5, <1>6, <1>7, <1>8, <1>9 DEF RequestsNext

\* The stream takes no more chunks than it keeps under way.
LEMMA FewKept ==
  ASSUME JobInv, GateInv, GateInv', WindowInv, FewUnderWay, [RequestsNext]_requestsVars
  PROVE  FewUnderWay'
  <1> DEFINE W == {"asleep", "queued", "sent"}
  <1>1. /\ UnderWay = Placed(W) /\ UnderWay' = Placed(W)'
        /\ progress \in Seq(Progress) /\ progress' \in Seq(Progress)
        /\ DOMAIN progress = 1 .. Len(progress)
    BY DEF UnderWay, Placed, GateInv
  <1>2. IsFiniteSet(UnderWay) /\ Cardinality(UnderWay) \in Nat /\ Cardinality(UnderWay) <= Concurrency
    <2>1. UnderWay \subseteq 1 .. Len(progress) /\ Len(progress) \in Nat
      BY <1>1 DEF Placed
    <2>2. IsFiniteSet(UnderWay)
      <3>1. IsFiniteSet(1 .. Len(progress))
        BY <2>1, FS_Interval
      <3> QED
        BY <2>1, <3>1, FS_Subset
    <2> QED
      BY <2>2, FS_CardinalityType DEF FewUnderWay
  <1>3. ASSUME UnderWay' \subseteq UnderWay PROVE FewUnderWay'
    <2>1. Cardinality(UnderWay') <= Cardinality(UnderWay) /\ Cardinality(UnderWay') \in Nat
      BY <1>2, <1>3, FS_Subset, FS_CardinalityType
    <2>2. Cardinality(UnderWay') <= Concurrency
      BY <1>2, <2>1, LimitsTyped
    <2> QED
      BY <2>2 DEF FewUnderWay
  <1>4. CASE UNCHANGED progress
    BY <1>3, <1>4 DEF UnderWay
  <1>5. CASE Ended
    <2>1. DOMAIN progress' = {}
      BY <1>5 DEF Ended
    <2>2. UnderWay' = {}
      BY <2>1 DEF UnderWay
    <2> QED
      BY <1>3, <2>2
  <1>6. CASE Cut
    <2>1. progress' = Append(progress, Unstarted) /\ Unstarted \in Progress
      BY <1>6, LimitsTyped, RequestsAssumption DEF Cut, Unstarted, Progress, Places
    <2>2. /\ Len(progress') = Len(progress) + 1 /\ progress'[Len(progress) + 1].at = "unstarted"
          /\ \A i \in 1 .. Len(progress) : progress'[i] = progress[i]
      BY <1>1, <2>1, AppendOf DEF Unstarted
    <2>3. DOMAIN progress' = 1 .. Len(progress) + 1 /\ Len(progress) \in Nat
      BY <1>1, <2>2
    <2>4. ASSUME NEW i \in UnderWay' PROVE i \in UnderWay
      <3>1. i \in 1 .. Len(progress) + 1 /\ progress'[i].at \in W
        BY <2>3 DEF UnderWay
      <3>2. i \in 1 .. Len(progress)
        BY <2>2, <2>3, <3>1
      <3> QED
        BY <1>1, <2>2, <3>1, <3>2 DEF UnderWay
    <2> QED
      BY <1>3, <2>4
  <1>7. ASSUME NEW i \in DOMAIN progress, ChunkStep(i) PROVE FewUnderWay'
    <2>1. SUFFICES ASSUME NEW e, Moves(i, e), e.at \in Places,
                     \/ Start(i) /\ progress[i].at = "unstarted"
                     \/ progress[i].at \in W
                   PROVE  FewUnderWay'
      BY <1>5, <1>7, StepMoves DEF Moves, Progress
    <2>2. \A j : j \in UnderWay' => j \in UnderWay \cup {i}
      BY <1>1, <2>1, MovesIs
    <2>3. CASE progress[i].at \in W
      <3>1. i \in UnderWay
        BY <2>3 DEF UnderWay
      <3> QED
        BY <1>3, <2>2, <3>1
    <2>4. CASE Start(i) /\ progress[i].at = "unstarted"
      <3>1. i \notin UnderWay /\ Cardinality(UnderWay) < Concurrency
        BY <2>4 DEF UnderWay, Start
      <3>2. /\ IsFiniteSet(UnderWay \cup {i})
            /\ Cardinality(UnderWay \cup {i}) = Cardinality(UnderWay) + 1
        BY <1>2, <3>1, FS_AddElement
      <3>3. Cardinality(UnderWay') \in Nat /\ Cardinality(UnderWay') <= Cardinality(UnderWay) + 1
        BY <2>2, <3>2, FS_Subset, FS_CardinalityType
      <3>4. Cardinality(UnderWay') <= Concurrency
        BY <1>2, <3>1, <3>3, LimitsTyped
      <3> QED
        BY <3>4 DEF FewUnderWay
    <2> QED
      BY <2>1, <2>3, <2>4
  <1>8. CASE Tick
    <2>1. \A places : Placed(places)' = Placed(places)
      BY <1>1, <1>8, TickMoves
    <2> QED
      BY <1>1, <1>3, <2>1
  <1>9. CASE \E u \in Searches : Enter(u) \/ Leave(u)
    BY <1>4, <1>9 DEF Enter, Leave, job
  <1>10. CASE CutFails \/ Finish
    BY <1>5, <1>10 DEF CutFails, Finish
  <1>11. CASE UNCHANGED requestsVars \/ \E d \in Documents : Begin(d)
    BY <1>4, <1>11 DEF requestsVars, Begin
  <1> QED
    BY <1>5, <1>6, <1>7, <1>8, <1>9, <1>10, <1>11 DEF RequestsNext

\* What each action does to the window and the histories.
LEMMA WindowKept ==
  ASSUME JobInv, GateInv, WindowInv, [RequestsNext]_requestsVars
  PROVE  WindowInv'
  <1>0. /\ recent \in Seq(Requests) /\ Sorted(recent)
        /\ admitted \in Seq(Requests) /\ Sorted(admitted) /\ admitted = InWindow(recent)
        /\ sent \in Seq(Requests) /\ Sorted(sent)
        /\ \A k \in 1 .. Len(admitted) : admitted[k].age < Window
        /\ \A k \in 1 .. Len(sent) : sent[k].age < Window
        /\ Len(admitted) <= Rpm /\ Tokens(admitted) <= Tpm
    BY DEF WindowInv, AdmittedWithinLimits
  <1>1. CASE UNCHANGED <<recent, admitted, sent>>
    BY <1>1 DEF WindowInv, AdmittedWithinLimits
  <1>2. ASSUME NEW s \in Seq(Requests), Sorted(s), \A k \in 1 .. Len(s) : s[k].age < Window,
               NEW r \in Requests, r.age = 0
        PROVE  /\ Append(s, r) \in Seq(Requests) /\ Sorted(Append(s, r))
               /\ \A k \in 1 .. Len(Append(s, r)) : Append(s, r)[k].age < Window
    <2>1. /\ Append(s, r) \in Seq(Requests) /\ Len(Append(s, r)) = Len(s) + 1
          /\ Append(s, r)[Len(s) + 1] = r
          /\ \A k \in 1 .. Len(s) : Append(s, r)[k] = s[k]
      BY AppendOf
    <2>2. Sorted(Append(s, r))
      BY <1>2, SortedKept
    <2>3. \A k \in 1 .. Len(s) + 1 : k \in 1 .. Len(s) \/ k = Len(s) + 1
      OBVIOUS
    <2>4. 0 < Window
      BY LimitsTyped
    <2> QED
      BY <1>2, <2>1, <2>2, <2>3, <2>4
  <1>3. ASSUME NEW i \in DOMAIN progress, ChunkStep(i) PROVE WindowInv'
    <2>1. i \in 1 .. Len(chunks)
      BY DEF GateInv
    <2>2. /\ Now(i) \in Requests /\ Now(i).age = 0 /\ Now(i).tokens = chunks[i].tokens
          /\ chunks[i].tokens \in Nat
      BY <2>1, ChunksTyped
    <2>3. CASE Admit(i)
      <3> DEFINE a == Append(admitted, Now(i))
      <3>1. recent' = a /\ admitted' = a /\ sent' = sent /\ Room(admitted, chunks[i].tokens)
        BY <1>0, <2>3 DEF Admit
      <3>2. /\ a \in Seq(Requests) /\ Sorted(a)
            /\ \A k \in 1 .. Len(a) : a[k].age < Window
        BY <1>0, <1>2, <2>2
      <3>3. InWindow(a) = a
        BY <3>2, InWindowSame
      <3>4. Len(a) <= Rpm
        <4>1. Len(a) = Len(admitted) + 1 /\ Len(admitted) \in Nat /\ Len(admitted) < Rpm
          BY <1>0, <2>2, <3>1, AppendOf DEF Room
        <4> QED
          BY <4>1, LimitsTyped
      <3>5. Tokens(a) <= Tpm
        <4>1. Tokens(a) = Young(a, ByTokens, Window) /\ Tokens(admitted) = Young(admitted, ByTokens, Window)
          BY <1>0, <3>2, TokensAreCosts
        <4>2. Young(a, ByTokens, Window)
                = Young(admitted, ByTokens, Window) + IF Now(i).age <= Window THEN ByTokens[Now(i).tokens] ELSE 0
          BY <1>0, <2>2, CostingsAre, LimitsTyped, YoungAppend
        <4>3. Now(i).age <= Window /\ ByTokens[Now(i).tokens] = chunks[i].tokens
          BY <2>2, CostingsAre, LimitsTyped
        <4>4. Tokens(admitted) + chunks[i].tokens <= Tpm
          BY <3>1 DEF Room
        <4> QED
          BY ONLY <4>1, <4>2, <4>3, <4>4
      <3> HIDE DEF a
      <3> QED
        BY <1>0, <3>1, <3>2, <3>3, <3>4, <3>5 DEF WindowInv, AdmittedWithinLimits
    <2>4. CASE SleepOn(i)
      <3>1. recent' = admitted /\ admitted' = admitted /\ sent' = sent
        BY <1>0, <2>4 DEF SleepOn
      <3>2. InWindow(admitted) = admitted
        BY <1>0, InWindowSame
      <3> QED
        BY <1>0, <3>1, <3>2 DEF WindowInv, AdmittedWithinLimits
    <2>5. CASE Send(i)
      <3>1. recent' = recent /\ admitted' = admitted /\ sent' = Append(sent, Now(i))
        BY <2>5 DEF Send
      <3>2. /\ sent' \in Seq(Requests) /\ Sorted(sent')
            /\ \A k \in 1 .. Len(sent') : sent'[k].age < Window
        BY <1>0, <1>2, <2>2, <3>1
      <3> QED
        BY <1>0, <3>1, <3>2 DEF WindowInv, AdmittedWithinLimits
    <2>6. CASE Start(i) \/ Succeed(i) \/ Retry(i) \/ TooLarge(i) \/ Fail(i)
      <3>1. UNCHANGED <<recent, admitted, sent>>
        BY <2>6 DEF Start, Succeed, Retry, TooLarge, Fail, Ended
      <3> QED
        BY <1>1, <3>1
    <2> QED
      BY <1>3, <2>3, <2>4, <2>5, <2>6 DEF ChunkStep
  <1>4. CASE Tick
    <2>1. recent' = Older(recent) /\ admitted' = LastWindow(admitted) /\ sent' = LastWindow(sent)
      BY <1>4 DEF Tick
    <2>2. Older(recent) \in Seq(Requests) /\ Sorted(Older(recent))
      BY <1>0, OlderIs, SortedKept
    <2>3. LastWindow(admitted) = InWindow(Older(recent))
      BY <1>0, WindowTicks
    <2>4. ASSUME NEW s \in Seq(Requests), Sorted(s)
          PROVE  \E p \in 0 .. Len(Older(s)) :
                   /\ IsRest(LastWindow(s), Older(s), p)
                   /\ \A k \in 1 .. Len(LastWindow(s)) : LastWindow(s)[k].age < Window
                   /\ Sorted(LastWindow(s)) /\ LastWindow(s) \in Seq(Requests)
      <3>1. Older(s) \in Seq(Requests) /\ Sorted(Older(s)) /\ Window \in Int
        BY <2>4, OlderIs, SortedKept, LimitsTyped
      <3>2. PICK p \in 0 .. Len(Older(s)) : Passed(Older(s), p, Window)
        BY <3>1, SomePassed
      <3>3. IsRest(LastWindow(s), Older(s), p)
        BY <3>2, LastWindowIs
      <3>4. \A k \in 1 .. Len(LastWindow(s)) : LastWindow(s)[k].age < Window
        BY <3>1, <3>2, <3>3, RestIsYoung
      <3>5. Sorted(LastWindow(s)) /\ LastWindow(s) \in Seq(Requests)
        BY <3>1, <3>3, SortedKept DEF IsRest
      <3> QED
        BY <3>3, <3>4, <3>5
    <2>5. /\ LastWindow(sent) \in Seq(Requests) /\ Sorted(LastWindow(sent))
          /\ \A k \in 1 .. Len(LastWindow(sent)) : LastWindow(sent)[k].age < Window
      BY <1>0, <2>4
    <2>6. /\ LastWindow(admitted) \in Seq(Requests) /\ Sorted(LastWindow(admitted))
          /\ \A k \in 1 .. Len(LastWindow(admitted)) : LastWindow(admitted)[k].age < Window
      BY <1>0, <2>4
    <2>7. Len(LastWindow(admitted)) <= Rpm /\ Tokens(LastWindow(admitted)) <= Tpm
      <3> DEFINE o == Older(admitted)
                 l == LastWindow(admitted)
      <3>1. o \in Seq(Requests) /\ Len(o) = Len(admitted) /\ Window \in Int
        BY <1>0, OlderIs, LimitsTyped
      <3>2. PICK p \in 0 .. Len(o) : IsRest(l, o, p)
        BY <1>0, <2>4
      <3>3. l = SubSeq(o, p + 1, Len(o)) /\ Len(l) = Len(o) - p
        BY <3>1, <3>2, RestIs DEF IsRest
      <3>4. Len(l) <= Rpm
        <4>1. Len(admitted) \in Nat
          BY <1>0
        <4> QED
          BY ONLY <1>0, <3>1, <3>3, <4>1, LimitsTyped
      <3> HIDE DEF o
      <3>5. /\ Sum(Costs(o, ByTokens, Window), p) \in Nat /\ Young(l, ByTokens, Window) \in Nat
            /\ Young(o, ByTokens, Window)
                 = Sum(Costs(o, ByTokens, Window), p) + Young(l, ByTokens, Window)
        BY <3>1, <3>3, CostingsAre, YoungSuffix, ZenonT(60)
      <3>6. Young(o, ByTokens, Window) = Young(admitted, ByTokens, Window)
        BY <1>0, <3>1, CostingsAre, YoungOlder DEF o
      <3>7. Tokens(l) = Young(l, ByTokens, Window) /\ Tokens(admitted) = Young(admitted, ByTokens, Window)
        BY <1>0, <2>6, TokensAreCosts
      <3>8. Tokens(l) <= Tpm
        BY ONLY <1>0, <3>5, <3>6, <3>7, LimitsTyped
      <3> QED
        BY <3>4, <3>8
    <2> QED
      BY <2>1, <2>2, <2>3, <2>5, <2>6, <2>7 DEF WindowInv, AdmittedWithinLimits
  <1>5. CASE \E u \in Searches : Enter(u) \/ Leave(u)
    BY <1>1, <1>5 DEF Enter, Leave
  <1>6. CASE Cut \/ CutFails \/ Finish \/ \E d \in Documents : Begin(d)
    BY <1>1, <1>6 DEF Cut, CutFails, Finish, Begin, Ended
  <1>7. CASE UNCHANGED requestsVars
    BY <1>1, <1>7 DEF requestsVars
  <1> QED
    BY <1>3, <1>4, <1>5, <1>6, <1>7 DEF RequestsNext

-----------------------------------------------------------------------------
(* The requests that were sent, and those that wait for a permit           *)

LEMMA ProductsCompare ==
  ASSUME NEW a \in Nat, NEW b \in Nat, NEW c \in Nat, NEW s \in Nat, a <= b, s <= a * c
  PROVE  b * c \in Nat /\ s <= b * c
  <1>1. a * c \in Nat /\ b * c \in Nat
    OBVIOUS
  <1>2. PICK e \in Nat : b = a + e
    <2>1. b - a \in Nat /\ b = a + (b - a)
      OBVIOUS
    <2> QED
      BY <2>1
  <1>3. b * c = a * c + e * c /\ e * c \in Nat
    BY <1>2
  <1> QED
    BY <1>1, <1>3

\* What waits for a permit costs, and no more than is under way.
LEMMA QueueTyped ==
  ASSUME JobInv, GateInv, FewUnderWay, NEW cost \in Costings, NEW most \in Nat,
         \A t \in Nat : t <= Budget => cost[t] <= most
  PROVE  /\ \A k \in 1 .. Len(progress) : QueueCosts(cost)[k] \in Nat
         /\ Queue(cost) \in Nat /\ Queue(cost) <= Concurrency * most
  <1> DEFINE n == Len(progress)
             f == QueueCosts(cost)
  <1>1. /\ progress \in Seq(Progress) /\ n \in Nat /\ n = Len(chunks)
        /\ DOMAIN progress = 1 .. n
    BY DEF GateInv
  <1>2. \A k \in 1 .. n : /\ f[k] \in Nat /\ f[k] <= most
                          /\ k \notin UnderWay => f[k] = 0
    <2> TAKE k \in 1 .. n
    <2>1. chunks[k].tokens \in Nat /\ chunks[k].tokens <= Budget
      BY <1>1, ChunksTyped
    <2>2. cost[chunks[k].tokens] \in Nat /\ cost[chunks[k].tokens] <= most
      BY <2>1, CostingTyped
    <2>3. f[k] = IF progress[k].at = "queued" THEN cost[chunks[k].tokens] ELSE 0
      BY DEF QueueCosts
    <2>4. progress[k].at = "queued" => k \in UnderWay
      BY <1>1 DEF UnderWay
    <2> QED
      BY <2>2, <2>3, <2>4
  <1> HIDE DEF f
  <1>3. /\ Cardinality(UnderWay \cap (1 .. n)) \in Nat
        /\ Sum(f, n) <= Cardinality(UnderWay \cap (1 .. n)) * most
    BY <1>1, <1>2, SumBound
  <1>4. UnderWay \cap (1 .. n) = UnderWay
    BY <1>1 DEF UnderWay
  <1>5. Sum(f, n) \in Nat
    BY <1>1, <1>2, SumNat
  <1>6. Cardinality(UnderWay) \in Nat /\ Sum(f, n) <= Cardinality(UnderWay) * most
    BY <1>3, <1>4
  <1>7. Cardinality(UnderWay) <= Concurrency /\ Concurrency \in Nat
    BY LimitsTyped DEF FewUnderWay
  <1>8. Sum(f, n) <= Concurrency * most
    BY <1>5, <1>6, <1>7, ProductsCompare
  <1> QED
    BY <1>2, <1>5, <1>8 DEF f, Queue

\* The step of a chunk changes what waits by what the chunk costs.
LEMMA QueueMoves ==
  ASSUME JobInv, GateInv, NEW cost \in Costings, NEW i, NEW e, Moves(i, e), UNCHANGED chunks
  PROVE  LET c == cost[chunks[i].tokens] IN
         /\ c \in Nat /\ Queue(cost) \in Nat /\ Queue(cost)' \in Nat
         /\ Queue(cost)' + (IF progress[i].at = "queued" THEN c ELSE 0)
              = Queue(cost) + (IF e.at = "queued" THEN c ELSE 0)
  <1> DEFINE n == Len(progress)
             f == QueueCosts(cost)
             h == QueueCosts(cost)'
  <1>1. /\ progress \in Seq(Progress) /\ n \in Nat /\ n = Len(chunks)
        /\ DOMAIN progress = 1 .. n /\ i \in 1 .. n
    BY DEF GateInv, Moves
  <1>2. /\ Len(progress') = n /\ \A k \in 1 .. n : progress'[k] = IF k = i THEN e ELSE progress[k]
    BY <1>1, MovesIs
  <1>3. \A k \in 1 .. n : cost[chunks[k].tokens] \in Nat
    <2> TAKE k \in 1 .. n
    <2>1. chunks[k].tokens \in Nat
      BY <1>1, ChunksTyped
    <2> QED
      BY <2>1, CostingTyped
  <1>4. \A k \in 1 .. n : f[k] = IF progress[k].at = "queued" THEN cost[chunks[k].tokens] ELSE 0
    BY DEF QueueCosts
  <1>5. \A k \in 1 .. n : h[k] = IF progress'[k].at = "queued" THEN cost[chunks[k].tokens] ELSE 0
    BY <1>2 DEF QueueCosts
  <1>6. Queue(cost) = Sum(f, n) /\ Queue(cost)' = Sum(h, n)
    BY <1>2 DEF Queue
  <1> HIDE DEF f, h
  <1>7. \A k \in 1 .. n : f[k] \in Nat /\ h[k] \in Nat /\ (k # i => f[k] = h[k])
    BY <1>2, <1>3, <1>4, <1>5
  <1>8. Sum(h, n) + f[i] = Sum(f, n) + h[i]
    BY <1>1, <1>7, SumChange
  <1>9. Sum(f, n) \in Nat /\ Sum(h, n) \in Nat
    BY <1>1, <1>7, SumNat
  <1>10. /\ f[i] = IF progress[i].at = "queued" THEN cost[chunks[i].tokens] ELSE 0
         /\ h[i] = IF e.at = "queued" THEN cost[chunks[i].tokens] ELSE 0
    BY <1>1, <1>2, <1>4, <1>5
  <1> QED
    BY <1>1, <1>3, <1>6, <1>8, <1>9, <1>10

\* A chunk that is cut costs nothing yet.
LEMMA QueueCut ==
  ASSUME JobInv, JobInv', GateInv, GateInv', NEW cost \in Costings, Cut
  PROVE  Queue(cost)' = Queue(cost)
  <1> DEFINE n == Len(progress)
             f == QueueCosts(cost)
             h == QueueCosts(cost)'
  <1>1. progress \in Seq(Progress) /\ n \in Nat /\ n = Len(chunks)
    BY DEF GateInv
  <1>2. progress' = Append(progress, Unstarted) /\ Unstarted \in Progress
    BY LimitsTyped, RequestsAssumption DEF Cut, Unstarted, Progress, Places
  <1>3. /\ Len(progress') = n + 1 /\ progress'[n + 1].at = "unstarted"
        /\ \A k \in 1 .. n : progress'[k] = progress[k]
    BY <1>1, <1>2, AppendOf DEF Unstarted
  <1>4. \A k \in 1 .. n : chunks'[k] = chunks[k]
    <2>1. PICK c : chunks' = Append(chunks, c)
      BY DEF Cut
    <2>2. \E S : chunks \in Seq(S)
      BY DEF Cut, Generating, JobInv, WellCut
    <2>3. PICK S : chunks \in Seq(S)
      BY <2>2
    <2>4. chunks \in Seq(S \cup {c})
      BY <2>3, SeqMonotonic
    <2> QED
      BY <1>1, <2>1, <2>4, AppendOf
  <1>5. \A k \in 1 .. n : k \in 1 .. n + 1
    BY <1>1
  <1>6. n + 1 \in 1 .. n + 1 /\ n + 1 > 0 /\ (n + 1) - 1 = n /\ n + 1 \in Nat
    BY <1>1
  <1>7. \A k \in 1 .. n : f[k] = h[k]
    BY <1>3, <1>4, <1>5 DEF QueueCosts
  <1>8. h[n + 1] = 0
    BY <1>3, <1>6 DEF QueueCosts
  <1>9. Queue(cost) = Sum(f, n) /\ Queue(cost)' = Sum(h, n + 1)
    BY <1>3 DEF Queue
  <1>10. \A k \in 1 .. n : f[k] \in Nat
    <2> TAKE k \in 1 .. n
    <2>1. chunks[k].tokens \in Nat
      BY <1>1, ChunksTyped
    <2>2. cost[chunks[k].tokens] \in Nat
      BY <2>1, CostingTyped
    <2> QED
      BY <2>2 DEF QueueCosts
  <1> HIDE DEF f, h
  <1>11. Sum(f, n) = Sum(h, n) /\ Sum(f, n) \in Nat
    BY <1>1, <1>7, <1>10, SumSame, SumNat
  <1>12. Sum(h, n + 1) = Sum(h, n) + h[n + 1]
    BY <1>6, SumStep
  <1> QED
    BY <1>8, <1>9, <1>11, <1>12

\* Time counts the sent and the admitted alike.
LEMMA YoungTicks ==
  ASSUME NEW s \in Seq(Requests), Sorted(s), NEW cost \in Costings, NEW v \in 0 .. Window - 1
  PROVE  Young(LastWindow(s), cost, v) = Young(s, cost, v - 1)
  <1> DEFINE o == Older(s)
             l == LastWindow(s)
  <1>0. Window \in Int /\ v \in Int /\ v < Window /\ v - 1 \in Int
    BY LimitsTyped
  <1>1. o \in Seq(Requests) /\ Len(o) = Len(s) /\ Sorted(o)
    BY OlderIs, SortedKept
  <1>2. PICK p \in 0 .. Len(o) : Passed(o, p, Window)
    BY <1>0, <1>1, SomePassed
  <1>3. IsRest(l, o, p)
    BY <1>2, LastWindowIs
  <1>4. Young(o, cost, v) = Young(s, cost, v - 1)
    BY <1>0, YoungOlder
  <1> HIDE DEF o, l
  <1>5. l = SubSeq(o, p + 1, Len(o))
    BY <1>1, <1>3, RestIs
  <1>6. \A k \in 1 .. p : o[k].age > v
    <2> TAKE k \in 1 .. p
    <2>1. k \in 1 .. Len(o) /\ ~ (k > p)
      <3>1. Len(o) \in Nat
        BY <1>1
      <3> QED
        BY <3>1
    <2>2. ~ (o[k].age < Window)
      BY <1>2, <2>1 DEF Passed
    <2>3. o[k] \in Requests
      BY <1>1, <2>1
    <2>4. o[k].age \in Nat
      BY <2>3, RequestTyped
    <2> QED
      BY <1>0, <2>2, <2>4
  <1>7. Young(l, cost, v) = Young(o, cost, v)
    BY <1>0, <1>1, <1>5, <1>6, YoungSuffix
  <1> QED
    BY <1>4, <1>7 DEF l

\* None is younger than it may be.
LEMMA NoneUnborn ==
  ASSUME NEW s \in Seq(Requests), NEW cost \in Costings
  PROVE  Young(s, cost, 0 - 1) = 0
  <1>1. \A k \in 1 .. Len(s) : Costs(s, cost, 0 - 1)[k] = 0
    <2> TAKE k \in 1 .. Len(s)
    <2>1. s[k] \in Requests
      OBVIOUS
    <2>2. s[k].age \in Nat
      BY <2>1, RequestTyped
    <2>3. ~ (s[k].age <= 0 - 1)
      BY <2>2
    <2> QED
      BY <2>3 DEF Costs
  <1>2. Len(s) \in Nat
    OBVIOUS
  <1>3. /\ Cardinality({} \cap (1 .. Len(s))) \in Nat
        /\ Sum(Costs(s, cost, 0 - 1), Len(s)) <= Cardinality({} \cap (1 .. Len(s))) * 0
    <2>1. \A k \in 1 .. Len(s) :
            /\ Costs(s, cost, 0 - 1)[k] \in Nat /\ Costs(s, cost, 0 - 1)[k] <= 0
            /\ k \notin {} => Costs(s, cost, 0 - 1)[k] = 0
      BY <1>1
    <2> QED
      BY <1>2, <2>1, SumBound
  <1>4. Sum(Costs(s, cost, 0 - 1), Len(s)) \in Nat
    BY <1>1, <1>2, SumNat
  <1> QED
    BY ONLY <1>3, <1>4 DEF Young

\* What was sent stays near what was let pass.
LEMMA SentKept ==
  ASSUME JobInv, JobInv', GateInv, GateInv', FewUnderWay, WindowInv,
         NEW cost \in Costings, NEW most \in Nat, \A t \in Nat : t <= Budget => cost[t] <= most,
         SentInv(cost, most), [RequestsNext]_requestsVars
  PROVE  SentInv(cost, most)'
  <1> DEFINE Q == Queue(cost)
             B == Concurrency * most
             A(v) == Young(admitted, cost, v)
             S(v) == Young(sent, cost, v)
  <1>0. /\ admitted \in Seq(Requests) /\ Sorted(admitted) /\ sent \in Seq(Requests) /\ Sorted(sent)
        /\ \A v \in 0 .. Window - 1 : v \in Int /\ 0 <= v
    BY LimitsTyped DEF WindowInv
  <1>1. \A v \in Int : A(v) \in Nat /\ S(v) \in Nat
    BY <1>0, YoungGrows
  <1>2. Q \in Nat /\ Q <= B /\ B \in Nat
    <2>1. Q \in Nat /\ Q <= B
      BY QueueTyped
    <2>2. B \in Nat
      <3>1. \A a, b \in Nat : a * b \in Nat
        OBVIOUS
      <3> QED
        BY <3>1, LimitsTyped
    <2> QED
      BY <2>1, <2>2
  <1>3. \A v \in 0 .. Window - 1 : S(v) + Q <= A(v) + B
    BY DEF SentInv
  <1>4. ASSUME NEW q \in Nat, NEW a \in Nat, NEW s \in Nat, Queue(cost)' = q,
               \A v \in 0 .. Window - 1 : /\ Young(sent', cost, v) = S(v) + s
                                          /\ Young(admitted', cost, v) = A(v) + a,
               q + s <= Q + a
        PROVE  SentInv(cost, most)'
    <2> HIDE DEF Q, B, A, S
    <2>1. \A v \in 0 .. Window - 1 : Young(sent', cost, v) + q <= Young(admitted', cost, v) + B
      <3> TAKE v \in 0 .. Window - 1
      <3>1. /\ S(v) \in Nat /\ A(v) \in Nat /\ S(v) + Q <= A(v) + B
            /\ Young(sent', cost, v) = S(v) + s /\ Young(admitted', cost, v) = A(v) + a
        BY <1>0, <1>1, <1>3, <1>4
      <3> QED
        BY ONLY <1>2, <1>4, <3>1
    <2> QED
      BY <1>4, <2>1 DEF SentInv, B
  <1>5. ASSUME UNCHANGED <<admitted, sent>>, NEW q \in Nat, Queue(cost)' = q, q <= Q
        PROVE  SentInv(cost, most)'
    <2>1. \A v \in 0 .. Window - 1 : /\ Young(sent', cost, v) = S(v) + 0
                                     /\ Young(admitted', cost, v) = A(v) + 0
      <3> TAKE v \in 0 .. Window - 1
      <3>1. Young(sent', cost, v) = S(v) /\ Young(admitted', cost, v) = A(v)
        BY <1>5
      <3>2. S(v) \in Nat /\ A(v) \in Nat
        BY <1>0, <1>1
      <3> HIDE DEF A, S
      <3> QED
        BY <3>1, <3>2
    <2>2. q + 0 <= Q + 0 /\ 0 \in Nat
      BY <1>2, <1>5
    <2> HIDE DEF Q, A, S
    <2> QED
      BY <1>4, <1>5, <2>1, <2>2
  <1>6. CASE UNCHANGED <<progress, chunks, admitted, sent>>
    <2>1. Queue(cost)' = Q
      BY <1>6 DEF Queue, QueueCosts
    <2>2. Q <= Q
      BY <1>2
    <2> QED
      BY <1>2, <1>5, <1>6, <2>1, <2>2
  <1>7. CASE Ended
    <2>1. Len(progress') = 0
      BY <1>7 DEF Ended
    <2>2. Queue(cost)' = 0
      BY <2>1, SumStep DEF Queue
    <2>3. UNCHANGED <<admitted, sent>> /\ 0 <= Q /\ 0 \in Nat
      BY <1>2, <1>7 DEF Ended
    <2> QED
      BY <1>5, <2>2, <2>3
  <1>8. CASE Cut
    <2>1. Queue(cost)' = Q /\ Q <= Q
      BY <1>2, <1>8, QueueCut
    <2>2. UNCHANGED <<admitted, sent>>
      BY <1>8 DEF Cut
    <2> QED
      BY <1>2, <1>5, <2>1, <2>2
  <1>9. ASSUME NEW i \in DOMAIN progress, ChunkStep(i) PROVE SentInv(cost, most)'
    <2>1. SUFFICES ASSUME NEW e, Moves(i, e), UNCHANGED <<doc, headings, chunks>>,
                     \/ Start(i) /\ progress[i].at = "unstarted" /\ e.at = "asleep"
                     \/ Admit(i) /\ progress[i].at = "asleep" /\ e.at = "queued"
                     \/ SleepOn(i) /\ progress[i].at = "asleep" /\ e.at = "asleep"
                     \/ Send(i) /\ progress[i].at = "queued" /\ e.at = "sent"
                     \/ Succeed(i) /\ progress[i].at = "sent" /\ e.at = "done"
                     \/ Retry(i) /\ progress[i].at = "sent" /\ e.at = "asleep"
                   PROVE  SentInv(cost, most)'
      BY <1>7, <1>9, StepMoves, Zenon
    <2> DEFINE c == cost[chunks[i].tokens]
               q == Queue(cost)'
    <2>2. /\ c \in Nat /\ q \in Nat
          /\ q + (IF progress[i].at = "queued" THEN c ELSE 0) = Q + (IF e.at = "queued" THEN c ELSE 0)
      BY <2>1, QueueMoves
    <2>3. /\ Now(i) \in Requests /\ Now(i).age = 0 /\ Now(i).tokens = chunks[i].tokens
      <3>1. i \in 1 .. Len(chunks)
        BY DEF GateInv
      <3> QED
        BY <3>1, ChunksTyped
    <2>4. ASSUME NEW s \in Seq(Requests), NEW v \in 0 .. Window - 1
          PROVE  Young(Append(s, Now(i)), cost, v) = Young(s, cost, v) + c
      <3>1. v \in Int /\ 0 <= v
        BY <1>0
      <3>2. Young(Append(s, Now(i)), cost, v)
              = Young(s, cost, v) + IF Now(i).age <= v THEN cost[Now(i).tokens] ELSE 0
        BY <2>3, <3>1, YoungAppend
      <3> QED
        BY <2>3, <3>1, <3>2
    <2> HIDE DEF c, q, Q
    <2>5. CASE Admit(i) /\ progress[i].at = "asleep" /\ e.at = "queued"
      <3>1. admitted' = Append(admitted, Now(i)) /\ sent' = sent
        BY <2>5 DEF Admit
      <3>2. \A v \in 0 .. Window - 1 : /\ Young(sent', cost, v) = S(v) + 0
                                       /\ Young(admitted', cost, v) = A(v) + c
        BY <1>0, <1>1, <2>4, <3>1
      <3>3. q + 0 <= Q + c /\ 0 \in Nat
        BY <1>2, <2>2, <2>5
      <3> QED
        BY <1>4, <2>2, <3>2, <3>3 DEF q
    <2>6. CASE Send(i) /\ progress[i].at = "queued" /\ e.at = "sent"
      <3>1. sent' = Append(sent, Now(i)) /\ admitted' = admitted
        BY <2>6 DEF Send
      <3>2. \A v \in 0 .. Window - 1 : /\ Young(sent', cost, v) = S(v) + c
                                       /\ Young(admitted', cost, v) = A(v) + 0
        BY <1>0, <1>1, <2>4, <3>1
      <3>3. q + c <= Q + 0 /\ 0 \in Nat
        BY <1>2, <2>2, <2>6
      <3> QED
        BY <1>4, <2>2, <3>2, <3>3 DEF q
    <2>7. CASE Start(i) \/ SleepOn(i) \/ Succeed(i) \/ Retry(i)
      <3>1. UNCHANGED <<admitted, sent>>
        BY <2>7 DEF Start, SleepOn, Succeed, Retry
      <3>2. progress[i].at # "queued" /\ e.at # "queued"
        BY <2>1, <2>7 DEF Start, Unstarted, SleepOn, Awake, Succeed, Retry, Admit, Send
      <3>3. q <= Q
        BY <1>2, <2>2, <3>2
      <3> QED
        BY <1>5, <2>2, <3>1, <3>3 DEF q
    <2> QED
      BY <2>1, <2>5, <2>6, <2>7
  <1>10. CASE Tick
    <2>1. admitted' = LastWindow(admitted) /\ sent' = LastWindow(sent) /\ UNCHANGED chunks
      BY <1>10 DEF Tick
    <2>2. Queue(cost)' = Q
      <3>1. progress \in Seq(Progress)
        BY DEF GateInv
      <3>2. /\ Len(progress') = Len(progress) /\ DOMAIN progress = 1 .. Len(progress)
            /\ \A k \in DOMAIN progress : progress'[k].at = progress[k].at
        BY <1>10, <3>1, TickMoves
      <3>3. QueueCosts(cost)' = QueueCosts(cost)
        BY <2>1, <3>2 DEF QueueCosts
      <3> QED
        BY <3>2, <3>3 DEF Queue
    <2>3. ASSUME NEW v \in 0 .. Window - 1
          PROVE  Young(sent', cost, v) + Q <= Young(admitted', cost, v) + B
      <3>1. Young(sent', cost, v) = S(v - 1) /\ Young(admitted', cost, v) = A(v - 1)
        BY <1>0, <2>1, YoungTicks
      <3>2. CASE v = 0
        <4>1. S(0 - 1) = 0 /\ A(0 - 1) = 0
          BY <1>0, NoneUnborn
        <4>2. v - 1 = 0 - 1
          BY <3>2
        <4> HIDE DEF Q, B, A, S
        <4> QED
          BY <1>2, <3>1, <4>1, <4>2
      <3>3. CASE v # 0
        <4>1. v - 1 \in 0 .. Window - 1
          BY <3>3, LimitsTyped
        <4>2. S(v - 1) + Q <= A(v - 1) + B
          BY <1>3, <4>1
        <4> QED
          BY <3>1, <4>2
      <3> QED
        BY <3>2, <3>3
    <2> QED
      BY <2>2, <2>3 DEF SentInv
  <1>11. CASE \E u \in Searches : Enter(u) \/ Leave(u)
    BY <1>6, <1>11 DEF Enter, Leave, job
  <1>12. CASE CutFails \/ Finish
    BY <1>7, <1>12 DEF CutFails, Finish
  <1>13. CASE UNCHANGED requestsVars \/ \E d \in Documents : Begin(d)
    BY <1>6, <1>13 DEF requestsVars, Begin
  <1> QED
    BY <1>8, <1>9, <1>10, <1>11, <1>12, <1>13 DEF RequestsNext

LEMMA RequestsInitInv ==
  RequestsInit => RequestsInv
  <1> SUFFICES ASSUME RequestsInit PROVE RequestsInv
    OBVIOUS
  <1> USE DEF RequestsInit
  <1>1. JobInv
    BY DEF JobInv
  <1>2. \A T : <<>> \in Seq(T)
    BY EmptySeq
  <1>3. Len(<<>>) = 0 /\ DOMAIN <<>> = {}
    OBVIOUS
  <1>4. \A places : Placed(places) = {}
    BY <1>3 DEF Placed
  <1>5. Range(<<>>) = {} /\ IsInjective(<<>>)
    BY <1>3 DEF Range, IsInjective
  <1>6. GateInv
    BY <1>2, <1>3, <1>4, <1>5 DEF GateInv
  <1>7. FewUnderWay
    <2>1. UnderWay = {}
      BY <1>3 DEF UnderWay
    <2> QED
      BY <2>1, FS_EmptySet, LimitsTyped DEF FewUnderWay
  <1>8. /\ <<>> \in Seq(Requests) /\ Sorted(<<>>)
        /\ \A k \in 1 .. Len(<<>>) : <<>>[k].age < Window
    <2>1. \A k \in 1 .. Len(<<>>) : FALSE
      BY <1>3
    <2> QED
      BY <1>2, <2>1 DEF Sorted
  <1>9. Tokens(<<>>) = 0
    <2>1. Tokens(<<>>) = Young(<<>>, ByTokens, Window)
      BY <1>8, TokensAreCosts
    <2> QED
      BY <1>3, <2>1, SumStep DEF Young
  <1>10. WindowInv
    <2>1. InWindow(<<>>) = <<>>
      BY <1>8, InWindowSame
    <2> QED
      BY <1>3, <1>8, <1>9, <2>1, LimitsTyped DEF WindowInv, AdmittedWithinLimits
  <1>11. ASSUME NEW cost, NEW most \in Nat PROVE SentInv(cost, most)
    <2>1. \A v : Young(<<>>, cost, v) = 0
      BY <1>3, SumStep DEF Young
    <2>2. Queue(cost) = 0
      BY <1>3, SumStep DEF Queue
    <2>3. Concurrency * most \in Nat
      <3>1. \A a, b \in Nat : a * b \in Nat
        OBVIOUS
      <3> QED
        BY <3>1, LimitsTyped
    <2> QED
      BY <2>1, <2>2, <2>3 DEF SentInv
  <1> QED
    BY <1>1, <1>6, <1>7, <1>10, <1>11, LimitsTyped DEF RequestsInv

LEMMA RequestsNextInv ==
  RequestsInv /\ [RequestsNext]_requestsVars => RequestsInv'
  <1> SUFFICES ASSUME RequestsInv, [RequestsNext]_requestsVars PROVE RequestsInv'
    OBVIOUS
  <1>1. /\ JobInv /\ GateInv /\ FewUnderWay /\ WindowInv
        /\ SentInv(ByRequest, 1) /\ SentInv(ByTokens, Budget)
    BY DEF RequestsInv
  <1>2. JobInv'
    BY <1>1, JobKept
  <1>3. GateInv'
    BY <1>1, <1>2, GateKept
  <1>4. FewUnderWay' /\ WindowInv'
    BY <1>1, <1>3, FewKept, WindowKept
  <1>5. SentInv(ByRequest, 1)'
    <2>1. ByRequest \in Costings /\ 1 \in Nat /\ \A t \in Nat : t <= Budget => ByRequest[t] <= 1
      BY CostingsAre
    <2> QED
      BY <1>1, <1>2, <1>3, <2>1, SentKept
  <1>6. SentInv(ByTokens, Budget)'
    <2>1. ByTokens \in Costings /\ Budget \in Nat /\ \A t \in Nat : t <= Budget => ByTokens[t] <= Budget
      BY CostingsAre, LimitsTyped
    <2> QED
      BY <1>1, <1>2, <1>3, <2>1, SentKept
  <1> QED
    BY <1>2, <1>3, <1>4, <1>5, <1>6 DEF RequestsInv

\* The invariant holds of every generation, whatever its document and the
\* limits are: request_shared_embedding_with_retry().
THEOREM RequestsInvariance ==
  RequestsSpec => []RequestsInv
  <1>1. RequestsInit => RequestsInv
    BY RequestsInitInv
  <1>2. RequestsInv /\ [RequestsNext]_requestsVars => RequestsInv'
    BY RequestsNextInv
  <1> QED
    BY <1>1, <1>2, PTL DEF RequestsSpec

-----------------------------------------------------------------------------
(* What follows of it                                                      *)

LEMMA RequestsTyped ==
  RequestsInv => RequestsTypeOK
  <1> SUFFICES ASSUME RequestsInv PROVE RequestsTypeOK
    OBVIOUS
  <1>1. JobInv /\ GateInv /\ WindowInv
    BY DEF RequestsInv
  <1>2. ASSUME NEW i \in DOMAIN chunks
        PROVE  DOMAIN chunks[i] = {"index", "start", "end", "title", "tokens"}
    <2>1. chunks \in Seq(ChunkOf(headings))
      <3>1. doc # None
        BY <1>1, <1>2 DEF JobInv
      <3> QED
        BY <1>1, <3>1 DEF JobInv, WellCut
    <2>2. chunks[i] \in ChunkOf(headings)
      BY <2>1
    <2> QED
      BY <2>2 DEF ChunkOf
  <1>3. /\ Range(gate) \ Searches = {i \in DOMAIN progress : progress[i].at \in {"queued", "sent"}}
        /\ Range(done) = {i \in DOMAIN progress : progress[i].at = "done"}
    BY <1>1 DEF GateInv, Placed
  <1>4. {i \in DOMAIN progress : progress[i].at = "sent"} \subseteq Served
    <2>1. Served = InFront(gate)
      BY DEF Served, InFront
    <2> QED
      BY <1>1, <2>1 DEF GateInv, Placed
  <1> QED
    BY <1>1, <1>2, <1>3, <1>4 DEF RequestsTypeOK, JobInv, GateInv, WindowInv

\* A history that is cut to the window has no more to count.
LEMMA YoungAll ==
  ASSUME NEW s \in Seq(Requests), \A k \in 1 .. Len(s) : s[k].age < Window, NEW cost \in Costings
  PROVE  Young(s, cost, Window - 1) = Young(s, cost, Window)
  <1>1. Window \in Int /\ Window - 1 \in Int /\ Len(s) \in Nat
    BY LimitsTyped
  <1>2. \A k \in 1 .. Len(s) : Costs(s, cost, Window - 1)[k] = Costs(s, cost, Window)[k]
    <2> TAKE k \in 1 .. Len(s)
    <2>1. /\ s[k].age \in Nat
          /\ Costs(s, cost, Window - 1)[k] = IF s[k].age <= Window - 1 THEN cost[s[k].tokens] ELSE 0
          /\ Costs(s, cost, Window)[k] = IF s[k].age <= Window THEN cost[s[k].tokens] ELSE 0
      BY <1>1, CostsTyped
    <2>2. s[k].age <= Window - 1 /\ s[k].age <= Window
      BY <1>1, <2>1
    <2> QED
      BY <2>1, <2>2
  <1> QED
    BY <1>1, <1>2, SumSame DEF Young

LEMMA SentIsNear ==
  RequestsInv => SentNearLimits
  <1> SUFFICES ASSUME RequestsInv PROVE SentNearLimits
    OBVIOUS
  <1>1. JobInv /\ GateInv /\ FewUnderWay /\ WindowInv
    BY DEF RequestsInv
  <1>2. /\ admitted \in Seq(Requests) /\ sent \in Seq(Requests)
        /\ \A k \in 1 .. Len(admitted) : admitted[k].age < Window
        /\ \A k \in 1 .. Len(sent) : sent[k].age < Window
        /\ Len(admitted) <= Rpm /\ Tokens(admitted) <= Tpm
    BY <1>1 DEF WindowInv, AdmittedWithinLimits
  <1>3. ASSUME NEW cost \in Costings, NEW most \in Nat, \A t \in Nat : t <= Budget => cost[t] <= most,
               SentInv(cost, most)
        PROVE  /\ Young(sent, cost, Window) \in Nat /\ Young(admitted, cost, Window) \in Nat
               /\ Young(sent, cost, Window) <= Young(admitted, cost, Window) + Concurrency * most
    <2> DEFINE v == Window - 1
    <2>1. v \in Int /\ v \in 0 .. Window - 1 /\ Window \in Int /\ v <= Window /\ v <= v
      BY LimitsTyped
    <2>2. Young(sent, cost, v) + Queue(cost) <= Young(admitted, cost, v) + Concurrency * most
      BY <1>3, <2>1 DEF SentInv
    <2>3. Queue(cost) \in Nat
      BY <1>1, <1>3, QueueTyped
    <2>4. Young(sent, cost, v) \in Nat /\ Young(admitted, cost, v) \in Nat
      BY <1>2, <2>1, YoungGrows
    <2>5. /\ Young(sent, cost, v) = Young(sent, cost, Window)
          /\ Young(admitted, cost, v) = Young(admitted, cost, Window)
      BY <1>2, YoungAll
    <2>6. Concurrency * most \in Nat
      <3>1. \A a, b \in Nat : a * b \in Nat
        OBVIOUS
      <3> QED
        BY <3>1, LimitsTyped
    <2> QED
      BY ONLY <2>2, <2>3, <2>4, <2>5, <2>6
  <1>4. Len(sent) <= Rpm + Concurrency
    <2>1. /\ Young(sent, ByRequest, Window) \in Nat /\ Young(admitted, ByRequest, Window) \in Nat
          /\ Young(sent, ByRequest, Window) <= Young(admitted, ByRequest, Window) + Concurrency * 1
      <3>1. ByRequest \in Costings /\ 1 \in Nat /\ \A t \in Nat : t <= Budget => ByRequest[t] <= 1
        BY CostingsAre
      <3> QED
        BY <1>3, <3>1 DEF RequestsInv
    <2>2. /\ Len(sent) = Young(sent, ByRequest, Window)
          /\ Len(admitted) = Young(admitted, ByRequest, Window)
      BY <1>2, TokensAreCosts
    <2> QED
      BY ONLY <1>2, <2>1, <2>2, LimitsTyped
  <1>5. Tokens(sent) <= Tpm + Concurrency * Budget
    <2>1. /\ Young(sent, ByTokens, Window) \in Nat /\ Young(admitted, ByTokens, Window) \in Nat
          /\ Young(sent, ByTokens, Window) <= Young(admitted, ByTokens, Window) + Concurrency * Budget
      <3>1. ByTokens \in Costings /\ Budget \in Nat /\ \A t \in Nat : t <= Budget => ByTokens[t] <= Budget
        BY CostingsAre, LimitsTyped
      <3> QED
        BY <1>3, <3>1 DEF RequestsInv
    <2>2. /\ Tokens(sent) = Young(sent, ByTokens, Window)
          /\ Tokens(admitted) = Young(admitted, ByTokens, Window)
      BY <1>2, TokensAreCosts
    <2>3. Concurrency * Budget \in Nat
      <3>1. \A a, b \in Nat : a * b \in Nat
        OBVIOUS
      <3> QED
        BY <3>1, LimitsTyped
    <2> QED
      BY ONLY <1>2, <2>1, <2>2, <2>3, LimitsTyped
  <1> QED
    BY <1>4, <1>5 DEF SentNearLimits

LEMMA ContentIsCovered ==
  RequestsInv => ContentCovered
  <1> SUFFICES ASSUME RequestsInv, NEW i \in DOMAIN chunks
               PROVE  LET c == chunks[i] IN
                      /\ c.start = IF i = 1 THEN 0 ELSE chunks[i - 1].end
                      /\ c.end \in doc.chars /\ c.end <= Length(doc)
                      /\ c.end > c.start \/ Length(doc) = 0
                      /\ c.tokens <= Budget
                      /\ \A h \in Range(headings) : ~ (c.start < h.at /\ h.at < c.end)
    BY DEF ContentCovered
  <1>1. JobInv
    BY DEF RequestsInv
  <1>2. doc # None
    BY <1>1 DEF JobInv
  <1>3. doc \in Documents /\ WellCut(doc, headings, chunks)
    BY <1>1, <1>2 DEF JobInv
  <1>4. i \in 1 .. Len(chunks)
    BY <1>3 DEF WellCut
  <1>5. Cutting(doc, headings, chunks, i)
    BY <1>3, <1>4 DEF WellCut
  <1>6. \A x \in doc.chars : x \in Nat /\ x <= Length(doc)
    BY <1>3, DocumentTyped
  <1>7. chunks[i].start \in Nat /\ chunks[i].end \in Nat
    BY <1>5, <1>6 DEF Cutting
  <1>8. chunks[i].end > chunks[i].start \/ Length(doc) = 0
    BY <1>5, <1>7 DEF Cutting
  <1> QED
    BY <1>5, <1>6, <1>8 DEF Cutting, NoneInside

\* The types, and that no chunk is at the gate twice or sent without a permit:
\* EMBED_GATE in request_single_embedding().
THEOREM RequestsTypeCorrectness ==
  RequestsSpec => []RequestsTypeOK
  <1>1. RequestsInv => RequestsTypeOK
    BY RequestsTyped
  <1> QED
    BY <1>1, RequestsInvariance, PTL

\* Of any window, embedding_request_wait() has let pass no more requests and
\* tokens than its limits say.
THEOREM RequestsWithinLimits ==
  RequestsSpec => []AdmittedWithinLimits
  <1>1. RequestsInv => AdmittedWithinLimits
    BY DEF RequestsInv, WindowInv
  <1> QED
    BY <1>1, RequestsInvariance, PTL

\* What request_single_embedding() sends exceeds the limits by what can be
\* held up at the gate at most.
THEOREM RequestsSentNearLimits ==
  RequestsSpec => []SentNearLimits
  <1>1. RequestsInv => SentNearLimits
    BY SentIsNear
  <1> QED
    BY <1>1, RequestsInvariance, PTL

\* The chunks of generate_chunks() cover the content without gaps, each in one
\* section and within the budget.
THEOREM ChunksCoverContent ==
  RequestsSpec => []ContentCovered
  <1>1. RequestsInv => ContentCovered
    BY ContentIsCovered
  <1> QED
    BY <1>1, RequestsInvariance, PTL

\* Numbers from 1 to n that grow are those numbers.
LEMMA GrowingIsSame ==
  ASSUME NEW n \in Nat, NEW q \in [1 .. n -> 1 .. n],
         \A k, l \in 1 .. n : k < l => q[k] < q[l]
  PROVE  \A k \in 1 .. n : q[k] = k
  <1>1. \A k \in 1 .. n : q[k] \in 1 .. n
    OBVIOUS
  <1> DEFINE U == {m \in Nat : m \in 1 .. n => m <= q[m]}
             D == {m \in Nat : n - m \in 1 .. n => q[n - m] <= n - m}
  <1>2. Nat \subseteq U
    <2>1. 0 \in U
      OBVIOUS
    <2>2. ASSUME NEW m \in Nat, m \in U PROVE m + 1 \in U
      <3> SUFFICES ASSUME m + 1 \in 1 .. n PROVE m + 1 <= q[m + 1]
        OBVIOUS
      <3>1. q[m + 1] \in 1 .. n
        BY <1>1
      <3>2. CASE m = 0
        BY <3>1, <3>2
      <3>3. CASE m # 0
        <4>1. m \in 1 .. n /\ m < m + 1
          BY <3>3
        <4>2. m <= q[m] /\ q[m] < q[m + 1] /\ q[m] \in 1 .. n
          BY <1>1, <2>2, <4>1
        <4> QED
          BY <3>1, <4>2
      <3> QED
        BY <3>2, <3>3
    <2> HIDE DEF U
    <2> QED
      BY <2>1, <2>2, NatSetInduction
  <1>3. Nat \subseteq D
    <2>1. 0 \in D
      <3>1. n \in 1 .. n => q[n] <= n
        BY <1>1
      <3>2. n - 0 = n
        OBVIOUS
      <3> QED
        BY <3>1, <3>2
    <2>2. ASSUME NEW m \in Nat, m \in D PROVE m + 1 \in D
      <3> DEFINE k == n - (m + 1)
      <3> SUFFICES ASSUME k \in 1 .. n PROVE q[k] <= k
        OBVIOUS
      <3>1. n - m = k + 1 /\ k + 1 \in 1 .. n /\ k < k + 1 /\ k \in Nat
        OBVIOUS
      <3>2. q[k + 1] <= k + 1
        BY <2>2, <3>1
      <3> HIDE DEF k
      <3>3. q[k] < q[k + 1] /\ q[k] \in 1 .. n /\ q[k + 1] \in 1 .. n
        BY <1>1, <3>1
      <3> QED
        BY <3>1, <3>2, <3>3
    <2> HIDE DEF D
    <2> QED
      BY <2>1, <2>2, NatSetInduction
  <1> SUFFICES ASSUME NEW k \in 1 .. n PROVE q[k] = k
    OBVIOUS
  <1>4. k \in Nat /\ n - k \in Nat /\ n - (n - k) = k
    OBVIOUS
  <1>5. k <= q[k] /\ q[k] <= k
    BY <1>2, <1>3, <1>4
  <1> QED
    BY <1>1, <1>5

\* As many numbers from 1 to n as there are, are all of them.
LEMMA AllAreDone ==
  ASSUME NEW n \in Nat, NEW s \in Seq(Nat), Len(s) = n, IsInjective(s), Range(s) \subseteq 1 .. n
  PROVE  Range(s) = 1 .. n
  <1> SUFFICES ASSUME NEW j \in 1 .. n, j \notin Range(s) PROVE FALSE
    OBVIOUS
  <1> DEFINE R == (1 .. n) \ {j}
  <1>1. IsFiniteSet(1 .. n) /\ Cardinality(1 .. n) = n
    BY FS_Interval
  <1>2. IsFiniteSet(R) /\ Cardinality(R) = n - 1
    BY <1>1, FS_RemoveElement
  <1>3. DOMAIN s = 1 .. n
    OBVIOUS
  <1>4. s \in [1 .. n -> R]
    BY <1>3 DEF Range
  <1>5. Cardinality(R) < Cardinality(1 .. n)
    BY <1>1, <1>2
  <1> HIDE DEF R
  <1>6. PICK a, b \in 1 .. n : a # b /\ s[a] = s[b]
    BY <1>1, <1>2, <1>4, <1>5, FS_PigeonHole
  <1> QED
    BY <1>3, <1>6 DEF IsInjective

\* Sorted by their index, the chunks are as they were cut.
LEMMA ReturnsInOrder ==
  RequestsInv => ReturnedInOrder
  <1> SUFFICES ASSUME RequestsInv, Complete PROVE Publishable(doc, InOrder)
    BY DEF ReturnedInOrder
  <1> DEFINE n == Len(chunks)
             S == ChunkOf(headings)
  <1>1. /\ JobInv /\ GateInv /\ doc # None /\ chunks # <<>> /\ EndOf(chunks) = Length(doc)
        /\ Len(done) = n
    BY DEF RequestsInv, Complete, Generating, IsCut
  <1>2. doc \in Documents /\ WellCut(doc, headings, chunks)
    BY <1>1 DEF JobInv
  <1>3. /\ chunks \in Seq(S) /\ n \in Nat /\ DOMAIN chunks = 1 .. n
        /\ \A i \in 1 .. n : Cutting(doc, headings, chunks, i)
        /\ Length(doc) = 0 => n <= 1
    BY <1>2 DEF WellCut
  <1>4. done \in Seq(Nat) /\ DOMAIN done = 1 .. n /\ Range(done) = 1 .. n
    <2>1. done \in Seq(Nat) /\ IsInjective(done)
      BY <1>1 DEF GateInv
    <2>2. Range(done) \subseteq 1 .. n
      <3>1. DOMAIN progress = 1 .. n
        BY <1>1 DEF GateInv
      <3> QED
        BY <1>1, <3>1 DEF GateInv, Placed
    <2>3. DOMAIN done = 1 .. n
      BY <1>1, <2>1
    <2> QED
      BY <1>1, <1>3, <2>1, <2>2, <2>3, AllAreDone
  <1>5. Range(Returned) = {chunks[j] : j \in 1 .. n}
    <2>1. Range(Returned) = {chunks[done[k]] : k \in 1 .. n}
      BY <1>4 DEF Returned, Range
    <2>2. \A k \in 1 .. n : done[k] \in 1 .. n
      BY <1>4 DEF Range
    <2>3. \A j \in 1 .. n : \E k \in 1 .. n : done[k] = j
      BY <1>4 DEF Range
    <2> QED
      BY <2>1, <2>2, <2>3
  <1>6. \A i \in 1 .. n : chunks[i].index = i - 1
    BY <1>3 DEF Cutting
  <1>7. InOrder = chunks
    <2> DEFINE T == [1 .. n -> Range(Returned)]
               Grows(s) == \A k, l \in 1 .. n : k < l => s[k].index < s[l].index
               s == InOrder
    <2>1. s = CHOOSE x \in T : Grows(x)
      BY <1>4 DEF InOrder
    <2>2. chunks \in T /\ Grows(chunks)
      <3>1. chunks = [k \in 1 .. n |-> chunks[k]]
        BY <1>3
      <3>2. \A k \in 1 .. n : chunks[k] \in Range(Returned)
        BY <1>5
      <3>3. Grows(chunks)
        BY <1>3, <1>6
      <3> QED
        BY <3>1, <3>2, <3>3
    <2> HIDE DEF s
    <2>3. s \in T /\ Grows(s)
      <3> HIDE DEF T, Grows
      <3> QED
        BY <2>1, <2>2
    <2> DEFINE q == [k \in 1 .. n |-> s[k].index + 1]
    <2>4. \A k \in 1 .. n : s[k] \in Range(Returned)
      BY <2>3
    <2>5. \A k \in 1 .. n : \E j \in 1 .. n : s[k] = chunks[j] /\ q[k] = j
      <3> TAKE k \in 1 .. n
      <3>1. PICK j \in 1 .. n : s[k] = chunks[j]
        BY <1>5, <2>4
      <3>2. s[k].index = j - 1
        BY <1>6, <3>1
      <3>3. q[k] = (j - 1) + 1
        BY <3>2
      <3>4. (j - 1) + 1 = j
        BY <1>3
      <3> QED
        BY <3>1, <3>3, <3>4
    <2>6. q \in [1 .. n -> 1 .. n]
      BY <2>5
    <2>7. \A k, l \in 1 .. n : k < l => q[k] < q[l]
      <3> TAKE k, l \in 1 .. n
      <3>1. /\ s[k].index \in Int /\ s[l].index \in Int
            /\ q[k] = s[k].index + 1 /\ q[l] = s[l].index + 1
        <4>1. \A j \in 1 .. n : chunks[j].index \in Int
          BY <1>3, <1>6
        <4> QED
          BY <1>5, <2>4, <4>1
      <3>2. k < l => s[k].index < s[l].index
        BY <2>3
      <3> HIDE DEF q
      <3> QED
        BY <3>1, <3>2
    <2> HIDE DEF q
    <2>8. \A k \in 1 .. n : q[k] = k
      BY <1>3, <2>6, <2>7, GrowingIsSame
    <2>9. \A k \in 1 .. n : s[k] = chunks[k]
      BY <2>5, <2>8
    <2>10. s = [k \in 1 .. n |-> chunks[k]]
      BY <2>3, <2>9
    <2>11. chunks = [k \in 1 .. n |-> chunks[k]]
      BY <1>3
    <2> QED
      BY <2>10, <2>11 DEF s
  <1>8. ASSUME NEW i \in DOMAIN chunks
        PROVE  LET c == chunks[i] IN
               /\ c.index = i - 1
               /\ c.start = IF i = 1 THEN 0 ELSE chunks[i - 1].end
               /\ c.end > c.start \/ (Length(doc) = 0 /\ Len(chunks) = 1)
               /\ {c.start, c.end} \subseteq doc.chars
    <2>1. Cutting(doc, headings, chunks, i) /\ n # 0 /\ i \in 1 .. n
      BY <1>3
    <2>2. chunks[i].start \in doc.chars /\ chunks[i].end \in doc.chars
      BY <2>1 DEF Cutting
    <2>3. chunks[i].start \in Nat /\ chunks[i].end \in Nat
      BY <1>2, <2>2, DocumentTyped
    <2>4. chunks[i].end > chunks[i].start \/ Length(doc) = 0
      BY <2>1, <2>3 DEF Cutting
    <2>5. Length(doc) = 0 => n = 1
      BY <1>3, <2>1
    <2> QED
      BY <2>1, <2>2, <2>4, <2>5 DEF Cutting
  <1> QED
    BY <1>1, <1>7, <1>8 DEF Publishable

\* What generate_chunks() returns are all chunks, each once and in order, as
\* upsert_approved_embedding() demands it, however the answers came in.
THEOREM ChunksReturnInOrder ==
  RequestsSpec => []ReturnedInOrder
  <1>1. RequestsInv => ReturnedInOrder
    BY ReturnsInOrder
  <1> QED
    BY <1>1, RequestsInvariance, PTL

\* Who is told to sleep has asked the window in this step.
LEMMA OnlyWindowTellsToSleep ==
  ASSUME RequestsInv, [RequestsNext]_requestsVars, NEW i \in DOMAIN progress, ToldToSleep(i)
  PROVE  SleepOn(i)
  <1>1. JobInv /\ GateInv /\ WindowInv /\ progress \in Seq(Progress)
    BY DEF RequestsInv, GateInv
  <1>2. /\ i \in DOMAIN progress' /\ progress[i].at = "asleep" /\ progress[i].left = 0
        /\ progress'[i].at = "asleep" /\ progress'[i].left > 0
    BY DEF ToldToSleep, Awake
  <1>3. ASSUME progress'[i] = progress[i] PROVE FALSE
    BY <1>2, <1>3
  <1>4. ASSUME Ended PROVE FALSE
    BY <1>2, <1>4 DEF Ended
  <1>5. ASSUME Cut PROVE FALSE
    <2>1. progress' = Append(progress, Unstarted) /\ Unstarted \in Progress
      BY <1>5, LimitsTyped, RequestsAssumption DEF Cut, Unstarted, Progress, Places
    <2>2. i \in 1 .. Len(progress)
      BY <1>1
    <2>3. progress'[i] = progress[i]
      BY <1>1, <2>1, <2>2, AppendOf
    <2> QED
      BY <1>3, <2>3
  <1>6. ASSUME Tick PROVE FALSE
    <2>1. progress'[i].left = IF progress[i].left = 0 THEN 0 ELSE progress[i].left - 1
      BY <1>1, <1>6, TickMoves
    <2>2. progress'[i].left = 0
      BY <1>2, <2>1
    <2> QED
      BY <1>2, <2>2
  <1>7. ASSUME UNCHANGED progress PROVE FALSE
    BY <1>3, <1>7
  <1>8. ASSUME NEW j \in DOMAIN progress, ChunkStep(j) PROVE SleepOn(i)
    <2>1. PICK e : /\ Moves(j, e)
                   /\ \/ SleepOn(j) \/ progress[j].at # "asleep" \/ e.at # "asleep"
      BY <1>1, <1>4, <1>8, StepMoves
    <2>2. progress'[i] = IF i = j THEN e ELSE progress[i]
      BY <1>1, <2>1, MovesIs
    <2>3. i = j
      BY <1>3, <2>2
    <2> QED
      BY <1>2, <2>1, <2>2, <2>3
  <1>9. ASSUME CutFails \/ Finish PROVE FALSE
    BY <1>4, <1>9 DEF CutFails, Finish
  <1>10. ASSUME \E u \in Searches : Enter(u) \/ Leave(u) PROVE FALSE
    BY <1>7, <1>10 DEF Enter, Leave, job
  <1>11. ASSUME UNCHANGED requestsVars \/ \E d \in Documents : Begin(d) PROVE FALSE
    BY <1>7, <1>11 DEF requestsVars, Begin
  <1> QED
    BY <1>5, <1>6, <1>8, <1>9, <1>10, <1>11 DEF RequestsNext

\* After the wait, and not before it, the window has room.
LEMMA RoomAfter ==
  ASSUME NEW s \in Seq(Requests), Sorted(s), NEW tokens \in Nat, tokens <= Tpm, ~ Room(s, tokens),
         NEW v \in 0 .. Window
  PROVE  LET left == Those(s, {r \in Range(s) : r.age + v < Window}) IN
         /\ WaitFor(s, tokens) \in 0 .. Window
         /\ Room(left, tokens) <=> WaitFor(s, tokens) <= v
  <1> DEFINE S == {r \in Range(s) : r.age + v < Window}
             left == Those(s, S)
             w == WaitFor(s, tokens)
             n == Len(s)
             rest(k) == SubSeq(s, k + 1, n)
  <1>0. n \in Nat /\ Window \in Nat /\ v \in Nat /\ Window - v \in Int
    BY LimitsTyped
  <1>1. PICK m \in 1 .. n : /\ w = Window - s[m].age
                            /\ Room(rest(m), tokens)
                            /\ \A k \in 0 .. m - 1 : ~ Room(rest(k), tokens)
    BY WaitForIs
  <1>2. PICK p \in 0 .. n : Passed(s, p, Window - v)
    BY <1>0, SomePassed
  <1>3. \A k \in 1 .. n : s[k].age \in Nat /\ s[k].age <= Window
    <2>1. \A k \in 1 .. n : s[k] \in Requests
      OBVIOUS
    <2> QED
      BY <2>1, RequestTyped
  <1>4. \A k \in 1 .. n : s[k] \in S <=> s[k].age < Window - v
    <2> TAKE k \in 1 .. n
    <2>1. DOMAIN s = 1 .. n
      OBVIOUS
    <2>2. s[k] \in S <=> s[k].age + v < Window
      BY <2>1 DEF Range
    <2>3. s[k].age + v < Window <=> s[k].age < Window - v
      BY <1>0, <1>3
    <2> QED
      BY <2>2, <2>3
  <1> HIDE DEF S, w
  <1>5. IsRest(left, s, p)
    BY <1>2, <1>4, ThoseYoung
  <1>6. left = rest(p)
    BY <1>5, RestIs
  <1>7. w <= v <=> m <= p
    <2>1. s[m].age < Window - v <=> m > p
      BY <1>2 DEF Passed
    <2>2. s[m].age \in Nat /\ m \in Nat /\ p \in Nat
      BY <1>3
    <2> QED
      BY <1>0, <1>1, <2>1, <2>2, SMTT(40)
  <1>8. w \in 0 .. Window
    BY <1>0, <1>1, <1>3
  <1>9. ASSUME m <= p PROVE Room(left, tokens)
    <2>1. m \in 0 .. n /\ p - m \in Nat /\ m + (p - m) = p /\ p - m <= n - m
      BY <1>0, <1>9
    <2>2. IsRest(rest(m), s, m)
      BY <2>1, RestIs
    <2> DEFINE t == rest(m)
               u == SubSeq(t, (p - m) + 1, Len(t))
    <2>3. t \in Seq(Requests) /\ Len(t) = n - m
      BY <2>2 DEF IsRest
    <2>4. p - m \in 0 .. Len(t)
      BY <1>0, <2>1, <2>3
    <2> HIDE DEF t
    <2>5. IsRest(u, t, p - m)
      BY <2>3, <2>4, RestIs
    <2>6. Room(u, tokens)
      <3>1. Room(t, tokens)
        BY <1>1 DEF t
      <3> HIDE DEF u
      <3> QED
        BY <2>3, <2>5, <3>1, RoomGrows
    <2> HIDE DEF u
    <2>7. IsRest(u, s, m + (p - m))
      BY <2>2, <2>5, RestOfRest DEF t
    <2>8. u = rest(p)
      BY <2>1, <2>7, RestIs
    <2> QED
      BY <1>6, <2>6, <2>8
  <1>10. ASSUME ~ (m <= p) PROVE ~ Room(left, tokens)
    <2>1. p \in 0 .. m - 1
      BY <1>0, <1>10
    <2> QED
      BY <1>1, <1>6, <2>1
  <1> QED
    BY <1>7, <1>8, <1>9, <1>10 DEF left, S, w

\* embedding_request_wait() tells who has to wait the shortest time after
\* which the window has room for its request.
THEOREM WaitsAreLeast ==
  RequestsSpec => WaitIsLeast
  <1> DEFINE Least(i) == ToldToSleep(i) =>
               {v \in 0 .. Window : Room(AdmittedAfter(v), chunks[i].tokens)}
                 = progress'[i].left .. Window
  <1>1. RequestsInv /\ [RequestsNext]_requestsVars
          => [\A i \in DOMAIN progress : Least(i)]_requestsVars
    <2> SUFFICES ASSUME RequestsInv, [RequestsNext]_requestsVars, NEW i \in DOMAIN progress,
                        ToldToSleep(i)
                 PROVE  {v \in 0 .. Window : Room(AdmittedAfter(v), chunks[i].tokens)}
                          = progress'[i].left .. Window
      OBVIOUS
    <2> DEFINE w == WaitFor(admitted, chunks[i].tokens)
    <2>1. SleepOn(i)
      BY OnlyWindowTellsToSleep
    <2>2. /\ admitted \in Seq(Requests) /\ Sorted(admitted) /\ InWindow(recent) = admitted
          /\ JobInv /\ progress \in Seq(Progress) /\ Len(progress) = Len(chunks)
      BY DEF RequestsInv, WindowInv, GateInv
    <2>3. chunks[i].tokens <= Tpm /\ ~ Room(admitted, chunks[i].tokens)
      BY <2>1, <2>2 DEF SleepOn
    <2>4. chunks[i].tokens \in Nat
      <3>1. i \in 1 .. Len(chunks)
        BY <2>2
      <3> QED
        BY <2>2, <3>1, ChunksTyped
    <2>5. progress'[i].left = w
      <3>1. progress' = [progress EXCEPT ![i].left = w]
        BY <2>1, <2>2 DEF SleepOn
      <3>2. progress[i] \in Progress
        BY <2>2
      <3> HIDE DEF w
      <3>3. progress'[i] = [progress[i] EXCEPT !.left = w]
        BY <3>1
      <3> QED
        BY <3>2, <3>3 DEF Progress
    <2>6. \A v \in 0 .. Window : Room(AdmittedAfter(v), chunks[i].tokens) <=> w <= v
      BY <2>2, <2>3, <2>4, RoomAfter DEF AdmittedAfter
    <2>7. w \in 0 .. Window /\ Window \in Nat
      <3>1. 0 \in 0 .. Window
        BY LimitsTyped
      <3> QED
        BY <2>2, <2>3, <2>4, <3>1, LimitsTyped, RoomAfter
    <2> HIDE DEF w
    <2>8. \A v : v \in w .. Window <=> v \in 0 .. Window /\ w <= v
      BY <2>7
    <2> QED
      BY <2>5, <2>6, <2>8
  <1> QED
    BY <1>1, RequestsInvariance, PTL DEF RequestsSpec, WaitIsLeast

-----------------------------------------------------------------------------
(* The headings a chunk stands under                                       *)

\* Of the heading lines S, those of a higher level than all that follow.
Standing(d, S) == {k \in S : \A j \in S : k < j => d.lines[k].run < d.lines[j].run}

Named(d, S) == {k \in Standing(d, S) : d.lines[k].rest # "blank"}

\* The open headings are the lines in S.
OpenOf(open, d, S) ==
  \E line : /\ Enumerates(line, Len(open), S)
            /\ \A j \in 1 .. Len(open) :
                 open[j] = [level |-> d.lines[line[j]].run, title |-> d.lines[line[j]].rest]

\* If the open headings get deeper, those above a level are the first.
LEMMA AboveIs ==
  ASSUME NEW open \in Seq(Opened), NEW r \in Nat,
         \A i, j \in 1 .. Len(open) : i < j => open[i].level < open[j].level
  PROVE  \E p \in 0 .. Len(open) :
           /\ \A j \in 1 .. Len(open) : open[j].level < r <=> j <= p
           /\ Above(open, r) \in Seq(Opened) /\ Len(Above(open, r)) = p
           /\ \A i \in 1 .. p : Above(open, r)[i] = open[i]
  <1> DEFINE n == Len(open)
             B == {j \in 1 .. n : ~ (open[j].level < r)}
             S == {h \in Range(open) : h.level < r}
  <1>0. n \in Nat
    OBVIOUS
  <1>1. \A j \in 1 .. n : open[j].level \in Nat
    <2>1. \A j \in 1 .. n : open[j] \in Opened
      OBVIOUS
    <2> QED
      BY <2>1 DEF Opened
  <1>2. \E p \in 0 .. n : \A j \in 1 .. n : open[j].level < r <=> j <= p
    <2>1. CASE B = {}
      <3>1. \A j \in 1 .. n : open[j].level < r /\ j <= n
        BY <1>0, <2>1
      <3>2. n \in 0 .. n
        BY <1>0
      <3> QED
        BY <3>1, <3>2
    <2>2. CASE B # {}
      <3>1. PICK m \in B : \A j \in B : m <= j
        <4>1. B \subseteq Nat
          OBVIOUS
        <4> HIDE DEF B
        <4> QED
          BY <2>2, <4>1, LeastOfSet
      <3>2. m \in 1 .. n /\ ~ (open[m].level < r) /\ m - 1 \in 0 .. n
        BY <1>0, <3>1
      <3>3. ASSUME NEW j \in 1 .. n PROVE open[j].level < r <=> j <= m - 1
        <4>1. CASE j < m
          <5>1. j \notin B
            BY <1>0, <3>1, <3>2, <4>1
          <5> QED
            BY <1>0, <3>2, <4>1, <5>1
        <4>2. CASE ~ (j < m)
          <5>1. open[m].level <= open[j].level
            <6>1. m = j \/ m < j
              BY <1>0, <3>2, <4>2
            <6> QED
              BY <1>1, <3>2, <6>1
          <5>2. ~ (open[j].level < r)
            BY <1>1, <3>2, <5>1
          <5> QED
            BY <1>0, <3>2, <4>2, <5>2
        <4> QED
          BY <4>1, <4>2
      <3> QED
        BY <3>2, <3>3
    <2> QED
      BY <2>1, <2>2
  <1>3. PICK p \in 0 .. n : \A j \in 1 .. n : open[j].level < r <=> j <= p
    BY <1>2
  <1>4. DOMAIN open = 1 .. n
    OBVIOUS
  <1>5. \A k \in 1 .. n : open[k] \in S <=> k <= p
    BY <1>3, <1>4 DEF Range
  <1>6. Above(open, r) = Those(open, S)
    BY DEF Above
  <1> HIDE DEF S
  <1>7. /\ Those(open, S) \in Seq(Opened) /\ Len(Those(open, S)) = p
        /\ \A i \in 1 .. p : Those(open, S)[i] = open[i]
    BY <1>5, ThoseFirst
  <1> QED
    BY <1>3, <1>6, <1>7

\* A heading more ends those that are not above it.
LEMMA StandingMore ==
  ASSUME NEW d \in Documents, NEW m \in Nat, m + 1 <= Len(d.lines), NEW S, S \subseteq 1 .. m
  PROVE  Named(d, S \cup {m + 1})
           = {k \in Named(d, S) : d.lines[k].run < d.lines[m + 1].run}
               \cup IF d.lines[m + 1].rest = "blank" THEN {} ELSE {m + 1}
  <1>1. \A k \in S : k < m + 1 /\ ~ (m + 1 < k) /\ k # m + 1
    OBVIOUS
  <1>2. ~ (m + 1 < m + 1)
    OBVIOUS
  <1>3. Standing(d, S \cup {m + 1})
          = {k \in Standing(d, S) : d.lines[k].run < d.lines[m + 1].run} \cup {m + 1}
    BY <1>1, <1>2, Zenon DEF Standing
  <1> QED
    BY <1>3, Zenon DEF Named

LEMMA OpenMore ==
  ASSUME NEW d \in Documents, NEW m \in Nat, m + 1 <= Len(d.lines), NEW S, S \subseteq 1 .. m,
         NEW open \in Seq(Opened), OpenOf(open, d, Named(d, S))
  PROVE  OpenOf(Open(open, d.lines[m + 1]), d, Named(d, S \cup {m + 1}))
  <1> DEFINE L == d.lines[m + 1]
             r == L.run
             U == Named(d, S)
             T == {k \in U : d.lines[k].run < r}
             a == Above(open, r)
             n == Len(open)
  <1>1. PICK line : /\ Enumerates(line, n, U)
                    /\ \A j \in 1 .. n :
                         open[j] = [level |-> d.lines[line[j]].run, title |-> d.lines[line[j]].rest]
    BY DEF OpenOf
  <1>2. m + 1 \in 1 .. Len(d.lines) /\ L \in Lines /\ r \in Nat /\ L.rest \in STRING
    <2>1. m + 1 \in 1 .. Len(d.lines)
      BY DocumentTyped
    <2>2. L \in Lines
      BY <2>1, DocumentTyped
    <2> QED
      BY <2>1, <2>2 DEF Lines
  <1>3. U \subseteq S /\ U \subseteq 1 .. m /\ n \in Nat
    <2>1. U \subseteq S
      BY DEF Named, Standing
    <2>2. n \in Nat
      OBVIOUS
    <2> HIDE DEF U
    <2> QED
      BY <2>1, <2>2
  <1>4. \A j \in 1 .. n : line[j] \in U /\ open[j].level = d.lines[line[j]].run
    <2> HIDE DEF U, n
    <2>1. \A j \in 1 .. n : line[j] \in U
      BY <1>1 DEF Enumerates
    <2>2. \A j \in 1 .. n : open[j].level = d.lines[line[j]].run
      <3> TAKE j \in 1 .. n
      <3>1. open[j] = [level |-> d.lines[line[j]].run, title |-> d.lines[line[j]].rest]
        BY <1>1, Zenon
      <3> QED
        BY ONLY <3>1
    <2> QED
      BY <2>1, <2>2
  <1>5. \A i, j \in 1 .. n : i < j => open[i].level < open[j].level
    <2> SUFFICES ASSUME NEW i \in 1 .. n, NEW j \in 1 .. n, i < j PROVE open[i].level < open[j].level
      OBVIOUS
    <2>1. line[i] < line[j]
      BY <1>1 DEF Enumerates
    <2>2. line[i] \in Standing(d, S) /\ line[j] \in S
      BY <1>3, <1>4 DEF Named
    <2>3. d.lines[line[i]].run < d.lines[line[j]].run
      BY <2>1, <2>2 DEF Standing
    <2> QED
      BY <1>4, <2>3
  <1> HIDE DEF n
  <1>6. PICK p \in 0 .. n :
          /\ \A j \in 1 .. n : open[j].level < r <=> j <= p
          /\ a \in Seq(Opened) /\ Len(a) = p /\ \A i \in 1 .. p : a[i] = open[i]
    BY <1>2, <1>5, AboveIs DEF n
  <1> DEFINE h == [j \in 1 .. p |-> line[j]]
  <1>7. Enumerates(h, p, T)
    <2>1. \A j \in 1 .. n : line[j] \in T <=> j <= p
      BY <1>4, <1>6
    <2>2. T \subseteq U
      OBVIOUS
    <2> HIDE DEF T, U
    <2> QED
      BY <1>1, <1>3, <2>1, <2>2, EnumerateFirst
  <1>8. Named(d, S \cup {m + 1}) = T \cup IF L.rest = "blank" THEN {} ELSE {m + 1}
    BY StandingMore
  <1>9. T \subseteq Nat /\ \A y \in T : y < m + 1
    BY <1>3
  <1>10. p \in Nat /\ p <= n
    BY <1>3
  <1>11. \A j \in 1 .. p :
           /\ h[j] = line[j]
           /\ a[j] = [level |-> d.lines[line[j]].run, title |-> d.lines[line[j]].rest]
    <2>1. \A j \in 1 .. p : j \in 1 .. n
      BY <1>3, <1>10
    <2> QED
      BY <1>1, <1>6, <2>1
  <1> HIDE DEF T, U, h, a
  <1>12. CASE L.rest = "blank"
    <2>1. Open(open, L) = a
      <3>1. Open(open, L) = a \o <<>>
        BY <1>12 DEF Open, a
      <3> QED
        BY <1>6, <3>1, ConcatEmptySeq
    <2>2. Named(d, S \cup {m + 1}) = T
      BY <1>8, <1>12
    <2>3. \A j \in 1 .. Len(a) :
            a[j] = [level |-> d.lines[h[j]].run, title |-> d.lines[h[j]].rest]
      BY <1>6, <1>11
    <2>4. Enumerates(h, Len(a), T)
      BY <1>6, <1>7
    <2> HIDE DEF L
    <2>5. OpenOf(a, d, T)
      BY <2>3, <2>4, Zenon DEF OpenOf
    <2> QED
      BY <2>1, <2>2, <2>5 DEF L
  <1>13. CASE L.rest # "blank"
    <2> DEFINE e == [level |-> r, title |-> L.rest]
               o == Open(open, L)
               f == [j \in 1 .. p + 1 |-> IF j = p + 1 THEN m + 1 ELSE h[j]]
    <2>1. o = a \o <<e>>
      BY <1>13 DEF Open, a
    <2>2. e \in Opened
      BY <1>2 DEF Opened
    <2>3. <<e>> \in Seq(Opened) /\ Len(<<e>>) = 1 /\ <<e>>[1] = e
      <3> HIDE DEF Opened, e
      <3> QED
        BY <2>2
    <2> HIDE DEF o, e
    <2>4. Len(o) = p + 1 /\ o[p + 1] = e /\ \A j \in 1 .. p : o[j] = a[j]
      <3>1. /\ Len(a \o <<e>>) = Len(a) + Len(<<e>>)
            /\ \A j \in 1 .. Len(a) : (a \o <<e>>)[j] = a[j]
            /\ \A j \in 1 .. Len(<<e>>) : (a \o <<e>>)[Len(a) + j] = <<e>>[j]
        BY <1>6, <2>3, ConcatProperties
      <3>2. 1 \in 1 .. 1
        OBVIOUS
      <3> QED
        BY <1>6, <2>1, <2>3, <3>1, <3>2
    <2>5. Enumerates(f, p + 1, T \cup {m + 1})
      <3>1. m + 1 \in Nat
        OBVIOUS
      <3> QED
        BY ONLY <1>7, <1>9, <1>10, <3>1, EnumerateMore
    <2>6. \A j \in 1 .. p + 1 : j \in 1 .. p \/ j = p + 1
      BY <1>10
    <2>7. f[p + 1] = m + 1 /\ \A j \in 1 .. p : f[j] = line[j]
      <3>1. p + 1 \in 1 .. p + 1 /\ \A j \in 1 .. p : j \in 1 .. p + 1 /\ j # p + 1
        BY <1>10
      <3> QED
        BY <1>11, <3>1
    <2> HIDE DEF f
    <2>8. \A j \in 1 .. p + 1 :
            o[j] = [level |-> d.lines[f[j]].run, title |-> d.lines[f[j]].rest]
      <3>1. o[p + 1] = [level |-> d.lines[f[p + 1]].run, title |-> d.lines[f[p + 1]].rest]
        BY <2>4, <2>7 DEF e
      <3>2. \A j \in 1 .. p :
              o[j] = [level |-> d.lines[f[j]].run, title |-> d.lines[f[j]].rest]
        BY <1>11, <2>4, <2>7
      <3> QED
        BY <2>6, <3>1, <3>2
    <2>9. OpenOf(o, d, T \cup {m + 1})
      <3> HIDE DEF L, r
      <3>1. /\ Enumerates(f, Len(o), T \cup {m + 1})
            /\ \A j \in 1 .. Len(o) :
                 o[j] = [level |-> d.lines[f[j]].run, title |-> d.lines[f[j]].rest]
        BY <2>4, <2>5, <2>8
      <3> QED
        BY <3>1, Zenon DEF OpenOf
    <2>10. Named(d, S \cup {m + 1}) = T \cup {m + 1}
      BY <1>8, <1>13
    <2> QED
      BY <2>9, <2>10 DEF o
  <1> QED
    BY <1>12, <1>13

\* The open headings are those that stand.
LEMMA OpenIsNamed ==
  ASSUME NEW d \in Documents, NEW g, IsScan(g, d), NEW m \in 0 .. Len(d.lines)
  PROVE  OpenOf(g[m].open, d, Named(d, HeadingLines(g, d, m)))
  <1> DEFINE n == Len(d.lines)
             P(k) == OpenOf(g[k].open, d, Named(d, HeadingLines(g, d, k)))
             N == {k \in Nat : k <= n => P(k)}
  <1>0. n \in Nat
    BY DocumentTyped
  <1>1. 0 \in N
    <2>1. g[0] = Fresh
      BY <1>0, ScanStep
    <2>2. g[0].open = <<>> /\ Len(g[0].open) = 0
      BY <2>1, EmptySeq DEF Fresh
    <2>3. Named(d, HeadingLines(g, d, 0)) = {}
      BY DEF HeadingLines, Named, Standing
    <2>4. Enumerates([j \in 1 .. 0 |-> 0], 0, {})
      BY DEF Enumerates
    <2>5. \A line : \A j \in 1 .. 0 :
            g[0].open[j] = [level |-> d.lines[line[j]].run, title |-> d.lines[line[j]].rest]
      OBVIOUS
    <2>6. P(0)
      BY <2>2, <2>3, <2>4, <2>5, Zenon DEF OpenOf
    <2> QED
      BY <2>6
  <1>2. ASSUME NEW k \in Nat, k \in N PROVE k + 1 \in N
    <2> SUFFICES ASSUME k + 1 <= n PROVE P(k + 1)
      OBVIOUS
    <2>1. P(k)
      BY <1>0, <1>2
    <2> DEFINE line == d.lines[k + 1]
               S == HeadingLines(g, d, k)
    <2>2. /\ g[k] \in Scans
          /\ Heads(g[k], line) =>
               g[k + 1].open = Open(g[k].open, line) /\ HeadingLines(g, d, k + 1) = S \cup {k + 1}
          /\ ~ Heads(g[k], line) =>
               g[k + 1].open = g[k].open /\ HeadingLines(g, d, k + 1) = S
      <3>1. Adds(g, d, k)
        BY ScanMore
      <3> QED
        BY <3>1 DEF Adds
    <2>3. S \subseteq 1 .. k
      BY DEF HeadingLines
    <2>4. g[k].open \in Seq(Opened)
      BY <2>2 DEF Scans
    <2> HIDE DEF S
    <2>5. OpenOf(Open(g[k].open, line), d, Named(d, S \cup {k + 1}))
      BY <2>1, <2>3, <2>4, OpenMore DEF S
    <2> QED
      BY <2>1, <2>2, <2>5 DEF S
  <1>3. Nat \subseteq N
    <2> HIDE DEF N
    <2> QED
      BY <1>1, <1>2, NatSetInduction
  <1>4. m \in N /\ m <= n
    <2> HIDE DEF N
    <2> QED
      BY <1>0, <1>3
  <1> QED
    BY <1>4

\* f holds the fence that is open after each line, as TitlesAbove() has it.
IsFenced(f, d) ==
  f = [k \in 0 .. Len(d.lines) |->
         IF k = 0 THEN NoFence
         ELSE IF f[k - 1] = NoFence
              THEN IF Opens(d.lines[k]) THEN [kind |-> d.lines[k].kind, run |-> d.lines[k].run] ELSE NoFence
              ELSE IF Closes(d.lines[k], f[k - 1]) THEN NoFence ELSE f[k - 1]]

\* The lines that count for "at", by their fences.
CountedBy(f, d, at) ==
  LET before == {k \in 1 .. Len(d.lines) : LineEnds(d)[k - 1] <= at
                   /\ d.lines[k].kind = "heading" /\ f[k - 1] = NoFence}
      counts == {k \in before : \A j \in before : k < j => d.lines[k].run < d.lines[j].run}
  IN {k \in counts : d.lines[k].rest # "blank"}

\* The scan has the same fences.
LEMMA FencesAgree ==
  ASSUME NEW d \in Documents, NEW g, IsScan(g, d)
  PROVE  /\ \E f : IsFenced(f, d)
         /\ \A f : IsFenced(f, d) => \A k \in 0 .. Len(d.lines) : f[k] = g[k].fence
  <1> DEFINE n == Len(d.lines)
             Next1(fence, k) ==
               IF fence = NoFence
               THEN IF Opens(d.lines[k]) THEN [kind |-> d.lines[k].kind, run |-> d.lines[k].run] ELSE NoFence
               ELSE IF Closes(d.lines[k], fence) THEN NoFence ELSE fence
             Step(f, k) == IF k = 0 THEN NoFence ELSE Next1(f[k - 1], k)
  <1>0. n \in Nat
    BY DocumentTyped
  <1>1. g[0].fence = NoFence
    <2>1. g[0] = Fresh
      BY <1>0, ScanStep
    <2> QED
      BY <2>1 DEF Fresh
  <1>2. ASSUME NEW k \in Nat, k + 1 <= n
        PROVE  g[k + 1].fence = Next1(g[k].fence, k + 1)
    <2>1. Adds(g, d, k)
      BY <1>2, ScanMore
    <2>2. g[k + 1].fence = FenceAfter(g[k].fence, d.lines[k + 1])
      BY <2>1 DEF Adds
    <2> QED
      BY <2>2 DEF FenceAfter
  <1>3. \A f : IsFenced(f, d) <=> f = [k \in 0 .. n |-> Step(f, k)]
    BY DEF IsFenced
  <1> HIDE DEF Next1, n
  <1>4. \E f : IsFenced(f, d)
    <2> DEFINE f == [k \in 0 .. n |-> g[k].fence]
    <2>1. ASSUME NEW k \in 0 .. n PROVE f[k] = Step(f, k)
      <3>1. f[k] = g[k].fence
        OBVIOUS
      <3>2. CASE k = 0
        BY <1>1, <3>1, <3>2
      <3>3. CASE k # 0
        <4>1. k - 1 \in Nat /\ (k - 1) + 1 = k /\ k <= n /\ k - 1 \in 0 .. n
          BY <1>0, <3>3
        <4>2. g[k].fence = Next1(g[k - 1].fence, k)
          BY <1>2, <4>1
        <4>3. f[k - 1] = g[k - 1].fence
          BY <4>1
        <4> HIDE DEF f
        <4> QED
          BY <3>1, <3>3, <4>2, <4>3
      <3> QED
        BY <3>2, <3>3
    <2>2. f = [k \in 0 .. n |-> f[k]]
      OBVIOUS
    <2> HIDE DEF f
    <2>3. f = [k \in 0 .. n |-> Step(f, k)]
      <3> HIDE DEF Step
      <3> QED
        BY <2>1, <2>2
    <2> QED
      BY <1>3, <2>3
  <1>5. ASSUME NEW f, IsFenced(f, d), NEW k \in 0 .. n PROVE f[k] = g[k].fence
    <2> DEFINE N == {j \in Nat : j <= n => f[j] = g[j].fence}
    <2>1. \A j \in 0 .. n : f[j] = Step(f, j)
      <3>1. f = [j \in 0 .. n |-> Step(f, j)]
        BY <1>3, <1>5
      <3> HIDE DEF Step
      <3> QED
        BY <3>1, Zenon
    <2>2. 0 \in N
      <3>1. 0 \in 0 .. n
        BY <1>0
      <3> QED
        BY <1>1, <2>1, <3>1
    <2>3. ASSUME NEW j \in Nat, j \in N PROVE j + 1 \in N
      <3> SUFFICES ASSUME j + 1 <= n PROVE f[j + 1] = g[j + 1].fence
        OBVIOUS
      <3>1. j + 1 \in 0 .. n /\ j + 1 # 0 /\ (j + 1) - 1 = j /\ j <= n
        BY <1>0
      <3>2. f[j + 1] = Next1(f[j], j + 1)
        BY <2>1, <3>1
      <3>3. f[j] = g[j].fence
        BY <2>3, <3>1
      <3> QED
        BY <1>2, <3>2, <3>3
    <2>4. Nat \subseteq N
      <3> HIDE DEF N
      <3> QED
        BY <2>2, <2>3, NatSetInduction
    <2> QED
      BY <1>0, <2>4
  <1> QED
    BY <1>4, <1>5 DEF n

LEMMA TitlesAboveAre ==
  ASSUME NEW d \in Documents, NEW g, IsScan(g, d), NEW at
  PROVE  TitlesAbove(d, at)
           = Named(d, {k \in HeadingLines(g, d, Len(d.lines)) : LineEnds(d)[k - 1] <= at})
  <1> DEFINE n == Len(d.lines)
             f == CHOOSE f : IsFenced(f, d)
  <1>1. TitlesAbove(d, at) = CountedBy(f, d, at)
    BY DEF TitlesAbove, CountedBy, IsFenced
  <1>2. IsFenced(f, d)
    BY FencesAgree, Zenon
  <1> HIDE DEF f
  <1>3. \A k \in 1 .. n : f[k - 1] = g[k - 1].fence
    <2>1. \A k \in 1 .. n : k - 1 \in 0 .. n
      BY DocumentTyped
    <2> QED
      BY <1>2, <2>1, FencesAgree
  <1> DEFINE before == {k \in 1 .. n : LineEnds(d)[k - 1] <= at
                          /\ d.lines[k].kind = "heading" /\ f[k - 1] = NoFence}
             S == {k \in HeadingLines(g, d, n) : LineEnds(d)[k - 1] <= at}
  <1>4. before = S
    BY <1>3 DEF HeadingLines, Heads
  <1>5. CountedBy(f, d, at)
          = {k \in {k \in before : \A j \in before : k < j => d.lines[k].run < d.lines[j].run} :
               d.lines[k].rest # "blank"}
    BY DEF CountedBy
  <1> HIDE DEF before, S
  <1> QED
    BY <1>1, <1>4, <1>5 DEF Named, Standing, S

\* A line ends where the next begins, or before.
LEMMA LinesFollow ==
  ASSUME NEW d \in Documents, NEW m \in 0 .. Len(d.lines), NEW k \in 0 .. m
  PROVE  LineEnds(d)[k] <= LineEnds(d)[m]
  <1> DEFINE n == Len(d.lines)
             N == {j \in Nat : k + j <= n => LineEnds(d)[k] <= LineEnds(d)[k + j]}
  <1>0. n \in Nat /\ k \in 0 .. n /\ m - k \in Nat /\ k + (m - k) = m /\ m <= n
    BY DocumentTyped
  <1>1. \A j \in 0 .. n : LineEnds(d)[j] \in Nat
    BY DocumentTyped
  <1>2. 0 \in N
    <2>1. k + 0 = k
      OBVIOUS
    <2> QED
      BY <1>0, <1>1, <2>1
  <1>3. ASSUME NEW j \in Nat, j \in N PROVE j + 1 \in N
    <2> SUFFICES ASSUME k + (j + 1) <= n PROVE LineEnds(d)[k] <= LineEnds(d)[k + (j + 1)]
      OBVIOUS
    <2> DEFINE i == k + j
    <2>1. k + (j + 1) = i + 1 /\ i \in Nat /\ i \in 0 .. n /\ i + 1 \in 1 .. n /\ i <= n /\ i + 1 <= n
      BY <1>0
    <2>2. LineEnds(d)[k] <= LineEnds(d)[i]
      BY <1>3, <2>1
    <2> HIDE DEF i
    <2>3. LineEnds(d)[i + 1] = LineEnds(d)[i] + d.lines[i + 1].size
      BY <1>0, <2>1, LineEndsStep
    <2>4. d.lines[i + 1].size \in Nat
      <3>1. d.lines[i + 1] \in Lines
        BY <2>1, DocumentTyped
      <3> QED
        BY <3>1 DEF Lines
    <2>5. LineEnds(d)[k] \in Nat /\ LineEnds(d)[i] \in Nat
      BY <1>0, <1>1, <2>1
    <2> QED
      BY <2>1, <2>2, <2>3, <2>4, <2>5, SMTT(40)
  <1>4. Nat \subseteq N
    <2> HIDE DEF N
    <2> QED
      BY <1>2, <1>3, NatSetInduction
  <1> QED
    BY <1>0, <1>4

\* title_path is the path of the last heading the loop has passed.
LEMMA TitleAtIs ==
  ASSUME NEW hs \in Seq(Headings), NEW at \in Nat
  PROVE  \/ /\ TitleAt(hs, at) = <<>>
            /\ \A i \in 1 .. Len(hs) : ~ (hs[i].at <= at)
         \/ \E last \in 1 .. Len(hs) :
              /\ TitleAt(hs, at) = hs[last].path
              /\ hs[last].at <= at
              /\ \A i \in 1 .. Len(hs) : hs[i].at <= at => i <= last
  <1> DEFINE I == {i \in 1 .. Len(hs) : hs[i].at <= at}
             last == IF I # {} THEN Max(I) ELSE 0
  <1>0. Len(hs) \in Nat
    OBVIOUS
  <1>1. TitleAt(hs, at) = IF last = 0 THEN <<>> ELSE hs[last].path
    BY DEF TitleAt, SelectLastInSeq
  <1>2. CASE I = {}
    <2>1. last = 0
      BY <1>2
    <2> HIDE DEF last
    <2> QED
      BY <1>1, <1>2, <2>1
  <1>3. CASE I # {}
    <2>1. PICK m \in I : \A i \in I : i <= m
      <3> DEFINE U == {Len(hs) - i : i \in I}
      <3>1. U \subseteq Nat /\ U # {}
        BY <1>0, <1>3
      <3>2. \A i \in I : Len(hs) - i \in U
        OBVIOUS
      <3>3. \A u \in U : \E i \in I : u = Len(hs) - i
        OBVIOUS
      <3>4. \A i \in I : i \in Nat
        OBVIOUS
      <3> HIDE DEF U, I
      <3>5. PICK u \in U : \A w \in U : u <= w
        BY <3>1, LeastOfSet
      <3>6. PICK m \in I : u = Len(hs) - m
        BY <3>3
      <3>7. \A i \in I : i <= m
        <4> TAKE i \in I
        <4>1. u <= Len(hs) - i
          BY <3>2, <3>5
        <4> QED
          BY <1>0, <3>4, <3>6, <4>1
      <3> QED
        BY <3>7
    <2>2. I \subseteq Int /\ m \in 1 .. Len(hs) /\ hs[m].at <= at
      OBVIOUS
    <2>3. \A i \in 1 .. Len(hs) : hs[i].at <= at => i \in I
      OBVIOUS
    <2> HIDE DEF I
    <2>4. Max(I) = m
      BY <2>1, <2>2, MaxIs
    <2>5. last = m /\ m # 0
      BY <1>3, <2>2, <2>4
    <2> HIDE DEF last
    <2>6. TitleAt(hs, at) = hs[m].path
      BY <1>1, <2>5
    <2> QED
      BY <2>1, <2>2, <2>3, <2>6
  <1> QED
    BY <1>2, <1>3

\* What is embedded with the text from "at" are the titles it stands under.
LEMMA TitledBySection ==
  ASSUME NEW d \in Documents, NEW at \in Nat
  PROVE  LET title == TitleAt(HeadingPaths(d), at)
             above == TitlesAbove(d, at) IN
         \E line \in [DOMAIN title -> above] :
           /\ Range(line) = above
           /\ \A k, l \in DOMAIN title : k < l => line[k] < line[l]
           /\ \A k \in DOMAIN title : title[k] = d.lines[line[k]].rest
  <1> DEFINE n == Len(d.lines)
             paths == HeadingPaths(d)
             title == TitleAt(paths, at)
             above == TitlesAbove(d, at)
  <1>0. n \in Nat /\ n \in 0 .. n
    BY DocumentTyped
  <1>1. PICK g : IsScan(g, d) /\ paths = g[n].paths
    BY <1>0, HeadingsAreScanned
  <1> DEFINE H == HeadingLines(g, d, n)
             S == {k \in H : LineEnds(d)[k - 1] <= at}
  <1>2. above = Named(d, S)
    BY <1>1, TitlesAboveAre
  <1>3. paths \in Seq(Headings) /\ Len(paths) \in Nat
    <2>1. paths \in Seq(Headings)
      BY HeadingsTyped
    <2> HIDE DEF paths
    <2> QED
      BY <2>1
  <1>4. PICK line : /\ Enumerates(line, Len(paths), H)
                    /\ \A j \in 1 .. Len(paths) :
                         paths[j] = [at |-> LineEnds(d)[line[j] - 1], path |-> Titles(g[line[j]].open)]
    BY <1>0, <1>1, PathsAreRead DEF PathsRead
  <1>5. H \subseteq 1 .. n
    BY DEF HeadingLines
  <1> HIDE DEF paths
  <1>6. \A j \in 1 .. Len(paths) : /\ line[j] \in H
                                   /\ paths[j].at = LineEnds(d)[line[j] - 1]
                                   /\ paths[j].path = Titles(g[line[j]].open)
    <2> HIDE DEF H
    <2> TAKE j \in 1 .. Len(paths)
    <2>1. line[j] \in H
      BY <1>4 DEF Enumerates
    <2>2. paths[j] = [at |-> LineEnds(d)[line[j] - 1], path |-> Titles(g[line[j]].open)]
      BY <1>4, Zenon
    <2>3. paths[j].at = LineEnds(d)[line[j] - 1] /\ paths[j].path = Titles(g[line[j]].open)
      BY ONLY <2>2
    <2> QED
      BY <2>1, <2>3
  <1>7. \A k \in H : \E j \in 1 .. Len(paths) : line[j] = k
    <2> HIDE DEF H
    <2> QED
      BY <1>4 DEF Enumerates
  <1>8. \A i, j \in 1 .. Len(paths) : i < j => line[i] < line[j]
    BY <1>4 DEF Enumerates
  <1> DEFINE Titled(t, A) ==
               \E f \in [DOMAIN t -> A] :
                 /\ Range(f) = A
                 /\ \A k, l \in DOMAIN t : k < l => f[k] < f[l]
                 /\ \A k \in DOMAIN t : t[k] = d.lines[f[k]].rest
  <1>9. ASSUME title = <<>>, \A i \in 1 .. Len(paths) : ~ (paths[i].at <= at)
        PROVE  Titled(title, above)
    <2>1. S = {}
      <3> SUFFICES ASSUME NEW k \in S PROVE FALSE
        OBVIOUS
      <3>1. k \in H /\ LineEnds(d)[k - 1] <= at
        OBVIOUS
      <3> HIDE DEF H, S
      <3>2. PICK j \in 1 .. Len(paths) : line[j] = k
        BY <1>7, <3>1
      <3> QED
        BY <1>6, <1>9, <3>1, <3>2
    <2>2. above = {}
      BY <1>2, <2>1 DEF Named, Standing
    <2>3. DOMAIN <<>> = {} /\ <<>> \in [{} -> {}] /\ Range(<<>>) = {}
      BY DEF Range
    <2>4. Titled(<<>>, {})
      BY <2>3, Zenon
    <2> HIDE DEF title, above, Titled
    <2> QED
      BY <1>9, <2>2, <2>4
  <1>10. ASSUME NEW last \in 1 .. Len(paths), title = paths[last].path, paths[last].at <= at,
                \A i \in 1 .. Len(paths) : paths[i].at <= at => i <= last
         PROVE  Titled(title, above)
    <2> DEFINE m == line[last]
               open == g[m].open
    <2>1. m \in H /\ m \in 1 .. n /\ m \in 0 .. n
      BY <1>0, <1>5, <1>6
    <2>2. title = Titles(open) /\ LineEnds(d)[m - 1] <= at
      BY <1>6, <1>10
    <2>3. \A k \in H : k <= m <=> LineEnds(d)[k - 1] <= at
      <3> TAKE k \in H
      <3>1. k \in 1 .. n /\ k - 1 \in 0 .. n /\ m - 1 \in 0 .. n
        BY <1>0, <1>5, <2>1
      <3>2. ASSUME k <= m PROVE LineEnds(d)[k - 1] <= at
        <4>1. k - 1 \in 0 .. m - 1
          BY <2>1, <3>1, <3>2
        <4>2. LineEnds(d)[k - 1] <= LineEnds(d)[m - 1]
          BY <3>1, <4>1, LinesFollow
        <4>3. LineEnds(d)[k - 1] \in Nat /\ LineEnds(d)[m - 1] \in Nat
          BY <3>1, DocumentTyped
        <4> QED
          BY ONLY <2>2, <4>2, <4>3
      <3>3. ASSUME LineEnds(d)[k - 1] <= at PROVE k <= m
        <4> HIDE DEF H
        <4>1. PICK j \in 1 .. Len(paths) : line[j] = k
          BY <1>7
        <4>2. paths[j].at <= at
          BY <1>6, <3>3, <4>1
        <4>3. j <= last
          BY <1>10, <4>2
        <4>4. j = last \/ j < last
          BY <1>3, <4>3
        <4> QED
          BY <1>8, <2>1, <3>1, <4>1, <4>4
      <3> QED
        BY <3>2, <3>3
    <2>4. S = HeadingLines(g, d, m)
      <3>1. \A k : k \in HeadingLines(g, d, m) <=> k \in H /\ k <= m
        <4>1. \A k : k \in 1 .. m <=> k \in 1 .. n /\ k <= m
          BY <1>0, <2>1
        <4> QED
          BY <4>1 DEF HeadingLines
      <3>2. \A k : k \in S <=> k \in H /\ LineEnds(d)[k - 1] <= at
        OBVIOUS
      <3> HIDE DEF H, S, m
      <3> QED
        BY <2>3, <3>1, <3>2
    <2>5. OpenOf(open, d, above)
      <3>1. OpenOf(open, d, Named(d, HeadingLines(g, d, m)))
        BY <1>1, <2>1, OpenIsNamed
      <3> HIDE DEF open, m, S, above
      <3> QED
        BY <1>2, <2>4, <3>1
    <2>6. open \in Seq(Opened)
      <3>1. g[m] \in Scans
        BY <1>1, <2>1, ScanTyped
      <3> QED
        BY <3>1 DEF Scans
    <2> HIDE DEF open, m, above, title, S, H
    <2>7. DOMAIN open = 1 .. Len(open)
      BY <2>6
    <2>8. PICK f : /\ Enumerates(f, Len(open), above)
                   /\ \A j \in 1 .. Len(open) :
                        open[j] = [level |-> d.lines[f[j]].run, title |-> d.lines[f[j]].rest]
      BY <2>5 DEF OpenOf
    <2>9. DOMAIN title = 1 .. Len(open)
      BY <2>2, <2>7 DEF Titles
    <2>10. \A j \in 1 .. Len(open) : title[j] = d.lines[f[j]].rest
      <3> TAKE j \in 1 .. Len(open)
      <3>1. open[j] = [level |-> d.lines[f[j]].run, title |-> d.lines[f[j]].rest]
        BY <2>8, Zenon
      <3>2. title[j] = open[j].title
        BY <2>2, <2>7 DEF Titles
      <3> QED
        BY ONLY <3>1, <3>2
    <2>11. f \in [1 .. Len(open) -> above] /\ Range(f) = above
      <3>1. f \in [1 .. Len(open) -> above] /\ \A x \in above : \E j \in 1 .. Len(open) : f[j] = x
        BY <2>8 DEF Enumerates
      <3> QED
        BY <3>1 DEF Range
    <2>12. \A k, l \in 1 .. Len(open) : k < l => f[k] < f[l]
      BY <2>8 DEF Enumerates
    <2> QED
      BY <2>9, <2>10, <2>11, <2>12, Zenon
  <1>11. Titled(title, above)
    <2>1. \/ title = <<>> /\ \A i \in 1 .. Len(paths) : ~ (paths[i].at <= at)
          \/ \E last \in 1 .. Len(paths) :
               /\ title = paths[last].path /\ paths[last].at <= at
               /\ \A i \in 1 .. Len(paths) : paths[i].at <= at => i <= last
      BY <1>3, TitleAtIs
    <2> HIDE DEF Titled, title, above
    <2> QED
      BY <1>9, <1>10, <2>1
  <1> QED
    BY <1>11 DEF title, above, paths

\* The titles a chunk is embedded with are the headings it stands under, each
\* once and in order: markdown_heading_paths() and title_path.
THEOREM ChunksTitledBySection ==
  RequestsSpec => []TitledByItsSection
  <1>1. RequestsInv => TitledByItsSection
    <2> SUFFICES ASSUME RequestsInv, NEW i \in DOMAIN chunks
                 PROVE  LET title == chunks[i].title
                            above == TitlesAbove(doc, chunks[i].start) IN
                        \E line \in [DOMAIN title -> above] :
                          /\ Range(line) = above
                          /\ \A k, l \in DOMAIN title : k < l => line[k] < line[l]
                          /\ \A k \in DOMAIN title : title[k] = doc.lines[line[k]].rest
      BY DEF TitledByItsSection
    <2>1. JobInv /\ doc # None
      BY DEF RequestsInv, JobInv
    <2>2. doc \in Documents /\ headings = HeadingPaths(doc) /\ WellCut(doc, headings, chunks)
      BY <2>1 DEF JobInv
    <2>3. i \in 1 .. Len(chunks)
      BY <2>2 DEF WellCut
    <2>4. Cutting(doc, headings, chunks, i)
      BY <2>2, <2>3 DEF WellCut
    <2>5. /\ chunks[i].title = TitleAt(HeadingPaths(doc), chunks[i].start)
          /\ chunks[i].start \in doc.chars
      BY <2>2, <2>4 DEF Cutting
    <2>6. chunks[i].start \in Nat
      BY <2>2, <2>5, DocumentTyped
    <2> QED
      BY <2>2, <2>5, <2>6, TitledBySection
  <1> QED
    BY <1>1, RequestsInvariance, PTL
=============================================================================
