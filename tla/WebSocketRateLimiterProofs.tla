--------------------- MODULE WebSocketRateLimiterProofs ---------------------
(***************************************************************************)
(* Theorems about WebSocketRateLimiter, for every set of users and message *)
(* types, every limit and period: it implements WindowLimit, although its  *)
(* lists are cleaned at different times.  What the recursive function      *)
(* Recent returns is shown with the smallest counterexample.               *)
(***************************************************************************)
EXTENDS WebSocketRateLimiter, FiniteSetTheorems, SequenceTheorems, WellFoundedInduction, TLAPS

-----------------------------------------------------------------------------
(* The list comprehension that cleans a list: Recent. *)

\* A set of natural numbers that is not empty has a smallest one.  The inductions
\* below look at the smallest counterexample.
LEMMA SmallestExists ==
  ASSUME NEW S \in SUBSET Nat, S # {}
  PROVE  \E m \in S : \A s \in S : m <= s
<1> DEFINE R == OpToRel(<, Nat)
<1>1. IsWellFoundedOn(R, Nat)
  BY NatLessThanWellFounded
<1>2. \A x, y \in Nat : <<y, x>> \in R <=> y < x
  BY DEF OpToRel
<1> HIDE DEF R
<1>3. PICK m \in S : \A s \in S : ~ (<<s, m>> \in R)
  BY <1>1, WFMin
<1>4. \A s \in S : s \in Nat /\ m \in Nat /\ ~ (s < m)
  BY <1>2, <1>3
<1>5. \A s \in S : m <= s
  BY <1>4
<1> QED  BY <1>3, <1>5

\* f is what the loop of the list comprehension computes over the first n
\* entries of s.
IsKept(f, n, t, s) ==
  f = [i \in 0..n |-> IF i = 0 THEN <<>>
                      ELSE IF t < s[i] + Period THEN Append(f[i - 1], s[i]) ELSE f[i - 1]]

\* The loop computes something for every list.
LEMMA KeptExists ==
  ASSUME NEW t, NEW s, NEW N \in Nat
  PROVE  \E f : IsKept(f, N, t, s)
<1> DEFINE Bad == {n \in Nat : ~ \E f : IsKept(f, n, t, s)}
<1>1. SUFFICES ASSUME Bad # {} PROVE FALSE
  OBVIOUS
<1>2. PICK n \in Bad : \A m \in Bad : n <= m
  BY <1>1, SmallestExists
<1>3. CASE n = 0
  <2> DEFINE g == [i \in 0..0 |-> <<>>]
  <2>1. IsKept(g, 0, t, s)
    BY DEF IsKept
  <2> QED  BY <2>1, <1>3, <1>2
<1>4. CASE n # 0
  <2>1. n - 1 \in Nat /\ n - 1 \notin Bad
    BY <1>4, <1>2
  <2>2. PICK f : IsKept(f, n - 1, t, s)
    BY <2>1
  <2> DEFINE g == [i \in 0..n |-> IF i < n THEN f[i]
                                  ELSE IF t < s[n] + Period THEN Append(f[n - 1], s[n]) ELSE f[n - 1]]
  <2>3. \A i \in 0..(n - 1) :
          f[i] = IF i = 0 THEN <<>>
                 ELSE IF t < s[i] + Period THEN Append(f[i - 1], s[i]) ELSE f[i - 1]
    BY <2>2 DEF IsKept
  <2>4. \A i \in 0..n :
          g[i] = IF i = 0 THEN <<>>
                 ELSE IF t < s[i] + Period THEN Append(g[i - 1], s[i]) ELSE g[i - 1]
    <3> SUFFICES ASSUME NEW i \in 0..n
                 PROVE  g[i] = IF i = 0 THEN <<>>
                               ELSE IF t < s[i] + Period THEN Append(g[i - 1], s[i]) ELSE g[i - 1]
      OBVIOUS
    <3>1. CASE i = n
      BY <3>1, <1>4, <2>1
    <3>2. CASE i # n
      <4>1. i \in 0..(n - 1)
        BY <3>2, <2>1
      <4>2. g[i] = f[i] /\ (i # 0 => g[i - 1] = f[i - 1])
        BY <4>1, <2>1
      <4> QED  BY <4>1, <4>2, <2>3
    <3> QED  BY <3>1, <3>2
  <2>5. IsKept(g, n, t, s)
    BY <2>4 DEF IsKept
  <2> QED  BY <2>5, <1>2
<1> QED  BY <1>3, <1>4

\* Over entries that are equal the loop computes the same.
LEMMA KeptAgree ==
  ASSUME NEW t, NEW s, NEW r, NEW f, NEW g, NEW n \in Nat, NEW m \in Nat, NEW p \in Nat,
         p <= n, p <= m, IsKept(f, n, t, s), IsKept(g, m, t, r),
         \A i \in 1..p : s[i] = r[i]
  PROVE  f[p] = g[p]
<1> DEFINE Bad == {i \in 0..p : f[i] # g[i]}
<1>1. SUFFICES ASSUME Bad # {} PROVE FALSE
  OBVIOUS
<1>2. PICK k \in Bad : \A i \in Bad : k <= i
  <2>1. Bad \in SUBSET Nat
    OBVIOUS
  <2> QED  BY <1>1, <2>1, SmallestExists
<1>3. f[k] = IF k = 0 THEN <<>> ELSE IF t < s[k] + Period THEN Append(f[k - 1], s[k]) ELSE f[k - 1]
  <2>1. \A i \in 0..n : f[i] = IF i = 0 THEN <<>>
                               ELSE IF t < s[i] + Period THEN Append(f[i - 1], s[i]) ELSE f[i - 1]
    BY DEF IsKept
  <2>2. k \in 0..n
    BY <1>2
  <2> QED  BY <2>1, <2>2
<1>4. g[k] = IF k = 0 THEN <<>> ELSE IF t < r[k] + Period THEN Append(g[k - 1], r[k]) ELSE g[k - 1]
  <2>1. \A i \in 0..m : g[i] = IF i = 0 THEN <<>>
                               ELSE IF t < r[i] + Period THEN Append(g[i - 1], r[i]) ELSE g[i - 1]
    BY DEF IsKept
  <2>2. k \in 0..m
    BY <1>2
  <2> QED  BY <2>1, <2>2
<1>5. k # 0
  BY <1>2, <1>3, <1>4
<1>6. k - 1 \in 0..p /\ k - 1 \notin Bad
  BY <1>2, <1>5
<1>7. f[k - 1] = g[k - 1] /\ s[k] = r[k]
  BY <1>2, <1>5, <1>6
<1> QED  BY <1>2, <1>3, <1>4, <1>7

\* What the list comprehension returns is what its loop has kept at the end.
LEMMA RecentIsKept ==
  ASSUME NEW t, NEW s, Len(s) \in Nat
  PROVE  \E f : IsKept(f, Len(s), t, s) /\ RecentAt(t, s) = f[Len(s)]
<1> DEFINE kept == CHOOSE f : IsKept(f, Len(s), t, s)
<1>1. IsKept(kept, Len(s), t, s)
  BY KeptExists
<1>2. RecentAt(t, s) = kept[Len(s)]
  BY DEF RecentAt, IsKept
<1> QED  BY <1>1, <1>2

\* An empty list stays empty.
LEMMA RecentOfEmpty ==
  ASSUME NEW t
  PROVE  RecentAt(t, <<>>) = <<>>
<1>1. Len(<<>>) = 0
  OBVIOUS
<1>2. PICK f : IsKept(f, 0, t, <<>>) /\ RecentAt(t, <<>>) = f[0]
  BY <1>1, RecentIsKept
<1> QED  BY <1>2 DEF IsKept

\* The last entry is kept or left out, and the others are treated as before.
LEMMA RecentOfAppend ==
  ASSUME NEW S, NEW s \in Seq(S), NEW x \in S, NEW t
  PROVE  RecentAt(t, Append(s, x)) =
           IF t < x + Period THEN Append(RecentAt(t, s), x) ELSE RecentAt(t, s)
<1> DEFINE n == Len(s)
           r == Append(s, x)
<1>1. n \in Nat /\ r \in Seq(S) /\ Len(r) = n + 1 /\ r[n + 1] = x /\ \A i \in 1..n : s[i] = r[i]
  OBVIOUS
<1>2. PICK f : IsKept(f, n, t, s) /\ RecentAt(t, s) = f[n]
  BY <1>1, RecentIsKept
<1>3. Len(r) \in Nat
  BY <1>1
<1>4. PICK h : IsKept(h, Len(r), t, r) /\ RecentAt(t, r) = h[Len(r)]
  BY <1>3, RecentIsKept
<1> HIDE DEF n, r
<1>5. PICK g : IsKept(g, n + 1, t, r) /\ RecentAt(t, r) = g[n + 1]
  BY <1>1, <1>4
<1>6. \A i \in 0..(n + 1) :
        g[i] = IF i = 0 THEN <<>> ELSE IF t < r[i] + Period THEN Append(g[i - 1], r[i]) ELSE g[i - 1]
  BY <1>5 DEF IsKept
<1>7. g[n + 1] = IF t < r[n + 1] + Period THEN Append(g[n], r[n + 1]) ELSE g[n]
  <2>1. n + 1 \in 0..(n + 1) /\ n + 1 # 0 /\ (n + 1) - 1 = n
    BY <1>1
  <2> QED  BY <2>1, <1>6
<1>8. f[n] = g[n]
  <2>1. n <= n /\ n <= n + 1 /\ n + 1 \in Nat
    BY <1>1
  <2> QED  BY <1>1, <1>2, <1>5, <2>1, KeptAgree
<1> QED  BY <1>1, <1>2, <1>5, <1>7, <1>8 DEF r

\* A list that is not empty is a shorter one and its last entry.
LEMMA LastApart ==
  ASSUME NEW S, NEW s \in Seq(S), s # <<>>
  PROVE  \E r \in Seq(S), x \in S : s = Append(r, x) /\ Len(r) = Len(s) - 1
<1>1. PICK r \in Seq(S), x \in S : s = Append(r, x)
  BY SequenceEmptyOrAppend
<1>2. Len(r) = Len(s) - 1
  BY <1>1
<1> QED  BY <1>1, <1>2

\* The list comprehension yields a list of entries of the list.
LEMMA RecentIsSeq ==
  ASSUME NEW S, NEW t
  PROVE  \A s \in Seq(S) : RecentAt(t, s) \in Seq(S)
<1> DEFINE Bad == {n \in Nat : \E s \in Seq(S) : Len(s) = n /\ RecentAt(t, s) \notin Seq(S)}
<1>1. SUFFICES ASSUME Bad # {} PROVE FALSE
  OBVIOUS
<1>2. PICK n \in Bad : \A m \in Bad : n <= m
  BY <1>1, SmallestExists
<1>3. PICK s \in Seq(S) : Len(s) = n /\ RecentAt(t, s) \notin Seq(S)
  BY <1>2
<1>4. s # <<>>
  BY <1>3, RecentOfEmpty
<1>5. PICK r \in Seq(S), x \in S : s = Append(r, x) /\ Len(r) = Len(s) - 1
  BY <1>4, LastApart
<1>6. RecentAt(t, r) \in Seq(S)
  BY <1>2, <1>3, <1>5
<1>7. RecentAt(t, s) = Append(RecentAt(t, r), x) \/ RecentAt(t, s) = RecentAt(t, r)
  BY <1>5, RecentOfAppend
<1> QED  BY <1>3, <1>6, <1>7

\* What has been left out once would be left out later too.
LEMMA RecentTwice ==
  ASSUME NEW t \in Nat, NEW u \in Nat, t <= u
  PROVE  \A s \in Seq(Nat) : RecentAt(u, RecentAt(t, s)) = RecentAt(u, s)
<1> USE PeriodAssumption
<1> DEFINE Bad == {n \in Nat : \E s \in Seq(Nat) : /\ Len(s) = n
                                                   /\ RecentAt(u, RecentAt(t, s)) # RecentAt(u, s)}
<1>1. SUFFICES ASSUME Bad # {} PROVE FALSE
  OBVIOUS
<1>2. PICK n \in Bad : \A m \in Bad : n <= m
  BY <1>1, SmallestExists
<1>3. PICK s \in Seq(Nat) : Len(s) = n /\ RecentAt(u, RecentAt(t, s)) # RecentAt(u, s)
  BY <1>2
<1>4. s # <<>>
  BY <1>3, RecentOfEmpty
<1>5. PICK r \in Seq(Nat), x \in Nat : s = Append(r, x) /\ Len(r) = Len(s) - 1
  BY <1>4, LastApart
<1>6. RecentAt(u, RecentAt(t, r)) = RecentAt(u, r)
  BY <1>2, <1>3, <1>5
<1>7. RecentAt(t, r) \in Seq(Nat)
  BY RecentIsSeq
<1>8. RecentAt(u, s) = IF u < x + Period THEN Append(RecentAt(u, r), x) ELSE RecentAt(u, r)
  BY <1>5, RecentOfAppend
<1>9. CASE t < x + Period
  <2>1. RecentAt(t, s) = Append(RecentAt(t, r), x)
    BY <1>9, <1>5, RecentOfAppend
  <2>2. RecentAt(u, Append(RecentAt(t, r), x)) =
          IF u < x + Period THEN Append(RecentAt(u, RecentAt(t, r)), x) ELSE RecentAt(u, RecentAt(t, r))
    BY <1>7, RecentOfAppend
  <2> QED  BY <2>1, <2>2, <1>3, <1>6, <1>8
<1>10. CASE ~ (t < x + Period)
  <2>1. RecentAt(t, s) = RecentAt(t, r)
    BY <1>10, <1>5, RecentOfAppend
  <2>2. ~ (u < x + Period)
    BY <1>10
  <2> QED  BY <2>1, <2>2, <1>3, <1>6, <1>8
<1> QED  BY <1>9, <1>10

\* The indices of the entries that are younger than a period at t.
Young(t, s) == {i \in DOMAIN s : t < s[i] + Period}

\* The list comprehension keeps all young entries.
LEMMA RecentCounts ==
  ASSUME NEW t
  PROVE  \A s \in Seq(Nat) : /\ IsFiniteSet(Young(t, s))
                             /\ Len(RecentAt(t, s)) = Cardinality(Young(t, s))
<1> DEFINE Good(s) == IsFiniteSet(Young(t, s)) /\ Len(RecentAt(t, s)) = Cardinality(Young(t, s))
           Bad == {n \in Nat : \E s \in Seq(Nat) : Len(s) = n /\ ~ Good(s)}
<1>1. SUFFICES ASSUME Bad # {} PROVE FALSE
  OBVIOUS
<1>2. PICK n \in Bad : \A m \in Bad : n <= m
  BY <1>1, SmallestExists
<1>3. PICK s \in Seq(Nat) : Len(s) = n /\ ~ Good(s)
  BY <1>2
<1>4. s # <<>>
  <2>1. ASSUME s = <<>> PROVE FALSE
    <3>1. Young(t, s) = {}
      BY <2>1 DEF Young
    <3>2. Len(RecentAt(t, s)) = 0
      BY <2>1, RecentOfEmpty
    <3> QED  BY <3>1, <3>2, <1>3, FS_EmptySet
  <2> QED  BY <2>1
<1>5. PICK r \in Seq(Nat), x \in Nat : s = Append(r, x) /\ Len(r) = Len(s) - 1
  BY <1>4, LastApart
<1>6. Good(r)
  BY <1>2, <1>3, <1>5
<1>7. RecentAt(t, r) \in Seq(Nat)
  BY RecentIsSeq
<1>8. CASE t < x + Period
  <2>1. Young(t, s) = Young(t, r) \cup {Len(s)} /\ Len(s) \notin Young(t, r)
    BY <1>8, <1>5 DEF Young
  <2>2. RecentAt(t, s) = Append(RecentAt(t, r), x)
    BY <1>8, <1>5, RecentOfAppend
  <2>3. Len(RecentAt(t, s)) = Len(RecentAt(t, r)) + 1
    BY <2>2, <1>7
  <2>4. IsFiniteSet(Young(t, s)) /\ Cardinality(Young(t, s)) = Cardinality(Young(t, r)) + 1
    <3> DEFINE Y == Young(t, r)
    <3>1. IsFiniteSet(Y)
      BY <1>6
    <3> HIDE DEF Y
    <3>2. IsFiniteSet(Y \cup {Len(s)})
      BY <3>1, FS_AddElement
    <3>3. Len(s) \notin Y => Cardinality(Y \cup {Len(s)}) = Cardinality(Y) + 1
      BY <3>1, FS_AddElement
    <3> QED  BY <3>2, <3>3, <2>1 DEF Y
  <2> QED  BY <2>3, <2>4, <1>3, <1>6
<1>9. CASE ~ (t < x + Period)
  <2>1. Young(t, s) = Young(t, r)
    BY <1>9, <1>5 DEF Young
  <2>2. RecentAt(t, s) = RecentAt(t, r)
    BY <1>9, <1>5, RecentOfAppend
  <2> QED  BY <2>1, <2>2, <1>3, <1>6
<1> QED  BY <1>8, <1>9

\* The list comprehension yields no more than it is given.
LEMMA RecentIsNotLonger ==
  ASSUME NEW t, NEW s \in Seq(Nat)
  PROVE  Len(RecentAt(t, s)) <= Len(s)
<1> DEFINE D == 1..Len(s)
           Y == Young(t, s)
<1>1. Len(s) \in Nat /\ Y \subseteq D
  BY DEF Young
<1>2. IsFiniteSet(D) /\ Cardinality(D) = Len(s)
  <2>1. 1 \in Int /\ Len(s) \in Int
    BY <1>1
  <2>2. IsFiniteSet(1..Len(s)) /\ Cardinality(1..Len(s)) = IF 1 > Len(s) THEN 0 ELSE Len(s) - 1 + 1
    BY <2>1, FS_Interval
  <2> QED  BY <2>2, <1>1
<1>3. Len(RecentAt(t, s)) = Cardinality(Y)
  BY RecentCounts
<1> HIDE DEF D, Y
<1>4. Cardinality(Y) <= Cardinality(D)
  BY <1>1, <1>2, FS_Subset
<1> QED  BY <1>2, <1>3, <1>4

\* Lists of a user and message type.
Lists(S) == [Users -> [Actions -> S]]

-----------------------------------------------------------------------------
(* The invariant. *)

\* Of the entries that still count the lists hold the same as the requests that
\* passed.
SameRecent ==
  \A u \in Users, a \in Actions : Recent(log[u][a]) = Recent(passed[<<u, a>>])

LimiterInv == LimiterTypeOK /\ SameRecent

\* A list becomes what is recent of it, which is of the same type and not longer.
LEMMA CleanedList ==
  ASSUME LimiterInv, NEW u \in Users, NEW a \in Actions
  PROVE  /\ Recent(log[u][a]) \in Seq(0..clock)
         /\ Len(Recent(log[u][a])) \in Nat
         /\ Len(Recent(log[u][a])) <= Limits[a]
         /\ Recent(Recent(log[u][a])) = Recent(passed[<<u, a>>])
<1> USE DEF LimiterInv, LimiterTypeOK
<1>1. log[u][a] \in Seq(0..clock)
  OBVIOUS
<1>2. 0..clock \subseteq Nat
  OBVIOUS
<1>3. log[u][a] \in Seq(Nat)
  BY <1>1, <1>2, SeqMonotonic
<1>4. Recent(log[u][a]) \in Seq(0..clock)
  BY <1>1, RecentIsSeq DEF Recent
<1>5. Len(Recent(log[u][a])) <= Len(log[u][a])
  BY <1>3, RecentIsNotLonger DEF Recent
<1>6. Len(log[u][a]) \in Nat /\ Len(Recent(log[u][a])) \in Nat /\ Limits[a] \in Nat
  BY <1>1, <1>4, LimitsAssumption
<1>7. clock \in Nat /\ clock <= clock
  OBVIOUS
<1>8. Recent(Recent(log[u][a])) = Recent(log[u][a])
  BY <1>3, <1>7, RecentTwice DEF Recent
<1>9. Recent(log[u][a]) = Recent(passed[<<u, a>>])
  BY DEF SameRecent
<1> QED  BY <1>4, <1>5, <1>6, <1>8, <1>9

\* The abstract limiter counts what the list holds of recent entries.
LEMMA CountsAgree ==
  ASSUME LimiterInv, NEW u \in Users, NEW a \in Actions
  PROVE  W!InWindow(<<u, a>>) = Len(Recent(log[u][a]))
<1> USE DEF LimiterInv, LimiterTypeOK
<1>1. <<u, a>> \in LimitedKeys
  BY DEF LimitedKeys
<1>2. passed[<<u, a>>] \in Seq(0..clock) /\ 0..clock \subseteq Nat
  BY <1>1
<1>3. passed[<<u, a>>] \in Seq(Nat)
  BY <1>2, SeqMonotonic
<1>4. Len(Recent(passed[<<u, a>>])) = Cardinality(Young(clock, passed[<<u, a>>]))
  BY <1>3, RecentCounts DEF Recent
<1>5. W!InWindow(<<u, a>>) = Cardinality(Young(clock, passed[<<u, a>>]))
  BY DEF W!InWindow, Young, W!Cardinality, Cardinality
<1>6. Recent(log[u][a]) = Recent(passed[<<u, a>>])
  BY DEF SameRecent
<1> QED  BY <1>4, <1>5, <1>6

\* At the start all lists are empty.
LEMMA LimiterInvInit == LimiterInit => LimiterInv
<1> SUFFICES ASSUME LimiterInit PROVE LimiterInv
  OBVIOUS
<1> USE DEF LimiterInit
<1>1. \A u \in Users, a \in Actions : log[u][a] = <<>> /\ passed[<<u, a>>] = <<>>
  BY DEF LimitedKeys
<1>2. SameRecent
  BY <1>1 DEF SameRecent
<1>3. LimiterTypeOK
  <2>1. \A u \in Users, a \in Actions : Len(log[u][a]) <= Limits[a]
    <3>1. Len(<<>>) = 0
      OBVIOUS
    <3> QED  BY <1>1, <3>1, LimitsAssumption
  <2>2. <<>> \in Seq(0..clock)
    OBVIOUS
  <2>3. log \in [Users -> [Actions -> Seq(0..clock)]]
    BY <2>2
  <2>4. passed \in [LimitedKeys -> Seq(0..clock)]
    BY <2>2
  <2> QED  BY <2>1, <2>3, <2>4 DEF LimiterTypeOK
<1> QED  BY <1>2, <1>3 DEF LimiterInv

\* Lists that become what is recent of them, or are emptied together with the past
\* of the requests, keep the invariant: what the clean-up and the queries do.
LEMMA CleanedLists ==
  ASSUME LimiterInv, UNCHANGED <<clock, resets, verdict>>, users' \subseteq Users,
         log' \in Lists(Seq(0..clock)),
         passed' \in [LimitedKeys -> Seq(0..clock)],
         \A u \in Users, a \in Actions :
           \/ passed'[<<u, a>>] = passed[<<u, a>>] /\ log'[u][a] \in {log[u][a], Recent(log[u][a])}
           \/ passed'[<<u, a>>] = <<>> /\ log'[u][a] = <<>>
  PROVE  LimiterInv'
<1> SUFFICES LimiterTypeOK' /\ SameRecent'
  BY DEF LimiterInv
<1>0. clock' = clock /\ resets' = resets /\ verdict' = verdict
  OBVIOUS
<1>1. ASSUME NEW u \in Users, NEW a \in Actions
      PROVE  /\ Len(log'[u][a]) <= Limits[a]
             /\ RecentAt(clock', log'[u][a]) = RecentAt(clock', passed'[<<u, a>>])
  <2>1. CASE passed'[<<u, a>>] = passed[<<u, a>>] /\ log'[u][a] = log[u][a]
    BY <2>1, <1>0 DEF LimiterInv, LimiterTypeOK, SameRecent, Recent
  <2>2. CASE passed'[<<u, a>>] = passed[<<u, a>>] /\ log'[u][a] = Recent(log[u][a])
    BY <2>2, <1>0, CleanedList DEF Recent
  <2>3. CASE passed'[<<u, a>>] = <<>> /\ log'[u][a] = <<>>
    <3>1. Len(<<>>) = 0 /\ Limits[a] \in Nat
      BY LimitsAssumption
    <3> QED  BY <2>3, <3>1
  <2> QED  BY <2>1, <2>2, <2>3
<1>2. SameRecent'
  BY <1>1 DEF SameRecent, Recent
<1>3. LimiterTypeOK'
  BY <1>0, <1>1 DEF LimiterInv, LimiterTypeOK, Lists
<1> QED  BY <1>2, <1>3

\* get_remaining_quota cleans a list, which the abstract limiter does not see.
LEMMA QuotaKeeps ==
  ASSUME LimiterInv, NEW u \in Users, NEW a \in Actions, Quota(u, a)
  PROVE  LimiterInv' /\ UNCHANGED W!vars
<1> USE DEF Quota
<1>1. /\ log \in Lists(Seq(0..clock)) /\ users \subseteq Users
      /\ passed \in [LimitedKeys -> Seq(0..clock)]
  BY DEF LimiterInv, LimiterTypeOK, Lists
<1> DEFINE x == Recent(log[u][a])
<1>2. x \in Seq(0..clock)
  BY CleanedList
<1>3. log' = [log EXCEPT ![u][a] = x]
  OBVIOUS
<1> HIDE DEF x
<1>4. /\ log' \in Lists(Seq(0..clock))
      /\ \A v \in Users, b \in Actions : log'[v][b] = IF v = u /\ b = a THEN x ELSE log[v][b]
  BY <1>1, <1>2, <1>3 DEF Lists
<1>5. \A v \in Users, b \in Actions : log'[v][b] \in {log[v][b], Recent(log[v][b])}
  BY <1>4 DEF x
<1>6. UNCHANGED <<clock, resets, verdict>> /\ passed' = passed /\ users' \subseteq Users
  BY <1>1
<1>7. LimiterInv'
  BY <1>1, <1>4, <1>5, <1>6, CleanedLists
<1> QED  BY <1>6, <1>7 DEF W!vars

\* cleanup_old_entries cleans all lists, which the abstract limiter does not see.
LEMMA CleanupKeeps ==
  ASSUME LimiterInv, Cleanup
  PROVE  LimiterInv' /\ UNCHANGED W!vars
<1> USE DEF Cleanup
<1>1. users \subseteq Users /\ passed \in [LimitedKeys -> Seq(0..clock)]
  BY DEF LimiterInv, LimiterTypeOK
<1>2. log' = [u \in Users |-> [a \in Actions |-> Recent(log[u][a])]]
  OBVIOUS
<1>3. \A u \in Users, a \in Actions : Recent(log[u][a]) \in Seq(0..clock)
  BY CleanedList
<1>4. log' \in Lists(Seq(0..clock))
  BY <1>2, <1>3 DEF Lists
<1>5. \A u \in Users, a \in Actions : log'[u][a] \in {log[u][a], Recent(log[u][a])}
  BY <1>2
<1>6. UNCHANGED <<clock, resets, verdict>> /\ passed' = passed /\ users' \subseteq Users
  BY <1>1
<1>7. LimiterInv'
  BY <1>1, <1>4, <1>5, <1>6, CleanedLists
<1> QED  BY <1>6, <1>7 DEF W!vars

\* A reset forgives the keys of its user.
LEMMA ResetKeeps ==
  ASSUME LimiterInv, NEW u \in Users, Reset(u)
  PROVE  LimiterInv' /\ \E S \in SUBSET LimitedKeys : W!Forgive(S)
<1> USE DEF Reset
<1> DEFINE S == {k \in LimitedKeys : k[1] = u}
<1>1. /\ log \in Lists(Seq(0..clock)) /\ users \subseteq Users
      /\ passed \in [LimitedKeys -> Seq(0..clock)]
  BY DEF LimiterInv, LimiterTypeOK, Lists
<1>2. <<>> \in Seq(0..clock)
  OBVIOUS
<1>3. /\ log' \in Lists(Seq(0..clock))
      /\ \A v \in Users, a \in Actions : log'[v][a] = IF v = u THEN <<>> ELSE log[v][a]
  BY <1>1, <1>2 DEF Lists
<1>4. /\ passed' \in [LimitedKeys -> Seq(0..clock)]
      /\ \A v \in Users, a \in Actions : passed'[<<v, a>>] = IF v = u THEN <<>> ELSE passed[<<v, a>>]
  <2>1. passed' = [k \in LimitedKeys |-> IF k[1] = u THEN <<>> ELSE passed[k]]
    OBVIOUS
  <2>2. passed' \in [LimitedKeys -> Seq(0..clock)]
    BY <1>1, <1>2, <2>1
  <2>3. \A v \in Users, a \in Actions : <<v, a>> \in LimitedKeys /\ <<v, a>>[1] = v
    BY DEF LimitedKeys
  <2> QED  BY <2>1, <2>2, <2>3
<1>5. clock' = clock /\ verdict' = verdict /\ users' \subseteq Users
  BY <1>1
<1>6. LimiterTypeOK' /\ SameRecent'
  <2>1. ASSUME NEW v \in Users, NEW a \in Actions
        PROVE  /\ Len(log'[v][a]) <= Limits[a]
               /\ RecentAt(clock', log'[v][a]) = RecentAt(clock', passed'[<<v, a>>])
    <3>1. Len(<<>>) = 0 /\ Limits[a] \in Nat
      BY LimitsAssumption
    <3>2. CASE v = u
      <4>1. log'[v][a] = <<>> /\ passed'[<<v, a>>] = <<>>
        BY <1>3, <1>4, <3>2
      <4> QED  BY <3>1, <4>1
    <3>3. CASE v # u
      <4>1. log'[v][a] = log[v][a] /\ passed'[<<v, a>>] = passed[<<v, a>>]
        BY <1>3, <1>4, <3>3
      <4> QED  BY <4>1, <1>5 DEF LimiterInv, LimiterTypeOK, SameRecent, Recent
    <3> QED  BY <3>2, <3>3
  <2>2. resets' \in Nat
    BY DEF LimiterInv, LimiterTypeOK
  <2>3. clock' = clock /\ verdict' = verdict
    BY <1>5
  <2>4. SameRecent'
    BY <2>1 DEF SameRecent, Recent
  <2> QED  BY <1>3, <1>4, <1>5, <2>1, <2>2, <2>3, <2>4 DEF LimiterInv, LimiterTypeOK, Lists
<1>7. W!Forgive(S)
  BY DEF W!Forgive
<1> QED  BY <1>6, <1>7 DEF LimiterInv

\* Later, less is recent, of the lists and of the past alike.
LEMMA TickKeeps ==
  ASSUME LimiterInv, LimiterTick
  PROVE  LimiterInv' /\ W!Tick
<1> USE DEF LimiterTick
<1>1. clock \in Nat /\ clock' = clock + 1 /\ log' = log /\ passed' = passed
  BY DEF LimiterInv, LimiterTypeOK
<1>2. 0..clock \subseteq 0..clock' /\ 0..clock \subseteq Nat /\ clock' \in Nat
  BY <1>1
<1>3. ASSUME NEW s \in Seq(0..clock) PROVE s \in Seq(0..clock') /\ s \in Seq(Nat)
  BY <1>2, SeqMonotonic
<1>4. \A u \in Users, a \in Actions : log[u][a] \in Seq(0..clock) /\ <<u, a>> \in LimitedKeys
  BY DEF LimiterInv, LimiterTypeOK, LimitedKeys
<1>5. \A k \in LimitedKeys : passed[k] \in Seq(0..clock)
  BY DEF LimiterInv, LimiterTypeOK
<1>6. ASSUME NEW u \in Users, NEW a \in Actions
      PROVE  RecentAt(clock', log[u][a]) = RecentAt(clock', passed[<<u, a>>])
  <2>1. log[u][a] \in Seq(Nat) /\ passed[<<u, a>>] \in Seq(Nat)
    BY <1>3, <1>4, <1>5
  <2>2. clock <= clock'
    BY <1>1
  <2>3. RecentAt(clock', RecentAt(clock, log[u][a])) = RecentAt(clock', log[u][a])
    BY <2>1, <2>2, <1>1, <1>2, RecentTwice
  <2>4. RecentAt(clock', RecentAt(clock, passed[<<u, a>>])) = RecentAt(clock', passed[<<u, a>>])
    BY <2>1, <2>2, <1>1, <1>2, RecentTwice
  <2>5. RecentAt(clock, log[u][a]) = RecentAt(clock, passed[<<u, a>>])
    BY DEF LimiterInv, SameRecent, Recent
  <2> QED  BY <2>3, <2>4, <2>5
<1>7. SameRecent'
  BY <1>1, <1>6 DEF SameRecent, Recent
<1>8. LimiterTypeOK'
  <2>1. log \in [Users -> [Actions -> Seq(0..clock)]] /\ passed \in [LimitedKeys -> Seq(0..clock)]
    BY DEF LimiterInv, LimiterTypeOK
  <2>2. Seq(0..clock) \subseteq Seq(0..clock')
    BY <1>3
  <2>3. log' \in [Users -> [Actions -> Seq(0..clock')]]
    BY <1>1, <2>1, <2>2
  <2>4. passed' \in [LimitedKeys -> Seq(0..clock')]
    BY <1>1, <2>1, <2>2
  <2> QED  BY <1>1, <1>2, <2>3, <2>4 DEF LimiterInv, LimiterTypeOK
<1> QED  BY <1>7, <1>8 DEF LimiterInv, W!Tick

\* A request passes or is refused as the abstract limiter says.
LEMMA CheckKeeps ==
  ASSUME LimiterInv, NEW u \in Users, NEW a \in Actions, Check(u, a)
  PROVE  LimiterInv' /\ (W!Pass(<<u, a>>) \/ W!Refuse(<<u, a>>))
<1> DEFINE x == Recent(log[u][a])
           k == <<u, a>>
<1>1. /\ log \in Lists(Seq(0..clock)) /\ users \subseteq Users
      /\ passed \in [LimitedKeys -> Seq(0..clock)]
  BY DEF LimiterInv, LimiterTypeOK, Lists
<1>2. x \in Seq(0..clock) /\ Len(x) \in Nat /\ Recent(x) = Recent(passed[k])
  BY CleanedList
<1>3. W!InWindow(k) = Len(x)
  BY CountsAgree
<1>4. k \in LimitedKeys /\ Limits[a] \in Nat
  BY LimitsAssumption DEF LimitedKeys
<1>5. [key \in LimitedKeys |-> Limits[key[2]]][k] = Limits[a]
  BY <1>4
<1>6. clock' = clock /\ resets' = resets /\ users' \subseteq Users
  BY <1>1 DEF Check
<1>7. CASE /\ Len(x) >= Limits[a] /\ log' = [log EXCEPT ![u][a] = x] /\ verdict' = "refuse"
           /\ passed' = passed
  <2> HIDE DEF x
  <2>1. /\ log' \in Lists(Seq(0..clock))
        /\ \A v \in Users, b \in Actions : log'[v][b] = IF v = u /\ b = a THEN x ELSE log[v][b]
    BY <1>1, <1>2, <1>7 DEF Lists
  <2>2. ASSUME NEW v \in Users, NEW b \in Actions
        PROVE  /\ Len(log'[v][b]) <= Limits[b]
               /\ RecentAt(clock', log'[v][b]) = RecentAt(clock', passed'[<<v, b>>])
    <3>1. Len(Recent(log[v][b])) <= Limits[b]
      BY CleanedList
    <3>2. Recent(log[v][b]) = Recent(passed[<<v, b>>]) /\ Len(log[v][b]) <= Limits[b]
      BY DEF LimiterInv, LimiterTypeOK, SameRecent
    <3> QED  BY <1>2, <1>6, <1>7, <2>1, <3>1, <3>2 DEF x, Recent
  <2>3. SameRecent'
    BY <2>2 DEF SameRecent, Recent
  <2>4. LimiterTypeOK'
    BY <1>1, <1>6, <1>7, <2>1, <2>2 DEF LimiterInv, LimiterTypeOK, Lists
  <2>5. W!Refuse(k)
    BY <1>3, <1>5, <1>6, <1>7 DEF W!Refuse
  <2> QED  BY <2>3, <2>4, <2>5 DEF LimiterInv
<1>8. CASE /\ Len(x) < Limits[a] /\ log' = [log EXCEPT ![u][a] = Append(x, clock)]
           /\ verdict' = "pass" /\ passed' = [passed EXCEPT ![k] = Append(@, clock)]
  <2> DEFINE y == Append(x, clock)
             p == Append(passed[k], clock)
  <2>1. clock \in Nat /\ clock \in 0..clock /\ 0..clock \subseteq Nat /\ clock < clock + Period
    BY PeriodAssumption DEF LimiterInv, LimiterTypeOK
  <2>2. /\ y \in Seq(0..clock) /\ p \in Seq(0..clock) /\ Len(y) = Len(x) + 1
        /\ passed[k] \in Seq(0..clock)
    BY <1>1, <1>2, <1>4, <2>1
  <2>3. Recent(y) = Append(Recent(x), clock)
    BY <1>2, <2>1, RecentOfAppend DEF Recent
  <2>4. Recent(p) = Append(Recent(passed[k]), clock)
    BY <2>1, <2>2, RecentOfAppend DEF Recent
  <2>5. log' = [log EXCEPT ![u][a] = y] /\ passed' = [passed EXCEPT ![k] = p]
    BY <1>8
  <2> HIDE DEF x, y, p
  <2>6. /\ log' \in Lists(Seq(0..clock))
        /\ \A v \in Users, b \in Actions : log'[v][b] = IF v = u /\ b = a THEN y ELSE log[v][b]
    BY <1>1, <2>2, <2>5 DEF Lists
  <2>7. /\ passed' \in [LimitedKeys -> Seq(0..clock)]
        /\ \A v \in Users, b \in Actions :
             passed'[<<v, b>>] = IF v = u /\ b = a THEN p ELSE passed[<<v, b>>]
    BY <1>1, <1>4, <2>2, <2>5 DEF LimitedKeys
  <2>8. ASSUME NEW v \in Users, NEW b \in Actions
        PROVE  /\ Len(log'[v][b]) <= Limits[b]
               /\ RecentAt(clock', log'[v][b]) = RecentAt(clock', passed'[<<v, b>>])
    <3>1. Recent(log[v][b]) = Recent(passed[<<v, b>>]) /\ Len(log[v][b]) <= Limits[b]
      BY DEF LimiterInv, LimiterTypeOK, SameRecent
    <3>2. CASE v = u /\ b = a
      <4>1. log'[v][b] = y /\ passed'[<<v, b>>] = p
        BY <3>2, <2>6, <2>7
      <4>2. Len(y) <= Limits[a]
        BY <1>2, <1>4, <1>8, <2>2
      <4>3. Recent(y) = Recent(p)
        BY <1>2, <2>3, <2>4
      <4> QED  BY <3>2, <4>1, <4>2, <4>3, <1>6 DEF Recent
    <3>3. CASE ~ (v = u /\ b = a)
      BY <3>1, <3>3, <1>6, <2>6, <2>7 DEF Recent
    <3> QED  BY <3>2, <3>3
  <2>9. SameRecent'
    BY <2>8 DEF SameRecent, Recent
  <2>10. LimiterTypeOK'
    BY <1>6, <1>8, <2>6, <2>7, <2>8 DEF LimiterInv, LimiterTypeOK, Lists
  <2>11. W!Pass(k)
    BY <1>3, <1>5, <1>6, <1>8 DEF W!Pass
  <2> QED  BY <2>9, <2>10, <2>11 DEF LimiterInv
<1> QED  BY <1>7, <1>8 DEF Check

-----------------------------------------------------------------------------
\* Every step keeps the invariant and is a step, or nothing, of the abstract limiter.
LEMMA StepKeepsLimiter ==
  ASSUME LimiterInv, [LimiterNext]_limiterVars
  PROVE  LimiterInv' /\ [W!Next]_(W!vars)
<1>1. CASE LimiterTick
  BY <1>1, TickKeeps DEF W!Next
<1>2. CASE Cleanup
  BY <1>2, CleanupKeeps
<1>3. ASSUME NEW u \in Users, Reset(u) PROVE LimiterInv' /\ [W!Next]_(W!vars)
  BY <1>3, ResetKeeps DEF W!Next
<1>4. ASSUME NEW u \in Users, NEW a \in Actions, Check(u, a)
      PROVE  LimiterInv' /\ [W!Next]_(W!vars)
  <2>1. <<u, a>> \in LimitedKeys
    BY DEF LimitedKeys
  <2> QED  BY <1>4, <2>1, CheckKeeps DEF W!Next
<1>5. ASSUME NEW u \in Users, NEW a \in Actions, Quota(u, a)
      PROVE  LimiterInv' /\ [W!Next]_(W!vars)
  BY <1>5, QuotaKeeps
<1>6. CASE UNCHANGED limiterVars
  BY <1>6 DEF limiterVars, LimiterInv, LimiterTypeOK, SameRecent, Recent, W!vars
<1> QED  BY <1>1, <1>2, <1>3, <1>4, <1>5, <1>6 DEF LimiterNext

\* RateLimiter of websocket_manager.py: its lists have their types and never hold
\* more entries than the limit, however checks, queries and clean-ups interleave.
THEOREM ListsStayShort == LimiterSpec => []LimiterTypeOK
<1>1. LimiterInv => LimiterTypeOK
  BY DEF LimiterInv
<1>2. LimiterInv /\ [LimiterNext]_limiterVars => LimiterInv'
  BY StepKeepsLimiter
<1> QED  BY LimiterInvInit, <1>1, <1>2, PTL DEF LimiterSpec

\* check_rate_limit, get_remaining_quota, reset_user_limits and cleanup_old_entries
\* together are an exact sliding window: every step is one of WindowLimit, with the
\* times of the requests that passed, or changes nothing it sees.
THEOREM LimiterIsWindow == LimiterSpec => KeepsLimit
<1>1. LimiterInit => W!Init
  BY DEF LimiterInit, W!Init
<1>2. LimiterInv /\ [LimiterNext]_limiterVars => LimiterInv'
  BY StepKeepsLimiter
<1>3. LimiterInv /\ [LimiterNext]_limiterVars => [W!Next]_(W!vars)
  BY StepKeepsLimiter
<1> QED  BY LimiterInvInit, <1>1, <1>2, <1>3, PTL DEF LimiterSpec, KeepsLimit, W!Spec
=============================================================================
