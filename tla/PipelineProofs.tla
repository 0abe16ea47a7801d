--------------------------- MODULE PipelineProofs ---------------------------
(***************************************************************************)
(* Proofs about ProDeal and Pipeline, for any songs, names, hit counts,    *)
(* limits, days and failing calls.                                         *)
(***************************************************************************)
EXTENDS Pipeline, TLAPS, FiniteSetTheorems, WellFoundedInduction

-----------------------------------------------------------------------------
(* Sequences *)

\* Induction, for a set of numbers: the least number outside it is neither 0
\* nor the successor of one inside.
LEMMA NumbersInduction ==
  ASSUME NEW S, 0 \in S, \A n \in Nat : n \in S => n + 1 \in S
  PROVE  Nat \subseteq S
<1> SUFFICES ASSUME Nat \ S # {}
             PROVE  FALSE
  OBVIOUS
<1>1. PICK x \in Nat \ S : \A y \in Nat \ S : ~ (<<y, x>> \in OpToRel(<, Nat))
  BY NatLessThanWellFounded, WFMin
<1>2. \A y \in Nat \ S : ~(y < x)
  BY <1>1 DEF OpToRel
<1>3. x # 0 /\ x \in Nat
  BY <1>1
<1>4. x - 1 \in Nat /\ x - 1 < x /\ (x - 1) + 1 = x
  BY <1>3
<1>5. x - 1 \in S
  BY <1>2, <1>4
<1>. QED
  BY <1>1, <1>4, <1>5

\* The function that Filtered defines by recursion, for the first N entries.
IsSieve(f, N, q, S) ==
  f = [n \in 0..N |->
         IF n = 0 THEN <<>>
         ELSE IF q[n] \in S THEN Append(f[n - 1], q[n]) ELSE f[n - 1]]

\* It exists.
LEMMA SieveExists ==
  ASSUME NEW N \in Nat, NEW q, NEW S
  PROVE  \E f : IsSieve(f, N, q, S)
<1> DEFINE T == {n \in Nat : \E f : IsSieve(f, n, q, S)}
<1>1. 0 \in T
  <2> DEFINE f == [n \in 0..0 |-> <<>>]
  <2>1. f = [n \in 0..0 |->
               IF n = 0 THEN <<>>
               ELSE IF q[n] \in S THEN Append(f[n - 1], q[n]) ELSE f[n - 1]]
    OBVIOUS
  <2>. QED
    BY <2>1 DEF IsSieve
<1>2. ASSUME NEW n \in Nat, n \in T
      PROVE  n + 1 \in T
  <2>1. PICK f : IsSieve(f, n, q, S)
    BY <1>2
  <2> DEFINE F(k, g) == IF k = 0 THEN <<>>
                        ELSE IF q[k] \in S THEN Append(g[k - 1], q[k]) ELSE g[k - 1]
  <2>2. f = [k \in 0..n |-> F(k, f)]
    BY <2>1 DEF IsSieve
  <2> DEFINE g == [k \in 0..(n + 1) |-> F(k, f)]
  <2>3. \A k \in 0..n : g[k] = f[k]
    <3>1. \A k \in 0..n : f[k] = F(k, f)
      BY <2>2
    <3>. QED
      BY <3>1
  <2>4. ASSUME NEW k \in 0..(n + 1)
        PROVE  F(k, f) = F(k, g)
    <3>1. k # 0 => k - 1 \in 0..n
      OBVIOUS
    <3>2. k # 0 => g[k - 1] = f[k - 1]
      BY <2>3, <3>1
    <3> HIDE DEF g
    <3>. QED
      BY <3>2
  <2>5. g = [k \in 0..(n + 1) |-> F(k, g)]
    BY <2>4
  <2> HIDE DEF g
  <2>6. IsSieve(g, n + 1, q, S)
    BY <2>5 DEF IsSieve
  <2>. QED
    BY <2>6
<1> HIDE DEF T
<1>3. Nat \subseteq T
  BY <1>1, <1>2, NumbersInduction
<1>. QED
  BY <1>3 DEF T

\* r is made of those of the first n entries of q that are in S: h tells
\* where in q the entries of r come from.
Picks(h, r, q, n, S) ==
  /\ h \in [1..Len(r) -> 1..n]
  /\ \A j \in 1..Len(r) : r[j] = q[h[j]] /\ q[h[j]] \in S
  /\ \A j, k \in 1..Len(r) : j < k => h[j] < h[k]
  /\ \A k \in 1..n : q[k] \in S => \E j \in 1..Len(r) : h[j] = k

LEMMA PicksNext ==
  ASSUME NEW E, NEW S, NEW N \in Nat, NEW q \in [1..N -> E],
         NEW n \in 0..(N - 1), NEW r \in Seq(E), NEW h, Picks(h, r, q, n, S)
  PROVE  LET t == IF q[n + 1] \in S THEN Append(r, q[n + 1]) ELSE r
         IN  t \in Seq(E) /\ \E g : Picks(g, t, q, n + 1, S)
<1> DEFINE m == Len(r)
<1>1. m \in Nat /\ n + 1 \in 1..N /\ q[n + 1] \in E
  OBVIOUS
<1>2. /\ h \in [1..m -> 1..n]
      /\ \A j \in 1..m : r[j] = q[h[j]] /\ q[h[j]] \in S
      /\ \A j, k \in 1..m : j < k => h[j] < h[k]
      /\ \A k \in 1..n : q[k] \in S => \E j \in 1..m : h[j] = k
  BY DEF Picks
<1>3. CASE q[n + 1] \notin S
  <2>1. h \in [1..m -> 1..(n + 1)]
    BY <1>2
  <2>2. \A k \in 1..(n + 1) : q[k] \in S => k \in 1..n
    BY <1>3
  <2>3. Picks(h, r, q, n + 1, S)
    BY <1>2, <2>1, <2>2 DEF Picks
  <2>. QED
    BY <1>3, <2>3
<1>4. CASE q[n + 1] \in S
  <2> DEFINE t == Append(r, q[n + 1])
             g == [j \in 1..(m + 1) |-> IF j = m + 1 THEN n + 1 ELSE h[j]]
  <2>1. t \in Seq(E) /\ Len(t) = m + 1 /\ t[m + 1] = q[n + 1] /\ \A j \in 1..m : t[j] = r[j]
    BY <1>1
  <2>2. g[m + 1] = n + 1 /\ \A j \in 1..m : g[j] = h[j]
    BY <1>1
  <2>3. \A j \in 1..(m + 1) : j = m + 1 \/ j \in 1..m
    BY <1>1
  <2>4. \A j \in 1..(m + 1) : g[j] \in 1..(n + 1)
    <3> HIDE DEF g, t, m
    <3>. QED
      BY <1>2, <2>2, <2>3
  <2>5. g \in [1..(m + 1) -> 1..(n + 1)]
    BY <2>4
  <2> HIDE DEF g, t, m
  <2>6. \A j \in 1..(m + 1) : t[j] = q[g[j]] /\ q[g[j]] \in S
    BY <1>2, <1>4, <2>1, <2>2, <2>3
  <2>7. ASSUME NEW j \in 1..(m + 1), NEW k \in 1..(m + 1), j < k
        PROVE  g[j] < g[k]
    <3>1. j \in 1..m
      BY <1>1, <2>7
    <3>2. CASE k \in 1..m
      BY <1>2, <2>2, <2>7, <3>1, <3>2
    <3>3. CASE k = m + 1
      BY <1>2, <2>2, <3>1, <3>3
    <3>. QED
      BY <2>3, <3>2, <3>3
  <2>8. ASSUME NEW k \in 1..(n + 1), q[k] \in S
        PROVE  \E j \in 1..(m + 1) : g[j] = k
    <3>1. CASE k = n + 1
      BY <1>1, <2>2, <3>1
    <3>2. CASE k \in 1..n
      <4>1. PICK j \in 1..m : h[j] = k
        BY <1>2, <2>8, <3>2
      <4>. QED
        BY <1>1, <2>2, <4>1
    <3>. QED
      BY <3>1, <3>2
  <2>9. Picks(g, t, q, n + 1, S)
    BY <2>1, <2>5, <2>6, <2>7, <2>8 DEF Picks
  <2>. QED
    BY <1>4, <2>1, <2>9 DEF t
<1>. QED
  BY <1>3, <1>4

\* Filtered returns the entries that are in the set, in their order.
LEMMA FilteredPicks ==
  ASSUME NEW E, NEW S, NEW N \in Nat, NEW q \in [1..N -> E]
  PROVE  /\ Filtered(q, S) \in Seq(E)
         /\ \E h : Picks(h, Filtered(q, S), q, N, S)
<1>0. Len(q) = N
  OBVIOUS
<1>1. PICK f : IsSieve(f, N, q, S) /\ Filtered(q, S) = f[N]
  <2>1. \E f : IsSieve(f, N, q, S)
    BY SieveExists
  <2>. QED
    BY <1>0, <2>1 DEF Filtered, IsSieve
<1>2. /\ f[0] = <<>>
      /\ \A n \in 0..(N - 1) :
           f[n + 1] = IF q[n + 1] \in S THEN Append(f[n], q[n + 1]) ELSE f[n]
  <2>1. \A n \in 0..N :
          f[n] = IF n = 0 THEN <<>>
                 ELSE IF q[n] \in S THEN Append(f[n - 1], q[n]) ELSE f[n - 1]
    BY <1>1 DEF IsSieve
  <2>2. \A n \in 0..(N - 1) : n + 1 \in 0..N /\ n + 1 # 0 /\ (n + 1) - 1 = n
    OBVIOUS
  <2>3. 0 \in 0..N
    OBVIOUS
  <2>. QED
    BY <2>1, <2>2, <2>3
<1> DEFINE T == {n \in Nat : n <= N => f[n] \in Seq(E) /\ \E h : Picks(h, f[n], q, n, S)}
<1>3. 0 \in T
  <2>1. Picks(<<>>, <<>>, q, 0, S)
    BY DEF Picks
  <2>2. f[0] \in Seq(E) /\ Picks(<<>>, f[0], q, 0, S)
    BY <1>2, <2>1
  <2>. QED
    BY <2>2
<1>4. ASSUME NEW n \in Nat, n \in T
      PROVE  n + 1 \in T
  <2> SUFFICES ASSUME n + 1 <= N
               PROVE  f[n + 1] \in Seq(E) /\ \E h : Picks(h, f[n + 1], q, n + 1, S)
    OBVIOUS
  <2>1. n \in 0..(N - 1)
    OBVIOUS
  <2>2. f[n] \in Seq(E)
    BY <1>4, <2>1
  <2>3. PICK h : Picks(h, f[n], q, n, S)
    BY <1>4, <2>1
  <2>4. /\ (IF q[n + 1] \in S THEN Append(f[n], q[n + 1]) ELSE f[n]) \in Seq(E)
        /\ \E g : Picks(g, IF q[n + 1] \in S THEN Append(f[n], q[n + 1]) ELSE f[n], q, n + 1, S)
    BY <2>1, <2>2, <2>3, PicksNext
  <2>5. f[n + 1] = IF q[n + 1] \in S THEN Append(f[n], q[n + 1]) ELSE f[n]
    BY <1>2, <2>1
  <2> HIDE DEF T
  <2>. QED
    BY <2>4, <2>5
<1> HIDE DEF T
<1>5. N \in T
  BY <1>3, <1>4, NumbersInduction
<1>. QED
  BY <1>1, <1>5 DEF T

\* A member of SetToSeqs lists the set without repetition.
LEMMA SeqsType ==
  ASSUME NEW S, IsFiniteSet(S), NEW q \in SetToSeqs(S)
  PROVE  \E n \in Nat : /\ q \in [1..n -> S] /\ Len(q) = n
                        /\ \A j, k \in 1..n : q[j] = q[k] => j = k
                        /\ \A x \in S : \E j \in 1..n : q[j] = x
<1> DEFINE n == Cardinality(S)
<1>1. n \in Nat /\ IsFiniteSet(1..n) /\ Cardinality(1..n) = n
  BY FS_CardinalityType, FS_Interval
<1>2. q \in [1..n -> S] /\ \A j, k \in 1..n : q[j] = q[k] => j = k
  BY DEF SetToSeqs
<1>3. q \in Injection(1..n, S)
  BY <1>2 DEF Injection, IsInjective
<1> HIDE DEF n
<1>4. q \in Surjection(1..n, S)
  BY <1>1, <1>3, FS_Injection DEF n
<1>5. \A x \in S : \E j \in 1..n : q[j] = x
  BY <1>4 DEF Surjection
<1>6. Len(q) = n
  BY <1>1, <1>2
<1>. QED
  BY <1>1, <1>2, <1>5, <1>6

\* And every such list is a member.
LEMMA SeqsIntro ==
  ASSUME NEW S, NEW n \in Nat, NEW q \in [1..n -> S],
         \A j, k \in 1..n : q[j] = q[k] => j = k,
         \A x \in S : \E j \in 1..n : q[j] = x
  PROVE  q \in SetToSeqs(S)
<1>1. q \in Bijection(1..n, S)
  BY DEF Bijection, Injection, Surjection, IsInjective
<1>2. Cardinality(S) = n
  BY <1>1, FS_CountingElements DEF ExistsBijection
<1>. QED
  BY <1>2 DEF SetToSeqs

\* Filtered turns a list of a set into a list of a part of it, in the order of
\* the first.
LEMMA FilteredSeqs ==
  ASSUME NEW S, IsFiniteSet(S), NEW q \in SetToSeqs(S), NEW T \in SUBSET S
  PROVE  /\ Filtered(q, T) \in SetToSeqs(T)
         /\ \A j, k \in DOMAIN Filtered(q, T) :
              j < k => \E a, b \in DOMAIN q :
                         a < b /\ Filtered(q, T)[j] = q[a] /\ Filtered(q, T)[k] = q[b]
<1>1. PICK n \in Nat : /\ q \in [1..n -> S]
                       /\ \A j, k \in 1..n : q[j] = q[k] => j = k
                       /\ \A x \in S : \E j \in 1..n : q[j] = x
  BY SeqsType
<1> DEFINE r == Filtered(q, T)
<1>2. r \in Seq(S) /\ \E h : Picks(h, r, q, n, T)
  BY <1>1, FilteredPicks
<1> HIDE DEF r
<1>3. PICK h : Picks(h, r, q, n, T)
  BY <1>2
<1>4. PICK m \in Nat : Len(r) = m /\ r \in [1..m -> S] /\ DOMAIN r = 1..m
  BY <1>2
<1>5. /\ h \in [1..m -> 1..n]
      /\ \A j \in 1..m : r[j] = q[h[j]] /\ q[h[j]] \in T
      /\ \A j, k \in 1..m : j < k => h[j] < h[k]
      /\ \A k \in 1..n : q[k] \in T => \E j \in 1..m : h[j] = k
  BY <1>3, <1>4 DEF Picks
<1>6. r \in [1..m -> T]
  BY <1>4, <1>5
<1>7. ASSUME NEW j \in 1..m, NEW k \in 1..m, r[j] = r[k]
      PROVE  j = k
  <2>1. h[j] = h[k] /\ h[j] \in 1..n
    BY <1>1, <1>5, <1>7
  <2>. QED
    BY <1>5, <2>1
<1>8. ASSUME NEW x \in T
      PROVE  \E j \in 1..m : r[j] = x
  <2>1. PICK k \in 1..n : q[k] = x
    BY <1>1
  <2>. QED
    BY <1>5, <2>1
<1>9. r \in SetToSeqs(T)
  BY <1>6, <1>7, <1>8, SeqsIntro
<1>10. ASSUME NEW j \in DOMAIN r, NEW k \in DOMAIN r, j < k
       PROVE  \E a, b \in DOMAIN q : a < b /\ r[j] = q[a] /\ r[k] = q[b]
  <2>1. h[j] \in DOMAIN q /\ h[k] \in DOMAIN q /\ h[j] < h[k] /\ r[j] = q[h[j]] /\ r[k] = q[h[k]]
    BY <1>1, <1>4, <1>5, <1>10
  <2>. QED
    BY <2>1
<1>. QED
  BY <1>9, <1>10 DEF r

-----------------------------------------------------------------------------
(* The calls of CProDeal: the chain in steps gives what it gives at once *)

Counts == [Song -> 0..MaxHits]

LEMMA LineFields ==
  ASSUME NEW h \in Counts
  PROVE  /\ IsFiniteSet(Lines(h))
         /\ \A l \in Lines(h) : /\ l.id \in Song /\ l.num = h[l.id] /\ l.num \in Nat
                                /\ l.num > 0
         /\ \A s \in Song : h[s] > 0 => [id |-> s, num |-> h[s]] \in Lines(h)
         /\ \A l, k \in Lines(h) : l.id = k.id => l = k
<1>0. MaxHits \in Nat
  BY PipelineAssumption
<1> DEFINE f == [l \in Lines(h) |-> l.id]
<1>1. \A l \in Lines(h) : l.id \in Song /\ l.num = h[l.id] /\ l = [id |-> l.id, num |-> l.num]
                          /\ l.num \in Nat /\ l.num > 0
  BY <1>0 DEF Lines, Counts
<1>2. f \in Injection(Lines(h), Song)
  BY <1>1 DEF Injection, IsInjective
<1>3. IsFiniteSet(Lines(h))
  BY <1>2, FiniteSongs, FS_Injection
<1>4. \A s \in Song : h[s] > 0 => [id |-> s, num |-> h[s]] \in Lines(h)
  BY DEF Lines
<1>. QED
  BY <1>1, <1>3, <1>4

\* fltLogFile after getAfpName and cntSrhNums.
LEMMA FilterRanked ==
  ASSUME NEW dir \in SUBSET Files, NEW h \in Counts, NEW flg,
         NEW names \in getAfpName(dir), NEW nums \in cntSrhNums(h, flg)
  PROVE  fltLogFile(names, nums) \in Ranked(Ids(dir), h, flg)
<1>1. IsFiniteSet(dir)
  BY PipelineAssumption, FS_Subset
<1>2. PICK n \in Nat : names \in [1..n -> dir] /\ \A x \in dir : \E j \in 1..n : names[j] = x
  BY <1>1, SeqsType DEF getAfpName
<1>3. ToSet(names) = dir
  BY <1>2 DEF ToSet
<1>4. IsFiniteSet(Lines(h))
  BY LineFields
<1>5. nums \in SetToSeqs(Lines(h)) /\ \A i, j \in DOMAIN nums : i < j => Before(flg, nums[i], nums[j])
  BY DEF cntSrhNums
<1>6. PICK m \in Nat : nums \in [1..m -> Lines(h)] /\ \A x \in Lines(h) : \E j \in 1..m : nums[j] = x
  BY <1>4, <1>5, SeqsType
<1>7. ToSet(nums) = Lines(h)
  BY <1>6 DEF ToSet
<1> DEFINE T == {l \in Lines(h) : l.id \in Ids(dir)}
<1>8. fltLogFile(names, nums) = Filtered(nums, T)
  BY <1>3, <1>7 DEF fltLogFile
<1>9. T \in SUBSET Lines(h)
  OBVIOUS
<1> HIDE DEF T
<1> DEFINE r == Filtered(nums, T)
<1>10. /\ r \in SetToSeqs(T)
       /\ \A j, k \in DOMAIN r : j < k => \E a, b \in DOMAIN nums : a < b /\ r[j] = nums[a] /\ r[k] = nums[b]
  BY <1>4, <1>5, <1>9, FilteredSeqs
<1> HIDE DEF r
<1>11. \A j, k \in DOMAIN r : j < k => Before(flg, r[j], r[k])
  BY <1>5, <1>10
<1>. QED
  BY <1>8, <1>10, <1>11 DEF r, Ranked, T

\* What both lists are made of.
LEMMA RankedList ==
  ASSUME NEW S, NEW h \in Counts, NEW flg, NEW q \in Ranked(S, h, flg)
  PROVE  /\ \E n \in Nat : q \in [1..n -> Lines(h)] /\ Len(q) = n
         /\ \A j \in DOMAIN q : q[j].id \in S \cap Song /\ q[j].num = h[q[j].id] /\ q[j].num \in Nat
                                /\ q[j].num > 0
         /\ \A j, k \in DOMAIN q : j < k => Before(flg, q[j], q[k])
<1> DEFINE T == {l \in Lines(h) : l.id \in S}
<1>1. IsFiniteSet(T)
  <2>1. T \in SUBSET Lines(h)
    OBVIOUS
  <2>. QED
    BY <2>1, LineFields, FS_Subset
<1>2. q \in SetToSeqs(T) /\ \A j, k \in DOMAIN q : j < k => Before(flg, q[j], q[k])
  BY DEF Ranked
<1> HIDE DEF T
<1>3. PICK n \in Nat : q \in [1..n -> T] /\ Len(q) = n
  BY <1>1, <1>2, SeqsType
<1>4. \A j \in DOMAIN q : q[j] \in T
  BY <1>3
<1>5. \A j \in DOMAIN q : q[j].id \in S \cap Song /\ q[j].num = h[q[j].id] /\ q[j].num \in Nat
                          /\ q[j].num > 0
  BY <1>4, LineFields DEF T
<1>6. q \in [1..n -> Lines(h)]
  BY <1>3 DEF T
<1>7. \E k \in Nat : q \in [1..k -> Lines(h)] /\ Len(q) = k
  BY <1>3, <1>6
<1>. QED
  BY <1>2, <1>5, <1>7

\* A queried song with a file is in them.
LEMMA RankedCovers ==
  ASSUME NEW S, NEW h \in Counts, NEW flg, NEW q \in Ranked(S, h, flg),
         NEW s \in Song, s \in S, h[s] > 0
  PROVE  \E j \in DOMAIN q : q[j].id = s
<1> DEFINE T == {l \in Lines(h) : l.id \in S}
<1>1. IsFiniteSet(T)
  <2>1. T \in SUBSET Lines(h)
    OBVIOUS
  <2>. QED
    BY <2>1, LineFields, FS_Subset
<1>2. q \in SetToSeqs(T)
  BY DEF Ranked
<1>3. [id |-> s, num |-> h[s]] \in T
  BY LineFields
<1> HIDE DEF T
<1>4. PICK j \in DOMAIN q : q[j] = [id |-> s, num |-> h[s]]
  BY <1>1, <1>2, <1>3, SeqsType
<1>. QED
  BY <1>4

\* botAfpFile after getAfpName and fltLogFile: the names without a line are
\* those of the songs nobody queried.
LEMMA ColdChain ==
  ASSUME NEW dir \in SUBSET Files, NEW h \in Counts,
         NEW names \in getAfpName(dir), NEW flt \in Ranked(Ids(dir), h, 1)
  PROVE  botAfpFile(names, flt, CacheLimit) \in ColdLists(dir, h, CacheLimit)
<1>1. IsFiniteSet(dir) /\ \A x \in dir : x.id \in Song
  BY PipelineAssumption, FS_Subset DEF Name
<1>2. PICK n \in Nat : names \in [1..n -> dir] /\ \A x \in dir : \E j \in 1..n : names[j] = x
  BY <1>1, SeqsType DEF getAfpName
<1>3. ToSet(names) = dir
  BY <1>2 DEF ToSet
<1>4. ASSUME NEW x \in dir
      PROVE  x.id \notin Ids(ToSet(flt)) <=> h[x.id] = 0
  <2>1. x.id \in Ids(dir) \cap Song /\ h[x.id] \in Nat
    BY <1>1, PipelineAssumption DEF Ids, Counts
  <2>2. x.id \in Ids(ToSet(flt)) <=> \E j \in DOMAIN flt : flt[j].id = x.id
    BY DEF Ids, ToSet
  <2>0. \A j \in DOMAIN flt : flt[j].id \in Ids(dir) \cap Song /\ flt[j].num = h[flt[j].id]
                               /\ flt[j].num \in Nat /\ flt[j].num > 0
    BY RankedList
  <2>3. h[x.id] > 0 => \E j \in DOMAIN flt : flt[j].id = x.id
    BY <2>1, RankedCovers
  <2>4. (\E j \in DOMAIN flt : flt[j].id = x.id) <=> h[x.id] > 0
    BY <2>0, <2>1, <2>3
  <2>. QED
    BY <2>1, <2>2, <2>4
<1>5. {x \in ToSet(names) : x.id \notin Ids(ToSet(flt))} = Idle(dir, h)
  BY <1>3, <1>4 DEF Idle
<1>6. Filtered(names, Idle(dir, h)) \in SetToSeqs(Idle(dir, h))
  <2>1. Idle(dir, h) \in SUBSET dir
    BY DEF Idle
  <2>. QED
    BY <1>1, <2>1, FilteredSeqs DEF getAfpName
<1>7. botAfpFile(names, flt, CacheLimit) = ColdList(Filtered(names, Idle(dir, h)), flt, CacheLimit)
  BY <1>5 DEF botAfpFile
<1>. QED
  BY <1>6, <1>7 DEF ColdLists

\* The same with names and counts of different days: the list is one of a
\* directory with the idle files of the one and the queried songs of the other.
LEMMA ColdStale ==
  ASSUME NEW old \in SUBSET Files, NEW names \in getAfpName(old),
         NEW d \in SUBSET Files, NEW h \in Counts, NEW flt \in Ranked(Ids(d), h, 1)
  PROVE  \E dir \in SUBSET Files, g \in Counts :
           botAfpFile(names, flt, CacheLimit) \in ColdLists(dir, g, CacheLimit)
<1> DEFINE F == Ids(ToSet(flt))
           idle == {x \in old : x.id \notin F}
           dir == idle \cup {x \in Files : x.id \in F}
           g == [s \in Song |-> IF s \in F THEN h[s] ELSE 0]
<1>1. /\ IsFiniteSet(old) /\ \A x \in Files : x.id \in Song
      /\ MaxHits \in Nat /\ \A s \in Song : h[s] \in 0..MaxHits
  BY PipelineAssumption, FS_Subset DEF Name, Counts
<1>2. \A s \in Song : s \in F <=> s \in Ids(d) /\ h[s] > 0
  <2>1. \A s : s \in F <=> \E j \in DOMAIN flt : flt[j].id = s
    BY DEF Ids, ToSet
  <2>2. \A j \in DOMAIN flt : flt[j].id \in Ids(d) \cap Song /\ flt[j].num = h[flt[j].id]
                              /\ flt[j].num \in Nat /\ flt[j].num > 0
    BY RankedList
  <2>3. \A s \in Song : s \in Ids(d) /\ h[s] > 0 => \E j \in DOMAIN flt : flt[j].id = s
    BY RankedCovers
  <2> HIDE DEF F
  <2>. QED
    BY <2>1, <2>2, <2>3
<1> HIDE DEF F
<1>3. dir \in SUBSET Files /\ g \in Counts
  BY <1>1 DEF Counts
<1>4. \A s \in Song : g[s] = IF s \in F THEN h[s] ELSE 0
  OBVIOUS
<1>5. \A s \in Song : g[s] > 0 <=> s \in F
  BY <1>1, <1>2, <1>4
<1>6. \A s \in Song : g[s] = 0 <=> s \notin F
  BY <1>1, <1>2, <1>4
<1> HIDE DEF g
<1>7. Idle(dir, g) = idle
  BY <1>1, <1>6 DEF Idle
<1>8. \A s \in Song : s \in F => s \in Ids(dir) /\ s \in Ids(d)
  <2>1. ASSUME NEW s \in Song, s \in F
        PROVE  s \in Ids(dir)
    <3>1. PICK x \in d : x.id = s
      BY <1>2, <2>1 DEF Ids
    <3>2. x \in dir
      BY <2>1, <3>1
    <3>. QED
      BY <3>1, <3>2 DEF Ids
  <2>. QED
    BY <1>2, <2>1
<1> HIDE DEF dir
<1>9. {l \in Lines(g) : l.id \in Ids(dir)} = {l \in Lines(h) : l.id \in Ids(d)}
  <2>1. \A l \in Lines(g) : l.id \in Song /\ l.num = g[l.id] /\ l.num > 0
                            /\ l = [id |-> l.id, num |-> l.num]
    BY <1>3, LineFields DEF Lines
  <2>2. \A l \in Lines(h) : l.id \in Song /\ l.num = h[l.id] /\ l.num > 0
                            /\ l = [id |-> l.id, num |-> l.num]
    BY LineFields DEF Lines
  <2>3. \A s \in Song : g[s] > 0 => [id |-> s, num |-> g[s]] \in Lines(g)
    BY <1>3, LineFields
  <2>4. \A s \in Song : h[s] > 0 => [id |-> s, num |-> h[s]] \in Lines(h)
    BY LineFields
  <2>5. ASSUME NEW l \in Lines(g), l.id \in Ids(dir)
        PROVE  l \in Lines(h) /\ l.id \in Ids(d)
    <3>1. l.id \in Song /\ l.id \in F /\ l.num = h[l.id] /\ h[l.id] > 0
      BY <1>2, <1>4, <1>5, <2>1
    <3>. QED
      BY <1>8, <2>1, <2>4, <3>1
  <2>6. ASSUME NEW l \in Lines(h), l.id \in Ids(d)
        PROVE  l \in Lines(g) /\ l.id \in Ids(dir)
    <3>1. l.id \in Song /\ h[l.id] > 0
      BY <2>2
    <3>2. l.id \in F
      BY <1>2, <2>6, <3>1
    <3>3. l.num = g[l.id] /\ g[l.id] > 0
      BY <1>4, <1>5, <2>2, <3>1, <3>2
    <3>. QED
      BY <1>8, <2>2, <2>3, <3>1, <3>2, <3>3
  <2>. QED
    BY <2>5, <2>6
<1>10. flt \in Ranked(Ids(dir), g, 1)
  BY <1>9 DEF Ranked
<1>11. ToSet(names) = old
  <2>1. PICK n \in Nat : names \in [1..n -> old] /\ \A x \in old : \E j \in 1..n : names[j] = x
    BY <1>1, SeqsType DEF getAfpName
  <2>. QED
    BY <2>1 DEF ToSet
<1>12. Filtered(names, idle) \in SetToSeqs(idle)
  BY <1>1, FilteredSeqs DEF getAfpName
<1>13. botAfpFile(names, flt, CacheLimit) = ColdList(Filtered(names, idle), flt, CacheLimit)
  BY <1>11 DEF botAfpFile, F
<1> HIDE DEF idle
<1>14. botAfpFile(names, flt, CacheLimit) \in ColdLists(dir, g, CacheLimit)
  BY <1>7, <1>10, <1>12, <1>13 DEF ColdLists
<1>. QED
  BY <1>3, <1>14

-----------------------------------------------------------------------------
(* What the lists contain *)

\* The loop of topAfpFile takes a head of the list: it stops at the end, at
\* the limit or at the first count that is not above the threshold.
LEMMA AdmittedHead ==
  ASSUME NEW n \in Nat, NEW q, DOMAIN q = 1..n, NEW c, NEW limit \in Nat
  PROVE  \E m \in 0..n : /\ Admitted(q, c, limit) = 1..m
                         /\ Cardinality(Admitted(q, c, limit)) = m
                         /\ m <= limit
                         /\ m < n /\ m < limit => ~(q[m + 1].num > c)
<1> DEFINE A == Admitted(q, c, limit)
<1>1. A \subseteq 1..n /\ \A k \in A : 1..k \subseteq A
  BY DEF Admitted
<1>2. \E m \in Nat : A = 1..m
  <2> SUFFICES ASSUME \A m \in Nat : A # 1..m
               PROVE  FALSE
    OBVIOUS
  <2> HIDE DEF A
  <2> DEFINE S == {k \in Nat : 1..k \subseteq A}
  <2>1. 0 \in S
    OBVIOUS
  <2>2. ASSUME NEW k \in Nat, k \in S
        PROVE  k + 1 \in S
    <3>1. PICK x \in A : x \notin 1..k
      BY <2>2
    <3>2. x \in Nat /\ k + 1 \in 1..x
      BY <1>1, <3>1
    <3>3. k + 1 \in A
      BY <1>1, <3>2
    <3>4. \A j \in 1..(k + 1) : j \in 1..k \/ j = k + 1
      OBVIOUS
    <3>. QED
      BY <2>2, <3>3, <3>4
  <2> HIDE DEF S
  <2>3. n + 1 \in S
    BY <2>1, <2>2, NumbersInduction
  <2>4. n + 1 \in A
    BY <2>3 DEF S
  <2>. QED
    BY <1>1, <2>4
<1> HIDE DEF A
<1>3. PICK m \in Nat : A = 1..m
  BY <1>2
<1>4. Cardinality(A) = m
  BY <1>3, FS_Interval
<1>5. m <= n
  BY <1>1, <1>3
<1>6. m <= limit /\ \A j \in 1..m : q[j].num > c
  <2>1. m = 0 \/ m \in A
    BY <1>3
  <2>2. \A k \in A : k <= limit /\ \A j \in 1..k : q[j].num > c
    BY DEF A, Admitted
  <2>. QED
    BY <2>1, <2>2
<1>7. ASSUME m < n, m < limit
      PROVE  ~(q[m + 1].num > c)
  <2>1. m + 1 \notin A /\ m + 1 \in DOMAIN q /\ m + 1 <= limit
    BY <1>3, <1>7
  <2>2. \A j \in 1..(m + 1) : j \in 1..m \/ j = m + 1
    OBVIOUS
  <2>. QED
    BY <1>6, <2>1, <2>2 DEF A, Admitted
<1>. QED
  BY <1>3, <1>4, <1>5, <1>6, <1>7 DEF A

\* A group's list: its hottest songs.
LEMMA Hottest ==
  ASSUME Old \in SUBSET Files, hits \in Counts, cnt \in Nat,
         wrk.top \in HotLists(Old, hits, cnt, GroupLimit)
  PROVE  HottestAreTaken
<1> DEFINE top == wrk.top
<1>1. PICK q \in Ranked(Ids(Old), hits, 0) : top = topAfpFile(q, cnt, GroupLimit)
  BY DEF HotLists
<1>2. PICK n \in Nat : q \in [1..n -> Lines(hits)]
  BY RankedList
<1>3. \A j \in DOMAIN q : q[j].id \in Ids(Old) \cap Song /\ q[j].num = hits[q[j].id] /\ q[j].num \in Nat
                          /\ q[j].num > 0
  BY RankedList
<1>4. \A j, k \in DOMAIN q : j < k => q[j].num >= q[k].num
  <2>1. \A j, k \in DOMAIN q : j < k => Before(0, q[j], q[k])
    BY RankedList
  <2>. QED
    BY <2>1 DEF Before
<1>5. DOMAIN q = 1..n /\ GroupLimit \in Nat
  BY <1>2, PipelineAssumption
<1>6. PICK m \in 0..n : /\ Admitted(q, cnt, GroupLimit) = 1..m
                        /\ Cardinality(Admitted(q, cnt, GroupLimit)) = m
                        /\ m <= GroupLimit
                        /\ m < n /\ m < GroupLimit => ~(q[m + 1].num > cnt)
  BY <1>5, AdmittedHead
<1>7. /\ top = [i \in 1..m |-> Dotted(q[i].id)] /\ Len(top) = m
      /\ \A i \in 1..m : q[i].num > cnt
  BY <1>1, <1>6 DEF topAfpFile, Admitted
<1> HIDE DEF top
<1>8. Listed(top) = {q[i].id : i \in 1..m}
  BY <1>7 DEF Listed, Dotted
<1> DEFINE hot == {s \in Ids(Old) : hits[s] > cnt}
<1>9. Listed(top) \subseteq hot /\ Len(top) <= GroupLimit
  <2>1. \A i \in 1..m : q[i].id \in hot
    BY <1>3, <1>5, <1>6, <1>7
  <2>. QED
    BY <1>6, <1>7, <1>8, <2>1
<1>10. ASSUME NEW s \in hot \ Listed(top)
       PROVE  Len(top) = GroupLimit /\ \A t \in Listed(top) : hits[t] >= hits[s]
  <2>1. s \in Song /\ s \in Ids(Old) /\ hits[s] \in Nat /\ hits[s] > 0 /\ hits[s] > cnt
    BY PipelineAssumption DEF Ids, Name, Counts
  <2>2. PICK p \in 1..n : q[p].id = s
    BY <1>5, <2>1, RankedCovers
  <2>3. q[p].num = hits[s] /\ p > m
    BY <1>3, <1>5, <1>6, <1>8, <2>2
  <2>4. \A j \in 1..(p - 1) : q[j].num >= hits[s]
    BY <1>4, <1>5, <2>3
  <2>5. m = GroupLimit
    <3>1. CASE p = m + 1
      <4>1. q[m + 1].num > cnt /\ m < n
        BY <1>5, <2>1, <2>2, <2>3, <3>1
      <4>. QED
        BY <1>5, <1>6, <4>1
    <3>2. CASE p > m + 1
      <4>1. q[m + 1].num >= hits[s] /\ q[m + 1].num \in Nat
        BY <1>3, <1>5, <1>6, <2>4, <3>2
      <4>2. q[m + 1].num > cnt
        BY <2>1, <4>1
      <4>. QED
        BY <1>5, <1>6, <3>2, <4>2
    <3>. QED
      BY <1>6, <2>3, <3>1, <3>2
  <2>6. \A i \in 1..m : hits[q[i].id] >= hits[s]
    BY <1>3, <1>5, <1>6, <2>3, <2>4
  <2>. QED
    BY <1>7, <1>8, <2>5, <2>6
<1>. QED
  BY <1>9, <1>10 DEF HottestAreTaken, top

\* A list names no more files than it has lines.
LEMMA TakenNames ==
  ASSUME NEW q \in Seq(Name), NEW dir
  PROVE  Cardinality(movAfpFile(dir, q)) \in Nat /\ Cardinality(movAfpFile(dir, q)) <= Len(q)
<1> DEFINE n == Len(q)
<1>1. n \in Nat /\ q \in [1..n -> ToSet(q)] /\ DOMAIN q = 1..n
  BY DEF ToSet
<1>2. q \in Surjection(1..n, ToSet(q))
  BY <1>1 DEF Surjection, ToSet
<1>3. IsFiniteSet(1..n) /\ Cardinality(1..n) = n
  BY <1>1, FS_Interval
<1>4. IsFiniteSet(ToSet(q)) /\ Cardinality(ToSet(q)) <= n /\ Cardinality(ToSet(q)) \in Nat
  BY <1>2, <1>3, FS_Surjection, FS_CardinalityType
<1>5. movAfpFile(dir, q) \in SUBSET ToSet(q)
  BY DEF movAfpFile
<1>6. /\ IsFiniteSet(movAfpFile(dir, q))
      /\ Cardinality(movAfpFile(dir, q)) <= Cardinality(ToSet(q))
  BY <1>4, <1>5, FS_Subset
<1>7. Cardinality(movAfpFile(dir, q)) \in Nat
  BY <1>6, FS_CardinalityType
<1>. QED
  BY <1>1, <1>4, <1>6, <1>7

\* The main cache's list: its coldest files, and the count of the hottest.
LEMMA Coldest ==
  ASSUME afp \in SUBSET Files, hits \in Counts, wrk.bot \in Seq(Name),
         [list |-> wrk.bot, thr |-> cnt] \in ColdLists(Old, hits, CacheLimit)
  PROVE  ColdestAreGiven
<1>1. PICK u \in SetToSeqs(Idle(Old, hits)), q \in Ranked(Ids(Old), hits, 1) :
        [list |-> wrk.bot, thr |-> cnt] = ColdList(u, q, CacheLimit)
  BY DEF ColdLists
<1>2. PICK n \in Nat : q \in [1..n -> Lines(hits)]
  BY RankedList
<1>0. Len(q) = n /\ DOMAIN q = 1..n
  BY <1>2
<1>3. \A j \in DOMAIN q : q[j].id \in Ids(Old) \cap Song /\ q[j].num = hits[q[j].id] /\ q[j].num \in Nat
                          /\ q[j].num > 0
  BY RankedList
<1>4. \A j, k \in DOMAIN q : j < k => q[j].num <= q[k].num
  <2>1. \A j, k \in DOMAIN q : j < k => Before(1, q[j], q[k])
    BY RankedList
  <2>. QED
    BY <2>1 DEF Before
<1>5. IsFiniteSet(Idle(Old, hits)) /\ \A x \in Idle(Old, hits) : x \in Old /\ hits[x.id] = 0
  BY PipelineAssumption, FS_Subset DEF Idle, Old
<1>6. PICK e \in Nat : /\ u \in [1..e -> Idle(Old, hits)] /\ Len(u) = e
                       /\ \A x \in Idle(Old, hits) : \E j \in 1..e : u[j] = x
  BY <1>5, SeqsType
<1> DEFINE k == Least(CacheLimit, Len(u))
           m == Least(CacheLimit - k, Len(q))
           head == SubSeq(u, 1, k)
           tail == [i \in 1..m |-> Bare(q[i].id)]
           bot == wrk.bot
<1>7. bot = head \o tail /\ cnt = IF m = 0 THEN 0 ELSE q[m].num
  BY <1>1 DEF ColdList
<1>8. /\ CacheLimit \in Nat /\ k \in Nat /\ m \in Nat /\ k <= e /\ m <= n /\ k + m <= CacheLimit
      /\ k < e => k = CacheLimit /\ m = 0
      /\ m < n => k + m = CacheLimit
  BY <1>0, <1>6, PipelineAssumption DEF Least
<1>9. DOMAIN tail = 1..m /\ \A j \in 1..m : tail[j] = Bare(q[j].id)
  OBVIOUS
<1> HIDE DEF m, k
<1>10. Len(head) = k /\ DOMAIN head = 1..k /\ \A j \in 1..k : head[j] = u[j]
  BY <1>6, <1>8
<1>11. Len(tail) = m
  BY <1>8
<1> HIDE DEF head, tail
<1>12. /\ DOMAIN (head \o tail) = 1..(k + m)
       /\ \A j \in 1..k : (head \o tail)[j] = head[j]
       /\ \A j \in 1..m : (head \o tail)[k + j] = tail[j]
  BY <1>8, <1>10, <1>11
<1> HIDE DEF bot
<1>13. /\ DOMAIN bot = 1..(k + m) /\ Len(bot) = k + m
       /\ \A j \in 1..k : bot[j] = u[j]
       /\ \A j \in 1..m : bot[k + j] = Bare(q[j].id)
  BY <1>7, <1>8, <1>9, <1>10, <1>11, <1>12
<1>14. \A j \in DOMAIN bot : j \in 1..k \/ (j - k \in 1..m /\ k + (j - k) = j)
  BY <1>8, <1>13
<1>c. cnt \in Nat
  <2>1. m # 0 => m \in DOMAIN q
    BY <1>0, <1>8
  <2>. QED
    BY <1>3, <1>7, <2>1
<1>15. ASSUME NEW x \in ToSet(bot)
       PROVE  hits[x.id] <= cnt /\ (x.dotted => hits[x.id] = 0)
  <2>1. PICK j \in DOMAIN bot : x = bot[j]
    BY DEF ToSet
  <2>2. CASE j \in 1..k
    <3>1. hits[x.id] = 0
      BY <1>5, <1>6, <1>8, <1>13, <2>1, <2>2
    <3>. QED
      BY <1>c, <3>1
  <2>3. CASE j - k \in 1..m /\ k + (j - k) = j
    <3>1. x = Bare(q[j - k].id) /\ j - k \in DOMAIN q /\ m \in DOMAIN q /\ m # 0
      BY <1>0, <1>8, <1>13, <2>1, <2>3
    <3>2. hits[x.id] = q[j - k].num /\ cnt = q[m].num /\ cnt \in Nat /\ ~x.dotted
      BY <1>3, <1>7, <3>1 DEF Bare
    <3>3. j - k = m \/ j - k < m
      BY <1>8, <2>3
    <3>. QED
      BY <1>4, <3>1, <3>2, <3>3
  <2>. QED
    BY <1>14, <2>1, <2>2, <2>3
<1>16. ASSUME NEW x \in Old \ ToSet(bot)
       PROVE  \/ hits[x.id] > 0 /\ x.dotted
              \/ Len(bot) = CacheLimit /\ hits[x.id] >= cnt
  <2>1. x \in Name /\ x.id \in Song /\ x.id \in Ids(Old) /\ hits[x.id] \in Nat
    BY PipelineAssumption DEF Ids, Name, Counts, Old
  <2>2. CASE hits[x.id] = 0
    <3>1. x \in Idle(Old, hits)
      BY <2>2 DEF Idle
    <3>2. PICK j \in 1..e : u[j] = x
      BY <1>6, <3>1
    <3>3. j \notin 1..k
      BY <1>8, <1>13, <3>2 DEF ToSet
    <3>4. k < e
      BY <1>8, <3>2, <3>3
    <3>. QED
      BY <1>7, <1>8, <1>13, <2>2, <3>4
  <2>3. CASE hits[x.id] > 0 /\ ~x.dotted
    <3>0. hits[x.id] > 0
      BY <2>3
    <3>1. \A s \in Song : s \in Ids(Old) /\ hits[s] > 0 => \E p \in DOMAIN q : q[p].id = s
      BY RankedCovers
    <3>a. PICK p \in DOMAIN q : q[p].id = x.id
      BY <2>1, <3>0, <3>1
    <3>2. p \in 1..n /\ q[p].num = hits[x.id]
      BY <1>0, <1>3, <3>a
    <3>3. x = Bare(q[p].id)
      BY <2>1, <2>3, <3>a DEF Bare, Name
    <3>4. p \notin 1..m
      <4>1. ASSUME p \in 1..m
            PROVE  FALSE
        <5>1. k + p \in DOMAIN bot /\ bot[k + p] = x
          BY <1>8, <1>13, <3>3, <4>1
        <5>. QED
          BY <5>1 DEF ToSet
      <4>. QED
        BY <4>1
    <3>5. m < n /\ m < p
      BY <1>8, <3>2, <3>4
    <3>6. cnt <= hits[x.id]
      <4>1. CASE m = 0
        BY <1>7, <2>1, <4>1
      <4>2. CASE m # 0
        BY <1>0, <1>4, <1>7, <1>8, <3>2, <3>5, <4>2
      <4>. QED
        BY <4>1, <4>2
    <3>. QED
      BY <1>8, <1>13, <2>1, <3>5, <3>6, <1>c
  <2>. QED
    BY <2>1, <2>2, <2>3
<1>17. Cardinality(Given) <= CacheLimit
  <2>1. Cardinality(Given) \in Nat /\ Cardinality(Given) <= Len(bot)
    BY TakenNames DEF Given, bot
  <2>. QED
    BY <1>8, <1>13, <2>1
<1>18. \A x : x \in Given <=> x \in afp /\ x \in ToSet(bot)
  BY DEF Given, movAfpFile, bot
<1>19. \A x \in Old : x \in afp
  BY DEF Old
<1>20. ASSUME NEW x \in Given
       PROVE  hits[x.id] <= cnt /\ (x.dotted => hits[x.id] = 0)
  BY <1>15, <1>18
<1>21. ASSUME NEW x \in Old \ Given
       PROVE  \/ hits[x.id] > 0 /\ x.dotted
              \/ Len(bot) = CacheLimit /\ hits[x.id] >= cnt
  BY <1>16, <1>18, <1>19
<1>. QED
  BY <1>17, <1>20, <1>21 DEF ColdestAreGiven, bot

-----------------------------------------------------------------------------
(* Types *)

Line == [id : Song, num : Nat]

PipeType ==
  /\ role \in {"group", "main"} /\ clean \in BOOLEAN
  /\ pc \in {"names", "count", "filter", "list", "move", "done"}
  /\ afp \subseteq Files /\ sent \subseteq Files /\ hits \in Counts
  /\ cnt \in Nat /\ line \in Nat /\ turn \in Nat

\* The lines of the tmp files, of whichever day.
TextType ==
  /\ DOMAIN wrk = Tmp /\ wrk = [f \in Tmp |-> wrk[f]]
  /\ wrk.names \in Seq(Name) /\ wrk.nums \in Seq(Line) /\ wrk.flt \in Seq(Line)
  /\ wrk.top \in Seq(Name) /\ wrk.bot \in Seq(Name)

LEMMA SeqsSeq ==
  ASSUME NEW S, IsFiniteSet(S), NEW q \in SetToSeqs(S), NEW E, S \subseteq E
  PROVE  q \in Seq(E)
<1>1. PICK n \in Nat : q \in [1..n -> S]
  BY SeqsType
<1>2. q \in [1..n -> E]
  BY <1>1
<1>. QED
  BY <1>2

LEMMA FilteredType ==
  ASSUME NEW E, NEW q \in Seq(E), NEW S
  PROVE  Filtered(q, S) \in Seq(E)
<1>1. PICK n \in Nat : q \in [1..n -> E]
  OBVIOUS
<1>. QED
  BY <1>1, FilteredPicks

LEMMA LinesType ==
  ASSUME NEW h \in Counts
  PROVE  Lines(h) \subseteq Line
<1>1. \A s \in Song : h[s] \in Nat
  BY PipelineAssumption DEF Counts
<1>. QED
  BY <1>1 DEF Lines, Line

\* topAfpFile lists names, their number is within the limit.
LEMMA TopType ==
  ASSUME NEW flt \in Seq(Line), NEW c
  PROVE  /\ topAfpFile(flt, c, GroupLimit) \in Seq(Name)
         /\ Len(topAfpFile(flt, c, GroupLimit)) <= GroupLimit
<1>1. PICK n \in Nat : flt \in [1..n -> Line] /\ DOMAIN flt = 1..n
  OBVIOUS
<1>2. GroupLimit \in Nat
  BY PipelineAssumption
<1>3. PICK m \in 0..n : Cardinality(Admitted(flt, c, GroupLimit)) = m /\ m <= GroupLimit
  BY <1>1, <1>2, AdmittedHead
<1>4. \A i \in 1..m : Dotted(flt[i].id) \in Name
  BY <1>1, <1>3 DEF Dotted, Name, Line
<1>5. topAfpFile(flt, c, GroupLimit) = [i \in 1..m |-> Dotted(flt[i].id)]
  BY <1>3 DEF topAfpFile
<1> DEFINE t == [i \in 1..m |-> Dotted(flt[i].id)]
<1>6. t \in [1..m -> Name] /\ m \in Nat
  BY <1>3, <1>4
<1> HIDE DEF t
<1>7. t \in Seq(Name) /\ Len(t) = m
  BY <1>6
<1>. QED
  BY <1>3, <1>5, <1>7 DEF t

\* botAfpFile lists names and finds a threshold.
LEMMA BotType ==
  ASSUME NEW names \in Seq(Name), NEW flt \in Seq(Line)
  PROVE  LET b == botAfpFile(names, flt, CacheLimit)
         IN  b.list \in Seq(Name) /\ b.thr \in Nat
<1> DEFINE u == Filtered(names, {n \in ToSet(names) : n.id \notin Ids(ToSet(flt))})
           k == Least(CacheLimit, Len(u))
           m == Least(CacheLimit - k, Len(flt))
           head == SubSeq(u, 1, k)
           tail == [i \in 1..m |-> Bare(flt[i].id)]
<1>1. u \in Seq(Name)
  BY FilteredType
<1>2. /\ botAfpFile(names, flt, CacheLimit).list = head \o tail
      /\ botAfpFile(names, flt, CacheLimit).thr = IF m = 0 THEN 0 ELSE flt[m].num
  BY DEF botAfpFile, ColdList
<1> HIDE DEF u
<1>3. k \in Nat /\ k <= Len(u) /\ m \in Nat /\ m <= Len(flt)
  BY <1>1, PipelineAssumption DEF Least
<1> HIDE DEF k, m
<1>4. head \in Seq(Name)
  BY <1>1, <1>3
<1>0. \A i \in 1..m : flt[i] \in Line
  BY <1>3
<1>5. \A i \in 1..m : Bare(flt[i].id) \in Name
  BY <1>0 DEF Bare, Name, Line
<1>6. tail \in Seq(Name)
  BY <1>3, <1>5
<1>7. m # 0 => flt[m].num \in Nat
  BY <1>0, <1>3 DEF Line
<1> HIDE DEF head, tail
<1>8. head \o tail \in Seq(Name)
  BY <1>4, <1>6
<1>. QED
  BY <1>2, <1>7, <1>8

LEMMA PipeInit == Init => PipeType /\ TextType
<1> SUFFICES ASSUME Init PROVE PipeType /\ TextType
  OBVIOUS
<1>1. PipeType
  BY PipelineAssumption DEF Init, PipeType, Counts
<1>2. wrk = [f \in Tmp |-> <<>>]
  BY DEF Init
<1>3. TextType
  BY <1>2 DEF TextType, Tmp
<1>. QED
  BY <1>1, <1>3

LEMMA PipeNext == PipeType /\ TextType /\ [Next]_vars => PipeType'
<1> SUFFICES ASSUME PipeType, TextType, [Next]_vars
             PROVE  PipeType'
  OBVIOUS
<1> USE DEF PipeType, window
<1>1. CASE GetNames
  BY <1>1 DEF GetNames
<1>2. CASE CountSearches
  BY <1>2 DEF CountSearches
<1>3. CASE Filter
  BY <1>3 DEF Filter
<1>4. CASE StepFails
  BY <1>4 DEF StepFails
<1>5. CASE ListTop
  BY <1>5 DEF ListTop
<1>6. CASE ListBot
  <2>1. cnt' \in Nat
    BY <1>6, BotType DEF ListBot, TextType
  <2>. QED
    BY <1>6, <2>1 DEF ListBot
<1>7. CASE ListFails
  BY <1>7 DEF ListFails
<1>8. CASE MoveTop \/ MoveTopFails
  BY <1>8 DEF MoveTop, MoveTopFails, movAfpFile
<1>9. CASE EndOfGroups \/ NoReply
  BY <1>9 DEF EndOfGroups, NoReply
<1>10. ASSUME NEW k \in 1..GroupLimit, MoveCnt(k) \/ MoveCntFails(k)
       PROVE  PipeType'
  <2>1. k \in Nat
    BY PipelineAssumption
  <2>2. line + k \in Nat /\ turn + 1 \in Nat
    BY <2>1
  <2>3. CASE MoveCnt(k)
    <3>1. movCntFile(afp, wrk.bot, line, k) \subseteq afp
      BY DEF movCntFile
    <3>. QED
      BY <2>2, <2>3, <3>1 DEF MoveCnt, Visit
  <2>4. CASE MoveCntFails(k)
    BY <2>2, <2>4 DEF MoveCntFails, Visit
  <2>. QED
    BY <1>10, <2>3, <2>4
<1>13. ASSUME NEW n \in Files, Arrive(n)
       PROVE  PipeType'
  BY <1>13 DEF Arrive
<1>11. ASSUME NEW back \in SUBSET sent, NextDay(back)
       PROVE  PipeType'
  BY <1>11, PipelineAssumption DEF NextDay, Counts
<1>12. CASE UNCHANGED vars
  BY <1>12 DEF vars, window
<1>. QED
  BY <1>1, <1>2, <1>3, <1>4, <1>5, <1>6, <1>7, <1>8, <1>9, <1>10, <1>11, <1>12, <1>13 DEF Next

\* Each tmp file is written by one call.
LEMMA WriteText ==
  ASSUME TextType, NEW f \in Tmp, NEW t, Write(f, t),
         f \in {"names", "top", "bot"} => t \in Seq(Name),
         f \in {"nums", "flt"} => t \in Seq(Line)
  PROVE  TextType' /\ wrk'[f] = t /\ \A g \in Tmp : g # f => wrk'[g] = wrk[g]
<1>1. wrk' = [wrk EXCEPT ![f] = t]
  BY DEF Write
<1>2. DOMAIN wrk' = Tmp /\ wrk' = [g \in Tmp |-> wrk'[g]]
  BY <1>1 DEF TextType
<1>3. wrk'[f] = t /\ \A g \in Tmp : g # f => wrk'[g] = wrk[g]
  BY <1>1 DEF TextType
<1>. QED
  BY <1>2, <1>3 DEF TextType, Tmp

LEMMA TextNext == PipeType /\ TextType /\ [Next]_vars => TextType'
<1> SUFFICES ASSUME PipeType, TextType, [Next]_vars
             PROVE  TextType'
  OBVIOUS
<1>1. CASE GetNames
  <2>1. PICK q \in getAfpName(afp) : Write("names", q)
    BY <1>1 DEF GetNames
  <2>2. q \in Seq(Name)
    BY SeqsSeq, PipelineAssumption, FS_Subset DEF getAfpName, PipeType
  <2>. QED
    BY <2>1, <2>2, WriteText DEF Tmp
<1>2. CASE CountSearches
  <2> DEFINE flg == IF role = "main" THEN 1 ELSE 0
  <2>1. PICK q \in cntSrhNums(hits, flg) : Write("nums", q)
    BY <1>2 DEF CountSearches
  <2> HIDE DEF flg
  <2>2. q \in SetToSeqs(Lines(hits)) /\ IsFiniteSet(Lines(hits)) /\ Lines(hits) \subseteq Line
    BY LineFields, LinesType DEF cntSrhNums, PipeType
  <2>3. q \in Seq(Line)
    BY <2>2, SeqsSeq
  <2>. QED
    BY <2>1, <2>3, WriteText DEF Tmp
<1>3. CASE Filter
  <2>1. Write("flt", fltLogFile(wrk.names, wrk.nums))
    BY <1>3 DEF Filter
  <2>2. fltLogFile(wrk.names, wrk.nums) \in Seq(Line)
    BY FilteredType DEF fltLogFile, TextType
  <2>. QED
    BY <2>1, <2>2, WriteText DEF Tmp
<1>4. CASE ListTop
  <2>1. Write("top", topAfpFile(wrk.flt, cnt, GroupLimit))
    BY <1>4 DEF ListTop
  <2>2. topAfpFile(wrk.flt, cnt, GroupLimit) \in Seq(Name)
    BY TopType DEF TextType
  <2>. QED
    BY <2>1, <2>2, WriteText DEF Tmp
<1>5. CASE ListBot
  <2>1. Write("bot", botAfpFile(wrk.names, wrk.flt, CacheLimit).list)
    BY <1>5 DEF ListBot
  <2>2. botAfpFile(wrk.names, wrk.flt, CacheLimit).list \in Seq(Name)
    BY BotType DEF TextType
  <2>. QED
    BY <2>1, <2>2, WriteText DEF Tmp
<1>6. CASE UNCHANGED wrk
  BY <1>6 DEF TextType
<1>. QED
  BY <1>1, <1>2, <1>3, <1>4, <1>5, <1>6 DEF Next, StepFails, ListFails, MoveTop,
     MoveTopFails, EndOfGroups, MoveCnt, MoveCntFails, Visit, NoReply, Arrive, NextDay, vars

-----------------------------------------------------------------------------
(* What each call has left to the next ones *)

Flg == IF role = "main" THEN 1 ELSE 0

\* On whatever day its writer did not fail.
StaleInv ==
  /\ \E dir \in SUBSET Files : wrk.names \in getAfpName(dir)
  /\ \E h \in Counts : wrk.nums \in cntSrhNums(h, Flg)
  /\ \E dir \in SUBSET Files, h \in Counts : wrk.flt \in Ranked(Ids(dir), h, Flg)

\* On a day without failures.
CleanInv ==
  clean => /\ pc \in {"count", "filter", "list"} => wrk.names \in getAfpName(Old)
           /\ pc = "filter" => wrk.nums \in cntSrhNums(hits, Flg)
           /\ pc = "list" => wrk.flt \in Ranked(Ids(Old), hits, Flg)

ChainInv ==
  /\ StaleInv /\ CleanInv
  /\ pc = "names" => late = {}
  /\ SummariesCoverLists

LEMMA ChainInit == Init => ChainInv
<1> SUFFICES ASSUME Init PROVE ChainInv
  OBVIOUS
<1>1. wrk.names = <<>> /\ wrk.nums = <<>> /\ wrk.flt = <<>>
  BY DEF Init, Tmp
<1>2. ASSUME NEW S, S = {}
      PROVE  <<>> \in SetToSeqs(S)
  <2>1. <<>> \in [1..0 -> S] /\ 0 \in Nat
    OBVIOUS
  <2>. QED
    BY <1>2, <2>1, SeqsIntro
<1> DEFINE h0 == [s \in Song |-> 0]
<1>3. h0 \in Counts /\ Lines(h0) = {}
  BY PipelineAssumption DEF Counts, Lines
<1> HIDE DEF h0
<1>4. <<>> \in getAfpName({}) /\ {} \in SUBSET Files
  BY <1>2 DEF getAfpName
<1>5. <<>> \in cntSrhNums(h0, Flg)
  BY <1>2, <1>3 DEF cntSrhNums
<1>6. <<>> \in Ranked(Ids({}), h0, Flg)
  BY <1>2, <1>3 DEF Ranked
<1>7. StaleInv
  BY <1>1, <1>3, <1>4, <1>5, <1>6 DEF StaleInv
<1>8. pc = "names" /\ late = {}
  BY DEF Init
<1>. QED
  BY <1>7, <1>8 DEF ChainInv, CleanInv, SummariesCoverLists, Fresh, Unused

LEMMA ChainNext ==
  ASSUME PipeType, TextType, ChainInv, [Next]_vars
  PROVE  ChainInv'
<1> USE DEF Fresh, Unused
<1>1. CASE GetNames
  <2>1. PICK q \in getAfpName(afp) : Write("names", q)
    BY <1>1 DEF GetNames
  <2>2. q \in Seq(Name)
    BY SeqsSeq, PipelineAssumption, FS_Subset DEF getAfpName, PipeType
  <2>3. wrk'.names = q /\ wrk'.nums = wrk.nums /\ wrk'.flt = wrk.flt
    BY <2>1, <2>2, WriteText DEF Tmp
  <2>4. /\ UNCHANGED <<afp, role, clean, late, hits>> /\ pc = "names" /\ pc' = "count"
        /\ Flg' = Flg /\ Old = afp /\ Old' = Old
    BY <1>1 DEF GetNames, Flg, Old, ChainInv
  <2>5. StaleInv'
    BY <2>3, <2>4 DEF StaleInv, ChainInv, PipeType
  <2>. QED
    BY <2>3, <2>4, <2>5 DEF ChainInv, CleanInv, SummariesCoverLists
<1>2. CASE CountSearches
  <2>1. PICK q \in cntSrhNums(hits, Flg) : Write("nums", q)
    BY <1>2 DEF CountSearches, Flg
  <2> HIDE DEF Flg
  <2>2. q \in SetToSeqs(Lines(hits)) /\ IsFiniteSet(Lines(hits)) /\ Lines(hits) \subseteq Line
    BY LineFields, LinesType DEF cntSrhNums, PipeType
  <2>3. q \in Seq(Line)
    BY <2>2, SeqsSeq
  <2>4. wrk'.nums = q /\ wrk'.names = wrk.names /\ wrk'.flt = wrk.flt
    BY <2>1, <2>3, WriteText DEF Tmp
  <2>5. /\ UNCHANGED <<clean, hits>> /\ pc = "count" /\ pc' = "filter"
        /\ Flg' = Flg /\ Old' = Old
    BY <1>2 DEF CountSearches, Flg, Old
  <2>6. StaleInv'
    BY <2>4, <2>5 DEF StaleInv, ChainInv, PipeType
  <2>. QED
    BY <2>4, <2>5, <2>6 DEF ChainInv, CleanInv, SummariesCoverLists
<1>3. CASE Filter
  <2>1. Write("flt", fltLogFile(wrk.names, wrk.nums))
    BY <1>3 DEF Filter
  <2>2. fltLogFile(wrk.names, wrk.nums) \in Seq(Line)
    BY FilteredType DEF fltLogFile, TextType
  <2>3. /\ wrk'.flt = fltLogFile(wrk.names, wrk.nums) /\ wrk'.names = wrk.names
        /\ wrk'.nums = wrk.nums
    BY <2>1, <2>2, WriteText DEF Tmp
  <2>0. Old \in SUBSET Files
    BY DEF Old, PipeType
  <2>4. clean => wrk'.flt \in Ranked(Ids(Old), hits, Flg)
    BY <1>3, <2>0, <2>3, FilterRanked DEF Filter, ChainInv, CleanInv, PipeType
  <2>5. Flg' = Flg /\ Old' = Old /\ UNCHANGED <<clean, hits>> /\ pc' = "list" /\ pc = "filter"
    BY <1>3 DEF Filter, Flg, Old
  <2> HIDE DEF Flg
  <2>6. PICK dir \in SUBSET Files : wrk.names \in getAfpName(dir)
    BY DEF ChainInv, StaleInv
  <2>7. PICK h \in Counts : wrk.nums \in cntSrhNums(h, Flg)
    BY DEF ChainInv, StaleInv
  <2>8. wrk'.flt \in Ranked(Ids(dir), h, Flg)
    BY <2>3, <2>6, <2>7, FilterRanked
  <2>9. StaleInv'
    BY <2>3, <2>5, <2>6, <2>7, <2>8 DEF StaleInv
  <2>. QED
    BY <2>3, <2>4, <2>5, <2>9 DEF ChainInv, CleanInv, SummariesCoverLists
<1>4. CASE ListTop
  <2> DEFINE top == topAfpFile(wrk.flt, cnt, GroupLimit)
  <2>1. /\ Write("top", top) /\ UNCHANGED <<role, clean, hits, cnt>> /\ role = "group"
        /\ pc' \in {"move", "done"} /\ pc = "list" /\ Old' = Old /\ Flg = 0 /\ Flg' = Flg
    BY <1>4 DEF ListTop, Old, Flg
  <2>2. top \in Seq(Name)
    BY TopType DEF TextType
  <2>4. clean => top \in HotLists(Old, hits, cnt, GroupLimit)
    BY <2>1 DEF ChainInv, CleanInv, HotLists
  <2>5. PICK dir \in SUBSET Files, h \in Counts : wrk.flt \in Ranked(Ids(dir), h, 0)
    BY <2>1 DEF ChainInv, StaleInv
  <2>6. top \in HotLists(dir, h, cnt, GroupLimit)
    BY <2>5 DEF HotLists
  <2> HIDE DEF top
  <2>3. /\ wrk'.top = top /\ wrk'.names = wrk.names /\ wrk'.nums = wrk.nums
        /\ wrk'.flt = wrk.flt
    BY <2>1, <2>2, WriteText DEF Tmp
  <2>7. StaleInv'
    BY <2>1, <2>3 DEF ChainInv, StaleInv
  <2>8. SummariesCoverLists'
    BY <2>1, <2>3, <2>4, <2>5, <2>6 DEF SummariesCoverLists, Counts
  <2>. QED
    BY <2>1, <2>7, <2>8 DEF ChainInv, CleanInv
<1>5. CASE ListBot
  <2> DEFINE bot == botAfpFile(wrk.names, wrk.flt, CacheLimit)
  <2>1. /\ Write("bot", bot.list) /\ cnt' = bot.thr /\ UNCHANGED <<role, clean, hits>>
        /\ role = "main" /\ pc' = "move" /\ pc = "list"
        /\ Old' = Old /\ Flg = 1 /\ Flg' = Flg
    BY <1>5 DEF ListBot, Old, Flg
  <2>2. bot.list \in Seq(Name)
    BY BotType DEF TextType
  <2>3. bot = [list |-> bot.list, thr |-> bot.thr]
    BY DEF botAfpFile, ColdList
  <2>0. Old \in SUBSET Files
    BY DEF Old, PipeType
  <2>4. clean => bot \in ColdLists(Old, hits, CacheLimit)
    BY <2>0, <2>1, ColdChain DEF ChainInv, CleanInv, PipeType
  <2>6. PICK old \in SUBSET Files : wrk.names \in getAfpName(old)
    BY DEF ChainInv, StaleInv
  <2>7. PICK d \in SUBSET Files, h \in Counts : wrk.flt \in Ranked(Ids(d), h, 1)
    BY <2>1 DEF ChainInv, StaleInv
  <2>8. PICK dir \in SUBSET Files, g \in Counts : bot \in ColdLists(dir, g, CacheLimit)
    BY <2>6, <2>7, ColdStale
  <2> HIDE DEF bot
  <2>5. /\ wrk'.bot = bot.list /\ wrk'.names = wrk.names /\ wrk'.nums = wrk.nums
        /\ wrk'.flt = wrk.flt
    BY <2>1, <2>2, WriteText DEF Tmp
  <2>9. StaleInv'
    BY <2>1, <2>5 DEF ChainInv, StaleInv
  <2>10. SummariesCoverLists'
    BY <2>1, <2>3, <2>4, <2>5, <2>8 DEF SummariesCoverLists, Counts
  <2>. QED
    BY <2>1, <2>9, <2>10 DEF ChainInv, CleanInv
<1>6. CASE StepFails \/ ListFails
  <2>1. /\ UNCHANGED <<role, wrk>> /\ ~clean' /\ pc' \in {"count", "filter", "list", "done"}
        /\ StaleInv' = StaleInv
    BY <1>6 DEF StepFails, ListFails, StaleInv, Flg
  <2>. QED
    BY <2>1 DEF ChainInv, CleanInv, SummariesCoverLists
<1>7. CASE MoveTop \/ MoveTopFails \/ EndOfGroups
  <2>1. UNCHANGED <<role, wrk>> /\ pc' = "done" /\ StaleInv' = StaleInv
    BY <1>7 DEF MoveTop, MoveTopFails, EndOfGroups, StaleInv, Flg
  <2>. QED
    BY <2>1 DEF ChainInv, CleanInv, SummariesCoverLists
<1>8. ASSUME NEW k \in 1..GroupLimit, MoveCnt(k) \/ MoveCntFails(k)
      PROVE  ChainInv'
  <2>1. /\ UNCHANGED <<role, wrk>> /\ pc = "move" /\ pc' = "move" /\ turn' = turn + 1
        /\ turn \in Nat /\ StaleInv' = StaleInv
    BY <1>8 DEF MoveCnt, MoveCntFails, Visit, StaleInv, Flg, PipeType
  <2>. QED
    BY <2>1 DEF ChainInv, CleanInv, SummariesCoverLists
<1>11. CASE NoReply
  <2>1. /\ UNCHANGED <<role, wrk>> /\ pc = "move" /\ pc' = "move" /\ turn' = turn + 1
        /\ turn \in Nat /\ StaleInv' = StaleInv
    BY <1>11 DEF NoReply, StaleInv, Flg, PipeType
  <2>. QED
    BY <2>1 DEF ChainInv, CleanInv, SummariesCoverLists
<1>12. ASSUME NEW n \in Files, Arrive(n)
       PROVE  ChainInv'
  <2>1. /\ UNCHANGED <<role, wrk, hits, cnt, pc, clean, turn>> /\ pc # "names"
        /\ Old' = Old /\ Flg' = Flg /\ StaleInv' = StaleInv
    BY <1>12 DEF Arrive, window, Old, StaleInv, Flg
  <2>. QED
    BY <2>1 DEF ChainInv, CleanInv, SummariesCoverLists
<1>9. ASSUME NEW back \in SUBSET sent, NextDay(back)
      PROVE  ChainInv'
  <2>1. UNCHANGED <<role, wrk>> /\ pc' = "names" /\ late' = {} /\ StaleInv' = StaleInv
    BY <1>9 DEF NextDay, StaleInv, Flg
  <2>. QED
    BY <2>1 DEF ChainInv, CleanInv, SummariesCoverLists
<1>10. CASE UNCHANGED vars
  <2>1. /\ UNCHANGED <<role, wrk, hits, cnt, pc, clean, turn, late>>
        /\ Old' = Old /\ Flg' = Flg /\ StaleInv' = StaleInv
    BY <1>10 DEF vars, window, Old, StaleInv, Flg
  <2>. QED
    BY <2>1 DEF ChainInv, CleanInv, SummariesCoverLists
<1>. QED
  BY <1>1, <1>2, <1>3, <1>4, <1>5, <1>6, <1>7, <1>8, <1>9, <1>10, <1>11, <1>12 DEF Next

\* Each tmp file holds what its call computes from the files before it.
LEMMA ChainHolds == Spec => [](PipeType /\ TextType /\ ChainInv)
<1> DEFINE Inv == PipeType /\ TextType /\ ChainInv
<1>1. Init => Inv
  BY PipeInit, ChainInit
<1>2. Inv /\ [Next]_vars => Inv'
  BY PipeNext, TextNext, ChainNext
<1>. QED
  BY <1>1, <1>2, PTL DEF Spec

\* Chained through the tmp files, the calls of one day give one of the lists
\* that HotLists and ColdLists name for the day's directory and queries; when
\* calls fail and the tmp files are of several days, they give one of the lists
\* of some directory and some queries.  What FingerMove does in one step,
\* without the files, is all that the chain can do.
THEOREM SummariesAreExact == Spec => []SummariesCoverLists
<1>1. ChainInv => SummariesCoverLists
  BY DEF ChainInv
<1>. QED
  BY <1>1, ChainHolds, PTL

\* Of its files a group gives those of the songs queried more often than any
\* that the main cache gives away, the hottest first, GROUP_LIMIT at most
\* (fltLogFile, topAfpFile).
THEOREM HottestMove == Spec => []HottestAreTaken
<1>1. PipeType /\ ChainInv => HottestAreTaken
  <2> SUFFICES ASSUME PipeType, ChainInv, Fresh("group")
               PROVE  HottestAreTaken
    BY DEF HottestAreTaken
  <2>1. Old \in SUBSET Files /\ hits \in Counts /\ cnt \in Nat
    BY DEF Old, PipeType
  <2>. QED
    BY <2>1, Hottest DEF ChainInv, SummariesCoverLists
<1>. QED
  BY <1>1, ChainHolds, PTL

\* The main cache gives files that were not queried more often than the
\* threshold it sends, CACHE_LIMIT at most, and keeps a file only if the list
\* is full of files no hotter or because its queried song is listed by its
\* bare id (botAfpFile).
THEOREM ColdestMove == Spec => []ColdestAreGiven
<1>1. PipeType /\ TextType /\ ChainInv => ColdestAreGiven
  <2> SUFFICES ASSUME PipeType, TextType, ChainInv, Fresh("main")
               PROVE  ColdestAreGiven
    BY DEF ColdestAreGiven
  <2>. QED
    BY Coldest DEF ChainInv, SummariesCoverLists, PipeType, TextType
<1>. QED
  BY <1>1, ChainHolds, PTL

-----------------------------------------------------------------------------
(* Every day, whatever failed *)

\* The list to be acted upon is the one that was reported.
ReportInv ==
  /\ role = "group" /\ pc # "done" => sent = {}
  /\ role = "group" /\ pc = "move" => result = Len(wrk.top) /\ Len(wrk.top) <= GroupLimit
  /\ ReportCoversTaken

LEMMA ReportNext ==
  ASSUME PipeType, TextType, ReportInv, [Next]_vars
  PROVE  ReportInv'
<1>1. CASE ListTop
  <2> DEFINE top == topAfpFile(wrk.flt, cnt, GroupLimit)
  <2>1. /\ Write("top", top) /\ result' = Len(top) /\ UNCHANGED <<role, sent>>
        /\ pc = "list" /\ role = "group"
    BY <1>1 DEF ListTop
  <2>2. top \in Seq(Name) /\ Len(top) <= GroupLimit
    BY TopType DEF TextType
  <2> HIDE DEF top
  <2>3. wrk'.top = top
    BY <2>1, <2>2, WriteText DEF Tmp
  <2>. QED
    BY <2>1, <2>2, <2>3 DEF ReportInv, ReportCoversTaken
<1>2. CASE MoveTop
  <2>1. /\ sent' = movAfpFile(afp, wrk.top) /\ UNCHANGED <<role, result>>
        /\ pc = "move" /\ pc' = "done" /\ role = "group"
    BY <1>2 DEF MoveTop
  <2>2. result = Len(wrk.top) /\ Len(wrk.top) <= GroupLimit
    BY <2>1 DEF ReportInv
  <2>3. Cardinality(sent') <= result
    BY <2>1, <2>2, TakenNames DEF TextType
  <2>. QED
    BY <2>1, <2>2, <2>3 DEF ReportInv, ReportCoversTaken
<1>3. CASE GetNames \/ CountSearches \/ Filter \/ StepFails
  <2>1. UNCHANGED <<role, sent>> /\ pc \in {"names", "count", "filter"} /\ pc' \notin {"move", "done"}
    BY <1>3 DEF GetNames, CountSearches, Filter, StepFails
  <2>. QED
    BY <2>1 DEF ReportInv, ReportCoversTaken
<1>4. CASE ListFails \/ MoveTopFails
  <2>1. UNCHANGED <<role, sent>> /\ pc \in {"list", "move"} /\ pc' = "done"
    BY <1>4 DEF ListFails, MoveTopFails
  <2>. QED
    BY <2>1 DEF ReportInv, ReportCoversTaken
<1>5. CASE ListBot \/ EndOfGroups \/ NoReply \/ \E k \in 1..GroupLimit : MoveCnt(k) \/ MoveCntFails(k)
  <2>1. role' = "main"
    BY <1>5 DEF ListBot, EndOfGroups, NoReply, MoveCnt, MoveCntFails, Visit
  <2>. QED
    BY <2>1 DEF ReportInv, ReportCoversTaken
<1>6. CASE \E back \in SUBSET sent : NextDay(back)
  <2>1. sent' = {} /\ pc' = "names"
    BY <1>6 DEF NextDay
  <2>. QED
    BY <2>1 DEF ReportInv, ReportCoversTaken
<1>7. CASE UNCHANGED vars \/ \E n \in Files : Arrive(n)
  <2>1. UNCHANGED <<role, wrk, sent, result, pc>>
    BY <1>7 DEF vars, Arrive
  <2>. QED
    BY <2>1 DEF ReportInv, ReportCoversTaken
<1>. QED
  BY <1>1, <1>2, <1>3, <1>4, <1>5, <1>6, <1>7 DEF Next

\* GCServer::Preconf reports at least as many files as it takes, GROUP_LIMIT
\* at most, even when it works on the tmp files of an earlier day.
THEOREM ReportSuffices == Spec => []ReportCoversTaken
<1> DEFINE Inv == PipeType /\ TextType /\ ReportInv
<1>1. Init => Inv
  BY PipeInit DEF Init, ReportInv, ReportCoversTaken
<1>2. Inv /\ [Next]_vars => Inv'
  BY PipeNext, TextNext, ReportNext
<1>3. Inv => ReportCoversTaken
  BY DEF ReportInv
<1>. QED
  BY <1>1, <1>2, <1>3, PTL DEF Spec

\* The first window starts at the first line.
TileInv ==
  /\ role = "main" /\ pc \notin {"move", "done"} => sent = {} /\ line = 0
  /\ skipped \subseteq 1..line
  /\ WindowsTile

LEMMA TileNext ==
  ASSUME PipeType, TextType, TileInv, [Next]_vars
  PROVE  TileInv'
<1>0. \A j \in DOMAIN wrk.bot : j \in Nat
  BY DEF TextType
<1>1. CASE ListBot
  <2>1. Write("bot", botAfpFile(wrk.names, wrk.flt, CacheLimit).list)
    BY <1>1 DEF ListBot
  <2>2. botAfpFile(wrk.names, wrk.flt, CacheLimit).list \in Seq(Name)
    BY BotType DEF TextType
  <2>3. wrk'.bot \in Seq(Name)
    BY <2>1, <2>2, WriteText DEF Tmp
  <2>4. sent' = {} /\ line' = 0 /\ pc' = "move" /\ UNCHANGED <<line, skipped>>
    BY <1>1 DEF ListBot, TileInv, window
  <2>5. \A j \in DOMAIN wrk'.bot : ~(j <= 0)
    BY <2>3
  <2>6. Served' = {}
    BY <2>4, <2>5 DEF Served
  <2>. QED
    BY <2>4, <2>6 DEF TileInv, WindowsTile
<1>2. ASSUME NEW k \in 1..GroupLimit, MoveCnt(k)
      PROVE  TileInv'
  <2> DEFINE bot == wrk.bot
             down == movCntFile(afp, bot, line, k)
  <2>1. /\ pc = "move" /\ role = "main" /\ UNCHANGED <<wrk, role, pc, skipped>>
        /\ sent' = sent \cup down /\ afp' = afp \ down /\ late' = late \ down
        /\ line' = line + k /\ k \in Nat /\ line \in Nat
    BY <1>2, PipelineAssumption DEF MoveCnt, Visit, PipeType
  <2>2. sent \subseteq Served /\ Served \cap afp \subseteq late
    BY <2>1 DEF TileInv, WindowsTile
  <2>3. \A n : n \in down <=> n \in afp /\ \E j \in DOMAIN bot : line < j /\ j <= line + k /\ bot[j] = n
    BY DEF movCntFile, Window
  <2> HIDE DEF down
  <2>4. \A n : n \in Served <=> \E j \in DOMAIN bot : j <= line /\ j \notin skipped /\ bot[j] = n
    BY DEF Served
  <2>5. \A n : n \in Served' <=> \E j \in DOMAIN bot : j <= line + k /\ j \notin skipped /\ bot[j] = n
    BY <2>1 DEF Served
  <2>6. \A j \in DOMAIN bot : /\ j <= line + k <=> j <= line \/ (line < j /\ j <= line + k)
                              /\ line < j => j \notin skipped
    <3>1. skipped \subseteq 1..line
      BY <2>1 DEF TileInv
    <3>. QED
      BY <1>0, <2>1, <3>1
  <2> HIDE DEF bot
  <2>7. sent' \subseteq Served'
    BY <2>1, <2>2, <2>3, <2>4, <2>5, <2>6
  <2>8. Served' \cap afp' \subseteq late'
    BY <2>1, <2>2, <2>3, <2>4, <2>5, <2>6
  <2>9. skipped' \subseteq 1..line'
    <3>1. \A j \in 1..line : j \in 1..(line + k)
      BY <2>1
    <3>. QED
      BY <2>1, <3>1 DEF TileInv
  <2>. QED
    BY <2>1, <2>7, <2>8, <2>9 DEF TileInv, WindowsTile
<1>8. ASSUME NEW k \in 1..GroupLimit, MoveCntFails(k)
      PROVE  TileInv'
  <2> DEFINE bot == wrk.bot
  <2>1. /\ pc = "move" /\ role = "main" /\ UNCHANGED <<wrk, role, pc, sent, afp, late>>
        /\ skipped' = skipped \cup (line + 1)..(line + k)
        /\ line' = line + k /\ k \in Nat /\ line \in Nat
    BY <1>8, PipelineAssumption DEF MoveCntFails, Visit, PipeType
  <2>2. \A j \in DOMAIN bot : j <= line + k /\ j \notin skipped' <=> j <= line /\ j \notin skipped
    BY <1>0, <2>1
  <2>3. Served' = Served
    BY <2>1, <2>2 DEF Served
  <2>. QED
    BY <2>1, <2>3 DEF TileInv, WindowsTile
<1>9. CASE NoReply
  <2>1. UNCHANGED <<role, wrk, sent, afp, late, line, skipped, pc>> /\ Served' = Served
    BY <1>9 DEF NoReply, Served
  <2>. QED
    BY <2>1 DEF TileInv, WindowsTile
<1>10. ASSUME NEW n \in Files, Arrive(n)
       PROVE  TileInv'
  <2>1. /\ UNCHANGED <<role, wrk, sent, line, skipped, pc>> /\ Served' = Served
        /\ afp' = afp \cup {n} /\ late' = late \cup {n}
    BY <1>10 DEF Arrive, window, Served
  <2>. QED
    BY <2>1 DEF TileInv, WindowsTile
<1>3. CASE GetNames \/ CountSearches \/ Filter \/ StepFails
  <2>1. UNCHANGED <<role, sent, line, skipped>> /\ pc \in {"names", "count", "filter"} /\ pc' \notin {"move", "done"}
    BY <1>3 DEF GetNames, CountSearches, Filter, StepFails, window
  <2>. QED
    BY <2>1 DEF TileInv, WindowsTile
<1>4. CASE ListFails \/ EndOfGroups
  <2>1. pc' = "done" /\ UNCHANGED <<line, skipped>>
    BY <1>4 DEF ListFails, EndOfGroups, window
  <2>. QED
    BY <2>1 DEF TileInv, WindowsTile
<1>5. CASE ListTop \/ MoveTop \/ MoveTopFails
  <2>1. role' = "group" /\ UNCHANGED <<line, skipped>>
    BY <1>5 DEF ListTop, MoveTop, MoveTopFails, window
  <2>. QED
    BY <2>1 DEF TileInv, WindowsTile
<1>6. CASE \E back \in SUBSET sent : NextDay(back)
  <2>1. sent' = {} /\ line' = 0 /\ skipped' = {} /\ pc' = "names"
    BY <1>6 DEF NextDay
  <2>. QED
    BY <2>1 DEF TileInv, WindowsTile
<1>7. CASE UNCHANGED vars
  <2>1. UNCHANGED <<role, wrk, sent, afp, late, line, skipped, pc>> /\ Served' = Served
    BY <1>7 DEF vars, window, Served
  <2>. QED
    BY <2>1 DEF TileInv, WindowsTile
<1>. QED
  BY <1>1, <1>2, <1>3, <1>4, <1>5, <1>6, <1>7, <1>8, <1>9, <1>10 DEF Next

\* Group after group, movCntFile takes from botAfpsFile.tmp the lines that
\* follow those of the groups before, none ahead of lineCount, and leaves out
\* only the lines of the windows in which it failed, whatever day the list is
\* of, however many of its files are still there and whatever comes meanwhile.
THEOREM WindowsMeet == Spec => []WindowsTile
<1> DEFINE Inv == PipeType /\ TextType /\ TileInv
<1>1. Init => Inv
  BY PipeInit DEF Init, TileInv, WindowsTile
<1>2. Inv /\ [Next]_vars => Inv'
  BY PipeNext, TextNext, TileNext
<1>3. Inv => WindowsTile
  BY DEF TileInv
<1>. QED
  BY <1>1, <1>2, <1>3, PTL DEF Spec
=============================================================================
