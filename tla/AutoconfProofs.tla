---------------------------- MODULE AutoconfProofs ----------------------------
(***************************************************************************)
(* Proofs about Autoconf: what the inspectors assign to the parameters,    *)
(* for any parameters, editions of the file, inspectors and failures.      *)
(***************************************************************************)
EXTENDS Autoconf, SequenceTheorems, TLAPS

-----------------------------------------------------------------------------
(* The words of the file *)

Word == (UNION {ToSet(e) : e \in Edition}) \cup {Part}
Odd(s) == {i \in DOMAIN s : i % 2 = 1}

LEMMA PartWord == Part \in Word
BY DEF Word

\* A name that dispath knows is followed by one of its values, if by a word.
PairsOwn(s) ==
  \A i \in Odd(s) : s[i] \in Param /\ i + 1 \in DOMAIN s => s[i + 1] \in Given(s[i]) \cup {Part}

\* A file without a half-written part: whole pairs, and the names that the
\* editions agree on have the value they agree on.
PairsWhole(s) ==
  /\ Len(s) % 2 = 0
  /\ \A i \in Odd(s) : s[i] \in Agreed => \A e \in Edition : s[i + 1] = Value(e, s[i])

\* A name of an edition has its value behind it.
LEMMA ValueBehind ==
  ASSUME NEW e \in Edition, NEW i \in Odd(e)
  PROVE  /\ i + 1 \in DOMAIN e /\ e[i] \in Names(e) /\ e[i + 1] = Value(e, e[i])
<1>1. e \in Seq(ToSet(e)) /\ Len(e) % 2 = 0
  BY AutoconfAssumption
<1>2. DOMAIN e = 1..Len(e) /\ Len(e) \in Nat
  BY <1>1
<1>3. i \in 1..Len(e) /\ i % 2 = 1
  BY <1>2 DEF Odd
<1>4. i + 1 \in 1..Len(e)
  BY <1>1, <1>2, <1>3
<1>5. \A j \in DOMAIN e : j % 2 = 1 /\ e[j] = e[i] => j = i
  BY <1>2, <1>3, AutoconfAssumption
<1>6. (CHOOSE j \in DOMAIN e : j % 2 = 1 /\ e[j] = e[i]) = i
  BY <1>2, <1>3, <1>5
<1>7. Value(e, e[i]) = e[1 + i]
  BY <1>6 DEF Value
<1>8. e[i] \in Names(e)
  BY <1>2, <1>3 DEF Names
<1>. QED
  BY <1>2, <1>3, <1>4, <1>7, <1>8

\* What is left after a name and its value.
LEMMA Rest ==
  ASSUME NEW s \in Seq(Word), s # <<>>
  PROVE  LET r == SubSeq(s, 3, Len(s))
         IN  /\ r \in Seq(Word)
             /\ DOMAIN s = 1..Len(s) /\ Len(s) \in Nat /\ Len(s) > 0
             /\ DOMAIN r = 1..Len(r) /\ Len(r) \in Nat
             /\ Len(r) = IF Len(s) >= 2 THEN Len(s) - 2 ELSE 0
             /\ \A i \in DOMAIN r : r[i] = s[i + 2] /\ i + 2 \in DOMAIN s
<1> DEFINE r == SubSeq(s, 3, Len(s))
<1>1. Len(s) \in Nat /\ Len(s) # 0 /\ DOMAIN s = 1..Len(s)
  OBVIOUS
<1>2. \A i \in 3..Len(s) : s[i] \in Word
  BY <1>1
<1>3. /\ r \in Seq(Word)
      /\ Len(r) = IF 3 <= Len(s) THEN Len(s) - 3 + 1 ELSE 0
      /\ \A i \in 1..(Len(s) - 3 + 1) : r[i] = s[3 + i - 1]
  BY <1>1, <1>2, SubSeqProperties
<1> HIDE DEF r
<1>4. DOMAIN r = 1..Len(r)
  BY <1>3
<1>5. Len(r) = IF Len(s) >= 2 THEN Len(s) - 2 ELSE 0
  <2> DEFINE n == Len(s)
  <2>1. n \in Nat /\ Len(r) = IF 3 <= n THEN n - 3 + 1 ELSE 0
    BY <1>1, <1>3
  <2> HIDE DEF n
  <2>2. Len(r) = IF n >= 2 THEN n - 2 ELSE 0
    BY <2>1
  <2>. QED
    BY <2>2 DEF n
<1>6. ASSUME NEW i \in DOMAIN r
      PROVE  r[i] = s[i + 2] /\ i + 2 \in DOMAIN s
  <2>0. Len(r) \in Nat
    BY <1>3
  <2>1. i \in 1..Len(r) /\ i \in Nat /\ 3 + i - 1 = i + 2
    BY <1>4, <2>0
  <2>2. i \in 1..(Len(s) - 3 + 1) /\ i + 2 \in 1..Len(s)
    <3> DEFINE n == Len(s)
               m == Len(r)
    <3>1. n \in Nat /\ m = (IF n >= 2 THEN n - 2 ELSE 0) /\ i \in 1..m
      BY <1>1, <1>5, <2>1
    <3> HIDE DEF n, m
    <3>2. i \in 1..(n - 3 + 1) /\ i + 2 \in 1..n
      BY <3>1
    <3>. QED
      BY <3>2 DEF n
  <2>. QED
    BY <1>1, <1>3, <2>1, <2>2
<1>. QED
  BY <1>1, <1>3, <1>4, <1>5, <1>6 DEF r

LEMMA RestOwn ==
  ASSUME NEW s \in Seq(Word), s # <<>>, PairsOwn(s)
  PROVE  PairsOwn(SubSeq(s, 3, Len(s)))
<1> DEFINE r == SubSeq(s, 3, Len(s))
<1>1. /\ DOMAIN s = 1..Len(s) /\ Len(s) \in Nat /\ DOMAIN r = 1..Len(r)
      /\ Len(r) \in Nat /\ Len(r) = IF Len(s) >= 2 THEN Len(s) - 2 ELSE 0
      /\ \A i \in DOMAIN r : r[i] = s[i + 2] /\ i + 2 \in DOMAIN s
  BY Rest
<1> HIDE DEF r
<1> SUFFICES ASSUME NEW i \in Odd(r), r[i] \in Param, i + 1 \in DOMAIN r
             PROVE  r[i + 1] \in Given(r[i]) \cup {Part}
  BY DEF PairsOwn, r
<1>2. i \in Nat /\ i \in DOMAIN r /\ i % 2 = 1 /\ i + 1 + 2 = i + 2 + 1
  <2>1. i \in DOMAIN r /\ i % 2 = 1
    BY DEF Odd
  <2>2. DOMAIN r = 1..Len(r) /\ Len(r) \in Nat
    BY <1>1
  <2>3. i \in Nat
    BY <2>1, <2>2
  <2>4. i + 1 + 2 = i + 2 + 1
    BY <2>3
  <2>. QED
    BY <2>1, <2>3, <2>4
<1>3. r[i] = s[i + 2] /\ r[i + 1] = s[i + 2 + 1] /\ i + 2 \in DOMAIN s /\ i + 2 + 1 \in DOMAIN s
  <2>1. /\ r[i] = s[i + 2] /\ i + 2 \in DOMAIN s
        /\ r[i + 1] = s[i + 1 + 2] /\ i + 1 + 2 \in DOMAIN s
    BY <1>1, <1>2
  <2>. QED
    BY <1>2, <2>1
<1>4. i + 2 \in Odd(s)
  BY <1>2, <1>3 DEF Odd
<1>. QED
  BY <1>3, <1>4 DEF PairsOwn

LEMMA RestWhole ==
  ASSUME NEW s \in Seq(Word), s # <<>>, PairsWhole(s)
  PROVE  PairsWhole(SubSeq(s, 3, Len(s))) /\ Len(s) # 1
<1> DEFINE r == SubSeq(s, 3, Len(s))
<1>1. /\ DOMAIN s = 1..Len(s) /\ Len(s) \in Nat /\ Len(s) > 0 /\ DOMAIN r = 1..Len(r)
      /\ Len(r) \in Nat /\ Len(r) = IF Len(s) >= 2 THEN Len(s) - 2 ELSE 0
      /\ \A i \in DOMAIN r : r[i] = s[i + 2] /\ i + 2 \in DOMAIN s
  BY Rest
<1> HIDE DEF r
<1>2. Len(s) % 2 = 0 /\ Len(s) >= 2
  <2> DEFINE n == Len(s)
  <2>1. n % 2 = 0 /\ n \in Nat /\ n > 0
    BY <1>1 DEF PairsWhole
  <2> HIDE DEF n
  <2>2. n >= 2
    BY <2>1
  <2>. QED
    BY <2>1, <2>2 DEF n
<1>3. Len(r) % 2 = 0
  BY <1>1, <1>2
<1>4. ASSUME NEW i \in Odd(r), r[i] \in Agreed, NEW e \in Edition
      PROVE  r[i + 1] = Value(e, r[i])
  <2>1. i \in Nat /\ i \in 1..(Len(s) - 2) /\ i \in DOMAIN r /\ i % 2 = 1
    BY <1>1, <1>2 DEF Odd
  <2>2. i + 1 \in DOMAIN r /\ i + 1 + 2 = i + 2 + 1
    BY <1>1, <1>2, <2>1
  <2>3. r[i] = s[i + 2] /\ r[i + 1] = s[i + 2 + 1] /\ i + 2 \in DOMAIN s
    <3>1. r[i] = s[i + 2] /\ i + 2 \in DOMAIN s /\ r[i + 1] = s[i + 1 + 2]
      BY <1>1, <2>1, <2>2
    <3>. QED
      BY <2>2, <3>1
  <2>4. i + 2 \in Odd(s)
    BY <2>1, <2>3 DEF Odd
  <2>. QED
    BY <1>4, <2>3, <2>4 DEF PairsWhole
<1>. QED
  <2>1. PairsWhole(r) /\ Len(s) # 1
    BY <1>1, <1>2, <1>3, <1>4 DEF PairsWhole
  <2>. QED
    BY <2>1 DEF r

\* An edition, and what an editor has written of one.
LEMMA EditionPairs ==
  ASSUME NEW e \in Edition
  PROVE  e \in Seq(Word) /\ PairsOwn(e) /\ PairsWhole(e)
<1>1. e \in Seq(Word)
  BY AutoconfAssumption, SeqMonotonic DEF Word
<1>2. PairsOwn(e)
  BY ValueBehind DEF PairsOwn, Given
<1>3. \A i \in Odd(e) : e[i] \in Agreed => \A f \in Edition : e[i + 1] = Value(f, e[i])
  BY ValueBehind DEF Agreed
<1>. QED
  BY <1>1, <1>2, <1>3, AutoconfAssumption DEF PairsWhole

LEMMA ShownPairs ==
  ASSUME NEW e \in Edition, NEW s \in Shown(e)
  PROVE  s \in Seq(Word) /\ PairsOwn(s)
<1>1. e \in Seq(Word) /\ PairsOwn(e) /\ Len(e) \in Nat /\ DOMAIN e = 1..Len(e)
  BY EditionPairs
<1>2. ASSUME NEW k \in 0..Len(e)
      PROVE  /\ SubSeq(e, 1, k) \in Seq(Word) /\ Len(SubSeq(e, 1, k)) = k
             /\ DOMAIN SubSeq(e, 1, k) = 1..k
             /\ \A i \in 1..k : SubSeq(e, 1, k)[i] = e[i]
  <2>1. \A i \in 1..k : e[i] \in Word
    BY <1>1
  <2>2. /\ SubSeq(e, 1, k) \in Seq(Word)
        /\ Len(SubSeq(e, 1, k)) = IF 1 <= k THEN k - 1 + 1 ELSE 0
        /\ \A i \in 1..(k - 1 + 1) : SubSeq(e, 1, k)[i] = e[1 + i - 1]
    BY <2>1, SubSeqProperties
  <2>. QED
    BY <2>2
<1>3. ASSUME NEW k \in 0..Len(e), s = SubSeq(e, 1, k)
      PROVE  s \in Seq(Word) /\ PairsOwn(s)
  <2>1. s \in Seq(Word) /\ DOMAIN s = 1..k /\ \A i \in 1..k : s[i] = e[i]
    BY <1>2, <1>3
  <2>2. \A i \in Odd(s) : i \in Odd(e)
    BY <1>1, <2>1 DEF Odd
  <2>. QED
    BY <1>1, <2>1, <2>2 DEF PairsOwn, Odd
<1>4. ASSUME NEW k \in 0..(Len(e) - 1), s = Append(SubSeq(e, 1, k), Part)
      PROVE  s \in Seq(Word) /\ PairsOwn(s)
  <2>1. k \in 0..Len(e) /\ Part \in Word
    BY <1>1, PartWord
  <2>2. s \in Seq(Word) /\ DOMAIN s = 1..(k + 1) /\ s[k + 1] = Part
          /\ \A i \in 1..k : s[i] = e[i]
    BY <1>2, <1>4, <2>1
  <2>3. ASSUME NEW i \in Odd(s), s[i] \in Param, i + 1 \in DOMAIN s
        PROVE  s[i + 1] \in Given(s[i]) \cup {Part}
    <3>1. i \in 1..k /\ i \in Odd(e) /\ s[i] = e[i]
      BY <1>1, <2>1, <2>2, <2>3 DEF Odd
    <3>2. CASE i + 1 = k + 1
      BY <2>2, <3>2
    <3>3. CASE i + 1 # k + 1
      <4>1. i + 1 \in 1..k /\ s[i + 1] = e[i + 1] /\ i + 1 \in DOMAIN e
        BY <1>1, <2>1, <2>2, <3>1, <3>3
      <4>. QED
        BY <1>1, <2>3, <3>1, <4>1 DEF PairsOwn
    <3>. QED
      BY <3>2, <3>3
  <2>. QED
    BY <2>2, <2>3 DEF PairsOwn
<1>. QED
  BY <1>3, <1>4 DEF Shown

-----------------------------------------------------------------------------
(* What the parameters get *)

States == {"new", "first", "pass", "sleep", "open", "ended", "failed"}

\* Whatever half of an edition is in the file, the words that are read make
\* up pairs, and no parameter has the value of another.
OwnInv ==
  /\ DOMAIN cfg = Param
  /\ pc \in [Inspector -> States]
  /\ file \in Seq(Word) /\ PairsOwn(file)
  /\ DOMAIN text = Inspector
  /\ \A t \in Inspector : text[t] \in Seq(Word) /\ PairsOwn(text[t])
  /\ OwnValue

\* As long as no half of an edition was in the file, the words that are read
\* are whole pairs, and a parameter that the editions agree on has their value
\* or is still to be read by the first pass.
Settled(p) == \A e \in Edition : cfg[p] = Value(e, p)
ToCome(p, s) == \E i \in Odd(s) : s[i] = p

SteadyInv ==
  ~torn => /\ file \in Edition
           /\ \A t \in Inspector :
                /\ PairsWhole(text[t])
                /\ \A p \in Agreed :
                     /\ pc[t] = "first" => ToCome(p, text[t]) \/ Settled(p)
                     /\ pc[t] \in {"pass", "sleep", "open", "ended"} => Settled(p)

AutoInv == OwnInv /\ SteadyInv

\* A name and its value are taken off the text, and assigned.
LEMMA PassOwn ==
  ASSUME OwnInv, NEW t \in Inspector, Pass(t)
  PROVE  OwnInv'
<1> DEFINE s == text[t]
           name == Head(s)
           val == IF Len(s) = 1 THEN value[t] ELSE s[2]
<1>1. /\ s \in Seq(Word) /\ PairsOwn(s) /\ s # <<>>
      /\ text' = [text EXCEPT ![t] = SubSeq(s, 3, Len(s))]
      /\ cfg' = [p \in Param |-> IF p = name THEN val ELSE cfg[p]]
      /\ cut' = IF Len(s) = 1 THEN cut \cup {name} ELSE cut \ {name}
      /\ UNCHANGED <<file, pc>>
  BY DEF OwnInv, Pass, Eof, Assigned
<1>2. /\ SubSeq(s, 3, Len(s)) \in Seq(Word) /\ PairsOwn(SubSeq(s, 3, Len(s)))
      /\ DOMAIN s = 1..Len(s) /\ Len(s) \in Nat /\ Len(s) > 0
  BY <1>1, Rest, RestOwn
<1>3. name = s[1]
  BY <1>1
<1> HIDE DEF s, name, val
<1>4. ASSUME NEW p \in Param, p \notin cut'
      PROVE  cfg'[p] \in Given(p) \cup {Part}
  <2>1. CASE p # name
    <3>1. p \notin cut
      BY <1>1, <1>4, <2>1
    <3>. QED
      BY <1>1, <2>1, <3>1 DEF OwnInv, OwnValue
  <2>2. CASE p = name
    <3>1. Len(s) # 1
      BY <1>1, <1>4, <2>2
    <3>2. 1 \in DOMAIN s /\ 1 % 2 = 1 /\ 1 + 1 \in DOMAIN s /\ 1 + 1 = 2
      BY <1>2, <3>1
    <3>3. 1 \in Odd(s)
      BY <3>2 DEF Odd
    <3>4. s[2] \in Given(p) \cup {Part}
      BY <1>1, <1>3, <2>2, <3>2, <3>3 DEF PairsOwn
    <3>. QED
      BY <1>1, <2>2, <3>1, <3>4 DEF val
  <2>. QED
    BY <2>1, <2>2
<1>5. DOMAIN text' = Inspector
        /\ \A u \in Inspector : text'[u] \in Seq(Word) /\ PairsOwn(text'[u])
  BY <1>1, <1>2 DEF OwnInv
<1>6. OwnValue'
  BY <1>4 DEF OwnValue
<1>7. DOMAIN cfg' = Param
  BY <1>1
<1>. QED
  BY <1>1, <1>5, <1>6, <1>7 DEF OwnInv

LEMMA PassSteady ==
  ASSUME OwnInv, SteadyInv, NEW t \in Inspector, Pass(t)
  PROVE  SteadyInv'
<1> SUFFICES ASSUME ~torn'
             PROVE  /\ file' \in Edition
                    /\ \A u \in Inspector :
                         /\ PairsWhole(text'[u])
                         /\ \A p \in Agreed :
                              /\ pc'[u] = "first" => ToCome(p, text'[u]) \/ Settled(p)'
                              /\ pc'[u] \in {"pass", "sleep", "open", "ended"} => Settled(p)'
  BY DEF SteadyInv, Agreed
<1> DEFINE s == text[t]
           r == SubSeq(s, 3, Len(s))
           name == Head(s)
<1>1. /\ s \in Seq(Word) /\ s # <<>> /\ PairsWhole(s)
      /\ text' = [text EXCEPT ![t] = r] /\ DOMAIN text = Inspector
      /\ UNCHANGED <<file, pc>> /\ file \in Edition
  BY DEF OwnInv, SteadyInv, Pass, Eof, history
<1>2. /\ r \in Seq(Word) /\ PairsWhole(r) /\ Len(s) # 1
      /\ DOMAIN s = 1..Len(s) /\ Len(s) \in Nat /\ Len(s) > 0
      /\ DOMAIN r = 1..Len(r) /\ Len(r) = IF Len(s) >= 2 THEN Len(s) - 2 ELSE 0
      /\ Len(r) \in Nat
      /\ \A i \in DOMAIN r : r[i] = s[i + 2]
  BY <1>1, Rest, RestWhole
<1>3. name = s[1] /\ cfg' = [p \in Param |-> IF p = name THEN s[2] ELSE cfg[p]]
  BY <1>1, <1>2 DEF Pass, Assigned
<1> HIDE DEF s, r, name
<1>4. 1 \in Odd(s)
  <2>1. 1 \in DOMAIN s /\ 1 % 2 = 1
    <3>1. DOMAIN s = 1..Len(s) /\ Len(s) \in Nat /\ Len(s) > 0
      BY <1>2
    <3>. QED
      BY <3>1
  <2>. QED
    BY <2>1 DEF Odd
<1>5. ASSUME NEW p \in Agreed, p = name
      PROVE  Settled(p)'
  <2>1. \A e \in Edition : s[1 + 1] = Value(e, p)
    BY <1>1, <1>3, <1>4, <1>5 DEF PairsWhole
  <2>2. cfg'[p] = s[2] /\ 1 + 1 = 2
    BY <1>3, <1>5 DEF Agreed
  <2>. QED
    BY <2>1, <2>2 DEF Settled
<1>6. ASSUME NEW p \in Agreed, Settled(p)
      PROVE  Settled(p)'
  <2>1. p # name => cfg'[p] = cfg[p]
    BY <1>3 DEF Agreed
  <2>. QED
    BY <1>5, <1>6, <2>1 DEF Settled
<1>7. ASSUME NEW p \in Agreed, ToCome(p, s)
      PROVE  ToCome(p, r) \/ Settled(p)'
  <2>1. PICK i \in Odd(s) : s[i] = p
    BY <1>7 DEF ToCome
  <2>2. i \in 1..Len(s) /\ i % 2 = 1 /\ i \in Nat
    <3>1. i \in DOMAIN s /\ i % 2 = 1
      BY <2>1 DEF Odd
    <3>2. DOMAIN s = 1..Len(s) /\ Len(s) \in Nat
      BY <1>2
    <3>3. i \in Nat
      BY <3>1, <3>2
    <3>. QED
      BY <3>1, <3>2, <3>3
  <2>3. CASE i = 1
    BY <1>3, <1>5, <2>1, <2>3
  <2>4. CASE i # 1
    <3>1. i - 2 \in 1..Len(r) /\ (i - 2) % 2 = 1 /\ (i - 2) + 2 = i
      <4> DEFINE n == Len(s)
                 m == Len(r)
      <4>1. n \in Nat /\ m = (IF n >= 2 THEN n - 2 ELSE 0) /\ i \in 1..n
        BY <1>2, <2>2
      <4>2. i % 2 = 1 /\ i # 1
        BY <2>2, <2>4
      <4> HIDE DEF n, m
      <4>3. i >= 3
        BY <4>1, <4>2
      <4>4. i - 2 \in 1..m /\ (i - 2) % 2 = 1 /\ (i - 2) + 2 = i
        BY <4>1, <4>2, <4>3
      <4>. QED
        BY <4>4 DEF m
    <3>2. i - 2 \in DOMAIN r /\ r[i - 2] = s[(i - 2) + 2]
      BY <1>2, <3>1
    <3>3. i - 2 \in Odd(r) /\ r[i - 2] = p
      BY <2>1, <3>1, <3>2 DEF Odd
    <3>. QED
      BY <3>3 DEF ToCome
  <2>. QED
    BY <2>3, <2>4
<1>8. torn' = torn
  BY DEF Pass
<1>9. \A p \in Agreed : pc[t] = "first" => ToCome(p, s) \/ Settled(p)
  BY <1>8 DEF SteadyInv, s
<1>. QED
  BY <1>1, <1>2, <1>6, <1>7, <1>8, <1>9 DEF SteadyInv

\* The other steps leave the parameters alone, and read whole files.
LEMMA OthersOwn ==
  ASSUME OwnInv, NEW t \in Inspector,
         \/ startInspect(t) \/ startInspectFails(t) \/ PassEnd(t) \/ Wake(t)
         \/ Open(t) \/ OpenFails(t)
  PROVE  OwnInv'
<1>1. /\ UNCHANGED <<file, cfg, cut>>
      /\ text' = text \/ text' = [text EXCEPT ![t] = file]
      /\ \E s \in States : pc' = [pc EXCEPT ![t] = s]
  BY DEF startInspect, startInspectFails, PassEnd, Wake, Open, OpenFails, At, States,
     inspectors, history
<1>2. /\ pc' \in [Inspector -> States] /\ DOMAIN text' = Inspector
      /\ \A u \in Inspector : text'[u] = text[u] \/ text'[u] = file
  BY <1>1 DEF OwnInv
<1>. QED
  BY <1>1, <1>2 DEF OwnInv, OwnValue

LEMMA OthersSteady ==
  ASSUME OwnInv, SteadyInv, NEW t \in Inspector,
         \/ startInspect(t) \/ startInspectFails(t) \/ PassEnd(t) \/ Wake(t)
         \/ Open(t) \/ OpenFails(t)
  PROVE  SteadyInv'
<1> SUFFICES ASSUME ~torn
             PROVE  /\ file' \in Edition
                    /\ \A u \in Inspector :
                         /\ PairsWhole(text'[u])
                         /\ \A p \in Agreed :
                              /\ pc'[u] = "first" => ToCome(p, text'[u]) \/ Settled(p)'
                              /\ pc'[u] \in {"pass", "sleep", "open", "ended"} => Settled(p)'
  BY DEF SteadyInv, Agreed, startInspect, startInspectFails, PassEnd, Wake, Open,
     OpenFails, history
<1>1. /\ UNCHANGED <<file, cfg>> /\ file \in Edition /\ PairsWhole(file)
      /\ DOMAIN text = Inspector /\ pc \in [Inspector -> States]
  BY EditionPairs
     DEF startInspect, startInspectFails, PassEnd, Wake, Open, OpenFails, SteadyInv, OwnInv
<1>2. \A p \in Agreed : Settled(p)' = Settled(p)
  BY <1>1 DEF Settled
<1>3. ASSUME NEW p \in Agreed
      PROVE  ToCome(p, file)
  <2>1. PICK i \in {j \in DOMAIN file : j % 2 = 1} : file[i] = p
    BY <1>1 DEF Agreed, Names
  <2>. QED
    BY <2>1 DEF ToCome, Odd
<1>4. CASE startInspect(t)
  <2>1. text' = [text EXCEPT ![t] = file] /\ pc' = [pc EXCEPT ![t] = "first"]
    BY <1>4 DEF startInspect, At
  <2>. QED
    BY <1>1, <1>2, <1>3, <2>1 DEF SteadyInv
<1>5. CASE startInspectFails(t)
  <2>1. text' = text /\ pc' = [pc EXCEPT ![t] = "failed"]
    BY <1>5 DEF startInspectFails, At
  <2>. QED
    BY <1>1, <1>2, <2>1 DEF SteadyInv
<1>6. CASE PassEnd(t)
  <2>1. /\ text' = text /\ text[t] = <<>> /\ pc[t] \in {"first", "pass"}
        /\ pc' = [pc EXCEPT ![t] = "sleep"]
    BY <1>6 DEF PassEnd, Eof
  <2>2. \A p : ~ToCome(p, <<>>)
    BY DEF ToCome, Odd
  <2>3. \A p \in Agreed : Settled(p)
    BY <2>1, <2>2 DEF SteadyInv
  <2>. QED
    BY <1>1, <1>2, <2>1, <2>3 DEF SteadyInv
<1>7. CASE Wake(t) \/ OpenFails(t)
  <2>1. /\ text' = text /\ pc[t] \in {"sleep", "open"}
        /\ \E s \in {"open", "ended", "sleep"} : pc' = [pc EXCEPT ![t] = s]
    BY <1>7 DEF Wake, OpenFails, At, inspectors
  <2>2. \A p \in Agreed : Settled(p)
    BY <2>1 DEF SteadyInv
  <2>. QED
    BY <1>1, <1>2, <2>1, <2>2 DEF SteadyInv
<1>8. CASE Open(t)
  <2>1. /\ text' = [text EXCEPT ![t] = file] /\ pc[t] = "open"
        /\ pc' = [pc EXCEPT ![t] = "pass"]
    BY <1>8 DEF Open, At
  <2>2. \A p \in Agreed : Settled(p)
    BY <2>1 DEF SteadyInv
  <2>. QED
    BY <1>1, <1>2, <2>1, <2>2 DEF SteadyInv
<1>. QED
  BY <1>4, <1>5, <1>6, <1>7, <1>8

LEMMA EditKeeps ==
  ASSUME OwnInv, SteadyInv, Edit
  PROVE  OwnInv' /\ SteadyInv'
<1>1. PICK e \in Edition : file' \in Shown(e)
  BY DEF Edit
<1>2. file' \in Seq(Word) /\ PairsOwn(file')
  BY <1>1, ShownPairs
<1>3. UNCHANGED <<cfg, pc, text, cut>> /\ torn' = (torn \/ file' \notin Edition)
  BY DEF Edit, inspectors
<1>4. OwnInv'
  BY <1>2, <1>3 DEF OwnInv, OwnValue
<1>5. \A p \in Agreed : Settled(p)' = Settled(p)
  BY <1>3 DEF Settled
<1>6. ~torn' => file' \in Edition /\ ~torn
  BY <1>3
<1>7. SteadyInv'
  BY <1>3, <1>5, <1>6 DEF SteadyInv, Agreed
<1>. QED
  BY <1>4, <1>7

LEMMA AutoInit == Init => AutoInv
<1> SUFFICES ASSUME Init
             PROVE  AutoInv
  OBVIOUS
<1>1. /\ file \in Edition /\ cfg = [p \in Param |-> Default[p]] /\ ~torn
      /\ pc = [t \in Inspector |-> "new"] /\ text = [t \in Inspector |-> <<>>]
  BY DEF Init
<1>2. <<>> \in Seq(Word) /\ Len(<<>>) = 0 /\ 0 % 2 = 0 /\ DOMAIN <<>> = {}
  OBVIOUS
<1>3. PairsOwn(<<>>) /\ PairsWhole(<<>>)
  BY <1>2 DEF PairsOwn, PairsWhole, Odd
<1>4. file \in Seq(Word) /\ PairsOwn(file)
  BY <1>1, EditionPairs
<1>5. OwnValue
  BY <1>1 DEF OwnValue, Given
<1>. QED
  BY <1>1, <1>2, <1>3, <1>4, <1>5 DEF AutoInv, OwnInv, SteadyInv, States

LEMMA AutoNext == AutoInv /\ [Next]_vars => AutoInv'
<1> SUFFICES ASSUME OwnInv, SteadyInv, [Next]_vars
             PROVE  OwnInv' /\ SteadyInv'
  BY DEF AutoInv
<1>1. ASSUME NEW t \in Inspector,
             startInspect(t) \/ startInspectFails(t) \/ Inspecting(t)
      PROVE  OwnInv' /\ SteadyInv'
  BY <1>1, PassOwn, PassSteady, OthersOwn, OthersSteady DEF Inspecting
<1>2. CASE closeInspect \/ resetInspect \/ UNCHANGED vars
  <2>1. UNCHANGED <<file, cfg, pc, text, cut, torn>>
    BY <1>2 DEF closeInspect, resetInspect, vars, inspectors, history
  <2>. QED
    BY <2>1 DEF OwnInv, OwnValue, SteadyInv, Settled, Agreed
<1>3. CASE Edit
  BY <1>3, EditKeeps
<1>. QED
  BY <1>1, <1>2, <1>3 DEF Next

\* A parameter that was not last read as the last word of a half-written file
\* has a value of its own or the beginning of one, whatever was read when:
\* fscanf() never shifts a value to the name of another pair.
THEOREM OwnValues == Spec => []OwnValue
<1>1. AutoInv => OwnValue
  BY DEF AutoInv, OwnInv
<1>. QED
  BY <1>1, AutoInit, AutoNext, PTL DEF Spec

\* After the first pass a parameter that the editions agree on is not assigned
\* another value, whatever editions come and however the inspectors overlap,
\* as long as no half-written file was there: the bytes that handlers use
\* without a lock do not move.
THEOREM ReadsSteady == Spec => SteadyReads
<1>1. ASSUME AutoInv, AutoInv', [Next]_vars, InCalls, ~torn, NEW p \in Agreed
      PROVE  cfg'[p] = cfg[p]
  <2>1. PICK t \in Inspector : pc[t] \notin {"new", "first", "failed"}
    BY <1>1 DEF InCalls
  <2>2. pc[t] \in {"pass", "sleep", "open", "ended"}
    BY <1>1, <2>1 DEF AutoInv, OwnInv, States
  <2>3. Settled(p) /\ Edition # {}
    BY <1>1, <2>2 DEF AutoInv, SteadyInv
  <2>4. CASE torn' = torn
    <3>1. Settled(p)'
      <4>1. pc'[t] \in {"pass", "sleep", "open", "ended"}
        BY <1>1, <2>1, <2>2, <2>4
           DEF AutoInv, OwnInv, Next, startInspect, startInspectFails, Inspecting, Pass,
               PassEnd, Wake, Open, OpenFails, At, closeInspect, resetInspect, Edit, vars,
               inspectors
      <4>. QED
        BY <1>1, <2>4, <4>1 DEF AutoInv, SteadyInv, Agreed
    <3>. QED
      BY <2>3, <3>1 DEF Settled
  <2>5. CASE torn' # torn
    BY <1>1, <2>5
       DEF Next, startInspect, startInspectFails, Inspecting, Pass, PassEnd, Wake, Open,
           OpenFails, closeInspect, resetInspect, Edit, vars, history
  <2>. QED
    BY <2>4, <2>5
<1>2. AutoInv /\ AutoInv' /\ [Next]_vars =>
        [InCalls /\ ~torn => \A p \in Agreed : cfg'[p] = cfg[p]]_vars
  BY <1>1
<1>. QED
  BY <1>2, AutoInit, AutoNext, PTL DEF Spec, SteadyReads
=============================================================================
