-------------------------- MODULE DescriptorsProofs --------------------------
(***************************************************************************)
(* Proofs about Descriptors: what a process leaks, for any limit and any   *)
(* number of groups and rounds.                                            *)
(***************************************************************************)
EXTENDS Descriptors, TLAPS

-----------------------------------------------------------------------------
(* The functions *)

Fn == DOMAIN Steps

\* The descriptors a function holds before each of its steps and at its end,
\* as long as no open fails.
Level == [getAfpName |-> <<0, 1, 2, 0>>,
          movLogFile |-> <<0, 1, 0, 1, 2, 3, 1, 0>>,
          cntSrhNums |-> <<0, 1, 2, 3, 2, 0>>,
          fltLogFile |-> <<0, 1, 2, 3, 0>>,
          topAfpFile |-> <<0, 1, 2, 0>>,
          botAfpFile |-> <<0, 1, 2, 3, 0>>,
          movAfpFile |-> <<0, 1, 2, 1>>,
          movCntFile |-> <<0, 1, 2>>,
          groupList |-> <<0, 1>>,
          afpMove |-> <<0, 1, 2, 1>>,
          Afpmove |-> <<0, 1, 0>>,
          routing_fn |-> <<0, 1, 0>>]

\* What it leaves, and the most it holds.
Leak(fn) == CASE fn = "movCntFile" -> 2
              [] fn \in {"groupList", "afpMove", "movAfpFile"} -> 1
              [] OTHER -> 0
Most(fn) == CASE fn \in {"groupList", "Afpmove", "routing_fn"} -> 1
              [] fn \in {"getAfpName", "topAfpFile", "movAfpFile", "movCntFile", "afpMove"} -> 2
              [] OTHER -> 3

\* A step takes a function from one level to the next.
Levels(fn) ==
  /\ Len(Steps[fn]) \in Nat
  /\ Level[fn][1] = 0 /\ Level[fn][Len(Steps[fn]) + 1] = Leak(fn)
  /\ \A i \in 1..Len(Steps[fn]) :
       /\ Level[fn][i] \in 0..Most(fn) /\ Level[fn][i + 1] \in 0..Most(fn)
       /\ Steps[fn][i].op \in {"open", "try", "blind"} =>
            Level[fn][i + 1] = Level[fn][i] + 1 /\ Level[fn][i] < Most(fn)
       /\ Steps[fn][i].op = "close" => Level[fn][i + 1] = Level[fn][i] - Steps[fn][i].n

LEMMA FnNames ==
  Fn = {"getAfpName", "movLogFile", "cntSrhNums", "fltLogFile", "topAfpFile", "botAfpFile",
        "movAfpFile", "movCntFile", "groupList", "afpMove", "Afpmove", "routing_fn"}
BY DEF Fn, Steps

LEMMA FnLevels == \A fn \in Fn : Levels(fn)
<1> USE DEF Levels, Leak, Most, Open, Try, Blind, Close
<1>1. Levels("getAfpName")
  BY DEF Steps, Level, getAfpName
<1>2. Levels("movLogFile")
  BY DEF Steps, Level, movLogFile
<1>3. Levels("cntSrhNums")
  BY DEF Steps, Level, cntSrhNums
<1>4. Levels("fltLogFile")
  BY DEF Steps, Level, fltLogFile
<1>5. Levels("topAfpFile")
  BY DEF Steps, Level, topAfpFile
<1>6. Levels("botAfpFile")
  BY DEF Steps, Level, botAfpFile
<1>7. Levels("movAfpFile")
  BY DEF Steps, Level, movAfpFile
<1>8. Levels("movCntFile")
  BY DEF Steps, Level, movCntFile
<1>9. Levels("groupList")
  BY DEF Steps, Level, groupList
<1>10. Levels("afpMove")
  BY DEF Steps, Level, afpMove
<1>11. Levels("Afpmove")
  BY DEF Steps, Level, Afpmove
<1>12. Levels("routing_fn")
  BY DEF Steps, Level, routing_fn
<1> HIDE DEF Levels
<1>. QED
  BY <1>1, <1>2, <1>3, <1>4, <1>5, <1>6, <1>7, <1>8, <1>9, <1>10, <1>11, <1>12, FnNames

-----------------------------------------------------------------------------
(* The programs *)

LEMMA SummaryIs ==
  /\ Summary \in Seq(Fn) /\ Len(Summary) = 4
  /\ Summary[1] = "getAfpName" /\ Summary[2] = "movLogFile" /\ Summary[3] = "cntSrhNums"
  /\ Summary[4] = "fltLogFile"
BY FnNames DEF Summary

Joined(s, t, c) ==
  /\ c \in Seq(Fn) /\ Len(c) = Len(s) + Len(t)
  /\ \A i \in 1..Len(s) : c[i] = s[i]
  /\ \A i \in (Len(s) + 1)..(Len(s) + Len(t)) : c[i] = t[i - Len(s)]

LEMMA Concat == \A s, t \in Seq(Fn) : Joined(s, t, s \o t)
BY DEF Joined

LEMMA RunLoopIs ==
  /\ Groups \in Nat /\ runLoop \in Seq(Fn) /\ Len(runLoop) = 6 + 2 * Groups
  /\ runLoop[1] = "groupList" /\ runLoop[6] = "botAfpFile"
  /\ runLoop[2] = "getAfpName" /\ runLoop[3] = "movLogFile" /\ runLoop[4] = "cntSrhNums"
  /\ runLoop[5] = "fltLogFile"
  /\ \A i \in 7..(6 + 2 * Groups) :
       runLoop[i] = IF (i - 6) % 2 = 1 THEN "movCntFile" ELSE "afpMove"
<1> DEFINE head == <<"groupList">>
           last == <<"botAfpFile">>
           visits == [i \in 1..(2 * Groups) |-> IF i % 2 = 1 THEN "movCntFile" ELSE "afpMove"]
<1>1. Groups \in Nat /\ 2 * Groups \in Nat
  BY DescriptorsAssumption
<1>2. /\ head \in Seq(Fn) /\ Len(head) = 1 /\ head[1] = "groupList"
      /\ last \in Seq(Fn) /\ Len(last) = 1 /\ last[1] = "botAfpFile"
  BY FnNames
<1>3. visits \in Seq(Fn) /\ Len(visits) = 2 * Groups
  <2>1. visits \in [1..(2 * Groups) -> Fn]
    BY FnNames
  <2>. QED
    BY <1>1, <2>1
<1>4. \A i \in 1..(2 * Groups) : visits[i] = IF i % 2 = 1 THEN "movCntFile" ELSE "afpMove"
  OBVIOUS
<1> HIDE DEF head, last, visits
<1>5. PICK a \in Seq(Fn) : a = head \o Summary /\ Joined(head, Summary, a)
  BY <1>2, SummaryIs, Concat DEF Joined
<1>6. /\ Len(a) = 5 /\ a[1] = "groupList" /\ a[2] = "getAfpName" /\ a[3] = "movLogFile"
      /\ a[4] = "cntSrhNums" /\ a[5] = "fltLogFile"
  BY <1>2, <1>5, SummaryIs DEF Joined
<1>7. PICK b \in Seq(Fn) : b = a \o last /\ Joined(a, last, b)
  BY <1>2, <1>5, Concat DEF Joined
<1>8. /\ Len(b) = 6 /\ b[1] = "groupList" /\ b[2] = "getAfpName" /\ b[3] = "movLogFile"
      /\ b[4] = "cntSrhNums" /\ b[5] = "fltLogFile" /\ b[6] = "botAfpFile"
  BY <1>2, <1>6, <1>7 DEF Joined
<1>9. runLoop = b \o visits
  BY <1>5, <1>7 DEF runLoop, head, last, visits
<1>10. Joined(b, visits, runLoop)
  BY <1>3, <1>7, <1>9, Concat
<1>. QED
  BY <1>1, <1>3, <1>4, <1>8, <1>10 DEF Joined

LEMMA PreconfIs ==
  /\ Preconf \in Seq(Fn) /\ Len(Preconf) = 6 /\ \A i \in 1..4 : Preconf[i] = Summary[i]
  /\ Preconf[5] = "topAfpFile" /\ Preconf[6] = "movAfpFile"
<1> DEFINE last == <<"topAfpFile", "movAfpFile">>
<1>1. last \in Seq(Fn) /\ Len(last) = 2 /\ last[1] = "topAfpFile" /\ last[2] = "movAfpFile"
  BY FnNames
<1>2. Preconf = Summary \o last
  BY DEF Preconf
<1> HIDE DEF last
<1>3. Joined(Summary, last, Preconf)
  BY <1>1, <1>2, SummaryIs, Concat
<1>. QED
  BY <1>1, <1>3, SummaryIs DEF Joined

\* What a thread of this kind may need at a time.
Needs(t) == CASE t \in {"runLoop", "Preconf"} -> 3
              [] t = "runClient" -> 2
              [] OTHER -> 1

\* What the last n functions of its program leave: one after an even number of
\* a main cache's is the movCntFile of a visit, one after an odd number its afpMove.
Debt(t, n) == CASE t = "runLoop" -> IF n <= 2 * Groups THEN n + (n \div 2)
                                    ELSE IF n < 2 * Groups + 6 THEN 3 * Groups
                                    ELSE 3 * Groups + 1
                [] t \in {"Preconf", "runClient"} -> IF n = 0 THEN 0 ELSE 1
                [] OTHER -> 0

\* The n-th function from the end.
Nth(t, n) == Program(t)[Len(Program(t)) + 1 - n]

Pays(t) ==
  /\ Len(Program(t)) \in Nat /\ Debt(t, 0) = 0 /\ Debt(t, Len(Program(t))) = PerRound[t]
  /\ PerRound[t] \in Nat
  /\ \A n \in 1..Len(Program(t)) :
       /\ Nth(t, n) \in Fn /\ Most(Nth(t, n)) <= Needs(t)
       /\ Debt(t, n) \in Nat /\ Debt(t, n - 1) \in Nat
       /\ Debt(t, n) >= Leak(Nth(t, n)) + Debt(t, n - 1)
       /\ Nth(t, n) = "movCntFile" => n >= 2 /\ Debt(t, n) >= Debt(t, n - 2) /\ Debt(t, n - 2) \in Nat

LEMMA RunLoopPays == Pays("runLoop")
<1> DEFINE G == Groups
<1>1. /\ G \in Nat /\ Len(Program("runLoop")) = 6 + 2 * G
      /\ \A n \in 1..(6 + 2 * G) : Nth("runLoop", n) = runLoop[7 + 2 * G - n]
  BY RunLoopIs DEF Program, Nth
<1>2. PerRound["runLoop"] = 1 + 3 * G
  BY DEF PerRound, Thread
<1>3. \A n \in Nat : Debt("runLoop", n) = IF n <= 2 * G THEN n + (n \div 2)
                                         ELSE IF n < 2 * G + 6 THEN 3 * G ELSE 3 * G + 1
  BY DEF Debt
<1>4. /\ runLoop[1] = "groupList" /\ runLoop[6] = "botAfpFile"
      /\ runLoop[2] = "getAfpName" /\ runLoop[3] = "movLogFile" /\ runLoop[4] = "cntSrhNums"
      /\ runLoop[5] = "fltLogFile"
  BY RunLoopIs
<1>5. Debt("runLoop", 0) = 0 /\ Debt("runLoop", 6 + 2 * G) = PerRound["runLoop"]
  BY <1>1, <1>2, <1>3
<1>6. ASSUME NEW n \in 1..(6 + 2 * G)
      PROVE  /\ Nth("runLoop", n) \in Fn /\ Most(Nth("runLoop", n)) <= 3
             /\ Debt("runLoop", n) \in Nat /\ Debt("runLoop", n - 1) \in Nat
             /\ Debt("runLoop", n) >= Leak(Nth("runLoop", n)) + Debt("runLoop", n - 1)
             /\ Nth("runLoop", n) = "movCntFile" =>
                  /\ n >= 2 /\ Debt("runLoop", n) >= Debt("runLoop", n - 2)
                  /\ Debt("runLoop", n - 2) \in Nat
  <2>1. n \in Nat /\ n - 1 \in Nat /\ n >= 1
    BY <1>1
  <2>2. CASE n <= 2 * G
    <3>1. 7 + 2 * G - n \in 7..(6 + 2 * G) /\ (7 + 2 * G - n) - 6 = 2 * G + 1 - n
      BY <1>1, <2>1, <2>2
    <3>2. Nth("runLoop", n) = IF (2 * G + 1 - n) % 2 = 1 THEN "movCntFile" ELSE "afpMove"
      BY <1>1, <3>1, RunLoopIs
    <3>3. PICK m \in Nat : n = 2 * m \/ n = 2 * m + 1
      <4>1. n \div 2 \in Nat /\ (n = 2 * (n \div 2) \/ n = 2 * (n \div 2) + 1)
        BY <2>1
      <4>. QED
        BY <4>1
    <3>4. CASE n = 2 * m
      <4>1. m >= 1 /\ n \div 2 = m /\ (n - 1) \div 2 = m - 1 /\ (n - 2) \div 2 = m - 1
        BY <2>1, <3>3, <3>4
      <4>2. (2 * G + 1 - n) % 2 = 1
        BY <1>1, <2>2, <3>3, <3>4
      <4>3. Nth("runLoop", n) = "movCntFile" /\ n - 2 \in Nat
        BY <3>2, <3>3, <3>4, <4>1, <4>2
      <4>4. /\ Debt("runLoop", n) = 3 * m /\ Debt("runLoop", n - 1) = 3 * m - 2
            /\ Debt("runLoop", n - 2) = 3 * m - 3
        <5>1. /\ n \in Nat /\ n - 1 \in Nat /\ n - 2 \in Nat
              /\ n <= 2 * G /\ n - 1 <= 2 * G /\ n - 2 <= 2 * G
          BY <1>1, <2>1, <2>2, <4>3
        <5>2. /\ Debt("runLoop", n) = n + (n \div 2)
              /\ Debt("runLoop", n - 1) = (n - 1) + ((n - 1) \div 2)
              /\ Debt("runLoop", n - 2) = (n - 2) + ((n - 2) \div 2)
          BY <1>3, <5>1
        <5>. QED
          BY <3>3, <3>4, <4>1, <5>2
      <4>5. Leak("movCntFile") = 2 /\ Most("movCntFile") = 2 /\ "movCntFile" \in Fn
        BY FnNames DEF Leak, Most
      <4>. QED
        BY <3>3, <3>4, <4>1, <4>3, <4>4, <4>5
    <3>5. CASE n = 2 * m + 1
      <4>1. n \div 2 = m /\ (n - 1) \div 2 = m
        BY <2>1, <3>3, <3>5
      <4>2. (2 * G + 1 - n) % 2 = 0
        BY <1>1, <2>2, <3>3, <3>5
      <4>3. Nth("runLoop", n) = "afpMove"
        BY <3>2, <4>2
      <4>4. Debt("runLoop", n) = 3 * m + 1 /\ Debt("runLoop", n - 1) = 3 * m
        <5>1. n \in Nat /\ n - 1 \in Nat /\ n <= 2 * G /\ n - 1 <= 2 * G
          BY <1>1, <2>1, <2>2
        <5>2. /\ Debt("runLoop", n) = n + (n \div 2)
              /\ Debt("runLoop", n - 1) = (n - 1) + ((n - 1) \div 2)
          BY <1>3, <5>1
        <5>. QED
          BY <3>3, <3>5, <4>1, <5>2
      <4>5. Leak("afpMove") = 1 /\ Most("afpMove") = 2 /\ "afpMove" \in Fn
        BY FnNames DEF Leak, Most
      <4>. QED
        BY <3>3, <4>3, <4>4, <4>5
    <3>. QED
      BY <3>3, <3>4, <3>5
  <2>3. CASE n > 2 * G
    <3>1. PICK k \in 1..6 : k = 7 + 2 * G - n
      BY <1>1, <2>1, <2>3
    <3>2. Nth("runLoop", n) = runLoop[k]
      BY <1>1, <3>1
    <3>3. /\ runLoop[k] \in Fn /\ Most(runLoop[k]) <= 3 /\ runLoop[k] # "movCntFile"
          /\ Leak(runLoop[k]) = IF k = 1 THEN 1 ELSE 0
      BY <1>4, FnNames DEF Most, Leak
    <3>4. (2 * G) \div 2 = G
      BY <1>1
    <3>5. /\ Debt("runLoop", n) = IF k = 1 THEN 3 * G + 1 ELSE 3 * G
          /\ Debt("runLoop", n - 1) = 3 * G
      <4> DEFINE m == n - 1
      <4>1. /\ n \in Nat /\ m \in Nat /\ n > 2 * G /\ m < 2 * G + 6 /\ m >= 2 * G
            /\ (n < 2 * G + 6 <=> k # 1)
        BY <1>1, <2>1, <2>3, <3>1
      <4>2. Debt("runLoop", n) = IF k = 1 THEN 3 * G + 1 ELSE 3 * G
        BY <1>1, <1>3, <4>1
      <4> HIDE DEF m
      <4>3. Debt("runLoop", m) = IF m <= 2 * G THEN m + (m \div 2) ELSE 3 * G
        BY <1>1, <1>3, <4>1
      <4>4. m = 2 * G => m + (m \div 2) = 3 * G
        BY <1>1, <3>4
      <4>5. Debt("runLoop", m) = 3 * G
        BY <1>1, <4>1, <4>3, <4>4
      <4>. QED
        BY <4>2, <4>5 DEF m
    <3>. QED
      BY <1>1, <3>2, <3>3, <3>5
  <2>. QED
    BY <1>1, <2>1, <2>2, <2>3
<1>. QED
  BY <1>1, <1>2, <1>5, <1>6 DEF Pays, Needs

LEMMA OthersPay == \A t \in Thread \ {"runLoop"} : Pays(t)
<1>1. /\ PerRound["Preconf"] = 1 /\ PerRound["runClient"] = 1
      /\ PerRound["Afpmove"] = 0 /\ PerRound["routing_fn"] = 0
  BY DEF PerRound, Thread
<1>2. Pays("Preconf")
  <2>1. Program("Preconf") = Preconf
    BY DEF Program
  <2>2. \A n \in Nat : Debt("Preconf", n) = IF n = 0 THEN 0 ELSE 1
    BY DEF Debt
  <2>3. ASSUME NEW k \in 1..6
        PROVE  /\ Preconf[k] \in Fn /\ Most(Preconf[k]) <= 3 /\ Preconf[k] # "movCntFile"
               /\ Leak(Preconf[k]) = IF k = 6 THEN 1 ELSE 0
    BY PreconfIs, SummaryIs, FnNames DEF Most, Leak
  <2>4. ASSUME NEW n \in 1..6
        PROVE  /\ Nth("Preconf", n) \in Fn /\ Most(Nth("Preconf", n)) <= 3
               /\ Nth("Preconf", n) # "movCntFile"
               /\ Leak(Nth("Preconf", n)) = IF n = 1 THEN 1 ELSE 0
    <3>1. 7 - n \in 1..6 /\ (7 - n = 6 <=> n = 1) /\ 6 + 1 - n = 7 - n
      OBVIOUS
    <3>2. Nth("Preconf", n) = Preconf[7 - n]
      BY <2>1, <3>1, PreconfIs DEF Nth
    <3>. QED
      BY <2>3, <3>1, <3>2
  <2>5. Len(Program("Preconf")) = 6 /\ Needs("Preconf") = 3
    BY <2>1, PreconfIs DEF Needs
  <2>6. ASSUME NEW n \in 1..6
        PROVE  /\ Debt("Preconf", n) = 1
               /\ Debt("Preconf", n - 1) = IF n = 1 THEN 0 ELSE 1
    BY <2>2
  <2>7. Debt("Preconf", 0) = 0 /\ Debt("Preconf", 6) = 1
    BY <2>2
  <2>. QED
    <3>1. ASSUME NEW n \in 1..6
          PROVE  /\ Nth("Preconf", n) \in Fn /\ Most(Nth("Preconf", n)) <= Needs("Preconf")
                 /\ Debt("Preconf", n) \in Nat /\ Debt("Preconf", n - 1) \in Nat
                 /\ Debt("Preconf", n) >= Leak(Nth("Preconf", n)) + Debt("Preconf", n - 1)
                 /\ Nth("Preconf", n) # "movCntFile"
      BY <2>4, <2>5, <2>6
    <3>2. /\ Len(Program("Preconf")) \in Nat /\ Debt("Preconf", 0) = 0
          /\ Debt("Preconf", Len(Program("Preconf"))) = PerRound["Preconf"]
          /\ PerRound["Preconf"] \in Nat
      <4>1. 1 \in Nat /\ 6 \in Nat
        OBVIOUS
      <4>. QED
        BY <1>1, <2>5, <2>7, <4>1, Zenon
    <3>3. 1..Len(Program("Preconf")) = 1..6
      BY <2>5
    <3>. QED
      BY <3>1, <3>2, <3>3, Zenon DEF Pays
<1>3. ASSUME NEW t \in {"runClient", "Afpmove", "routing_fn"}
      PROVE  Pays(t)
  <2> DEFINE fn == IF t = "runClient" THEN "afpMove" ELSE t
             cost == IF t = "runClient" THEN 1 ELSE 0
  <2>1. Program(t) = <<fn>> /\ PerRound[t] = cost
    BY <1>1 DEF Program
  <2>2. Debt(t, 0) = 0 /\ Debt(t, 1) = cost
    BY DEF Debt
  <2>3. fn \in Fn /\ Most(fn) <= Needs(t) /\ Leak(fn) = cost /\ fn # "movCntFile" /\ cost \in Nat
    BY FnNames DEF Most, Leak, Needs
  <2> HIDE DEF fn, cost
  <2>4. Len(Program(t)) = 1 /\ Nth(t, 1) = fn
    BY <2>1 DEF Nth
  <2>5. \A n \in 1..Len(Program(t)) : n = 1
    BY <2>4
  <2>. QED
    BY <2>1, <2>2, <2>3, <2>4, <2>5 DEF Pays
<1>. QED
  BY <1>2, <1>3 DEF Thread

LEMMA ProgramType == \A t \in Thread : Program(t) \in Seq(Fn)
<1>1. Program("runLoop") \in Seq(Fn) /\ Program("Preconf") \in Seq(Fn)
  BY RunLoopIs, PreconfIs DEF Program
<1>2. ASSUME NEW t \in {"runClient", "Afpmove", "routing_fn"}
      PROVE  Program(t) \in Seq(Fn)
  <2> DEFINE fn == IF t = "runClient" THEN "afpMove" ELSE t
  <2>1. Program(t) = <<fn>> /\ fn \in Fn
    BY FnNames DEF Program
  <2> HIDE DEF fn
  <2>. QED
    BY <2>1
<1>. QED
  BY <1>1, <1>2 DEF Thread

LEMMA ProgramPays == \A t \in Thread : Pays(t)
BY RunLoopPays, OthersPay

-----------------------------------------------------------------------------
(* Sums over the threads *)

LEMMA TotalUpdate ==
  ASSUME NEW f \in [Thread -> Int], NEW t \in Thread, NEW v \in Int
  PROVE  Total([f EXCEPT ![t] = v]) = Total(f) - f[t] + v /\ Total(f) \in Int
BY DEF Total, Thread

LEMMA TotalMonotone ==
  ASSUME NEW f \in [Thread -> Int], NEW g \in [Thread -> Int], \A u \in Thread : f[u] <= g[u]
  PROVE  Total(f) <= Total(g) /\ \A t \in Thread : f[t] < g[t] => Total(f) < Total(g)
BY DEF Total, Thread

LEMMA TotalNat ==
  ASSUME NEW f \in [Thread -> Nat]
  PROVE  Total(f) \in Nat
BY DEF Total, Thread

-----------------------------------------------------------------------------
(* The invariant *)

\* Where thread t may be: with the functions q to call, at step a of the first,
\* holding h.
Fits(t, q, a, h) ==
  /\ Len(q) \in 0..Len(Program(t))
  /\ \A i \in 1..Len(q) : q[i] = Nth(t, Len(q) + 1 - i)
  /\ IF q = <<>> THEN a = 1 /\ h = 0
     ELSE a \in 1..(Len(Steps[Head(q)]) + 1) /\ h = Level[Head(q)][a]

Cost == [t \in Thread |-> rounds[t] * PerRound[t]]
Owed == [t \in Thread |-> Debt(t, Len(prog[t]))]

Kinds ==
  /\ server \in {"main", "group"} /\ starved \in BOOLEAN /\ rounds \in [Thread -> Nat]

\* As long as no open has failed: what is leaked, with what the functions still
\* to be called will leak, is within the rounds that were begun.
Works ==
  /\ leaked \in Nat /\ held \in [Thread -> Nat] /\ at \in [Thread -> Nat]
  /\ prog \in [Thread -> Seq(Fn)]
  /\ \A t \in Thread : Fits(t, prog[t], at[t], held[t]) /\ (t \notin Running => prog[t] = <<>>)
  /\ leaked + Total(Owed) <= Expected

LeakInv ==
  Kinds /\ IF starved THEN Expected + Total(Peak) > Limit ELSE Works

LEMMA CostType ==
  ASSUME Kinds
  PROVE  Cost \in [Thread -> Nat] /\ Expected = 2 + Total(Cost) /\ Expected \in Nat
<1>1. ASSUME NEW t \in Thread
      PROVE  rounds[t] * PerRound[t] \in Nat
  <2>1. rounds[t] \in Nat /\ PerRound[t] \in Nat
    BY ProgramPays DEF Kinds, Pays
  <2>. QED
    BY <2>1
<1>2. Cost \in [Thread -> Nat]
  BY <1>1 DEF Cost
<1>. QED
  BY <1>2, TotalNat DEF Expected, Cost

LEMMA PeakType ==
  /\ Peak \in [Thread -> Nat] /\ Total(Peak) \in Nat
  /\ \A t \in Running : t \in Thread /\ Peak[t] = Needs(t)
<1>1. Running \subseteq Thread
  BY DEF Running, Thread
<1>2. Peak \in [Thread -> Nat]
  BY DEF Peak
<1>. QED
  BY <1>1, <1>2, TotalNat DEF Peak, Needs

LEMMA OwedType ==
  ASSUME Works
  PROVE  Owed \in [Thread -> Nat] /\ Total(Owed) \in Nat
<1>1. ASSUME NEW t \in Thread
      PROVE  Debt(t, Len(prog[t])) \in Nat
  BY ProgramPays DEF Pays, Works, Fits
<1>. QED
  BY <1>1, TotalNat DEF Owed

\* What is known of a thread that is in a function.
LEMMA AtWork ==
  ASSUME Kinds, Works, NEW t \in Thread, prog[t] # <<>>
  PROVE  /\ Head(prog[t]) \in Fn /\ Head(prog[t]) = Nth(t, Len(prog[t]))
         /\ Len(prog[t]) \in 1..Len(Program(t)) /\ prog[t] \in Seq(Fn)
         /\ Most(Head(prog[t])) <= Peak[t] /\ Levels(Head(prog[t]))
         /\ Current(t) = Steps[Head(prog[t])]
         /\ at[t] \in 1..(Len(Current(t)) + 1) /\ held[t] = Level[Head(prog[t])][at[t]]
         /\ t \in Running
<1> DEFINE fn == Head(prog[t])
           n == Len(prog[t])
<1>1. Fits(t, prog[t], at[t], held[t]) /\ t \in Running /\ prog[t] \in Seq(Fn)
  BY DEF Works
<1>2. fn = prog[t][1] /\ n \in Nat /\ n >= 1
  BY <1>1
<1>3. n \in 1..Len(Program(t)) /\ fn = Nth(t, n)
  BY <1>1, <1>2, ProgramPays DEF Fits, Pays
<1>4. fn \in Fn /\ Most(fn) <= Peak[t]
  BY <1>1, <1>3, ProgramPays, PeakType DEF Pays
<1>. QED
  BY <1>1, <1>3, <1>4, FnLevels DEF Fits, Current

-----------------------------------------------------------------------------
(* The steps while no open has failed *)

\* One thread goes on to step a of the first function of q; what it leaves open
\* and still owes is within what the round allows.
LEMMA ThreadMoves ==
  ASSUME Kinds, Works, NEW t \in Running, NEW q \in Seq(Fn), NEW a \in Nat, NEW h \in Nat,
         NEW n \in Nat, NEW cost \in Nat, Fits(t, q, a, h),
         prog' = [prog EXCEPT ![t] = q], at' = [at EXCEPT ![t] = a],
         held' = [held EXCEPT ![t] = h], leaked' = leaked + n, server' = server,
         Expected' = Expected + cost,
         n + Debt(t, Len(q)) <= Debt(t, Len(prog[t])) + cost
  PROVE  Works'
<1>1. t \in Thread /\ leaked' \in Nat
  BY PeakType DEF Works
<1>2. held' \in [Thread -> Nat] /\ at' \in [Thread -> Nat] /\ prog' \in [Thread -> Seq(Fn)]
  BY DEF Works
<1>3. ASSUME NEW u \in Thread
      PROVE  Fits(u, prog'[u], at'[u], held'[u]) /\ (u \notin Running' => prog'[u] = <<>>)
  <2>1. Running' = Running
    BY DEF Running
  <2>2. CASE u = t
    BY <1>1, <2>1, <2>2 DEF Works
  <2>3. CASE u # t
    <3>1. prog'[u] = prog[u] /\ at'[u] = at[u] /\ held'[u] = held[u]
      BY <2>3 DEF Works
    <3>. QED
      BY <2>1, <3>1 DEF Works
  <2>. QED
    BY <2>2, <2>3
<1>4. leaked' + Total(Owed') <= Expected'
  <2>1. Debt(t, Len(q)) \in Nat
    BY <1>1, ProgramPays DEF Pays, Fits
  <2>2. Owed \in [Thread -> Nat] /\ Owed[t] = Debt(t, Len(prog[t]))
    BY <1>1, OwedType DEF Owed
  <2>3. Owed' = [Owed EXCEPT ![t] = Debt(t, Len(q))]
    BY <1>1 DEF Owed, Works
  <2>4. Total(Owed') = Total(Owed) - Owed[t] + Debt(t, Len(q)) /\ Total(Owed) \in Int
    <3> DEFINE debt == Debt(t, Len(q))
    <3>1. Owed \in [Thread -> Int] /\ debt \in Int
      BY <2>1, <2>2
    <3> HIDE DEF debt
    <3>2. Total([Owed EXCEPT ![t] = debt]) = Total(Owed) - Owed[t] + debt /\ Total(Owed) \in Int
      BY <1>1, <3>1, TotalUpdate
    <3>. QED
      BY <2>3, <3>2 DEF debt, Total
  <2>5. leaked + Total(Owed) <= Expected /\ leaked \in Nat /\ Expected \in Nat
    BY CostType DEF Works
  <2>6. Owed[t] \in Nat
    BY <1>1, <2>2
  <2> HIDE DEF Owed
  <2>. QED
    BY <2>1, <2>2, <2>4, <2>5, <2>6
<1>. QED
  BY <1>1, <1>2, <1>3, <1>4, Zenon DEF Works

LEMMA SameRounds ==
  ASSUME rounds' = rounds
  PROVE  Expected' = Expected
BY DEF Expected

LEMMA SamePeak ==
  ASSUME server' = server
  PROVE  Peak' = Peak
BY DEF Peak, Running

\* The rest of a program fits too.
LEMMA RestFits ==
  ASSUME NEW t \in Thread, NEW q \in Seq(Fn), q # <<>>,
         Len(q) \in 0..Len(Program(t)), \A i \in 1..Len(q) : q[i] = Nth(t, Len(q) + 1 - i)
  PROVE  /\ Fits(t, Tail(q), 1, 0) /\ Tail(q) \in Seq(Fn) /\ Len(Tail(q)) = Len(q) - 1
         /\ Fits(t, <<>>, 1, 0) /\ <<>> \in Seq(Fn) /\ Len(<<>>) = 0
         /\ Len(Tail(q)) \in 0..Len(Program(t))
         /\ \A i \in 1..Len(Tail(q)) : Tail(q)[i] = Nth(t, Len(Tail(q)) + 1 - i)
<1> DEFINE r == Tail(q)
           n == Len(q)
           m == Len(Program(t))
<1>1. m \in Nat /\ n \in 1..m /\ r \in Seq(Fn) /\ Len(r) = n - 1
  BY ProgramPays DEF Pays
<1>2. \A i \in 1..(n - 1) : r[i] = q[i + 1]
  BY <1>1
<1>3. \A i \in 1..(n - 1) : r[i] = Nth(t, n - i)
  <2>1. TAKE i \in 1..(n - 1)
  <2>2. i + 1 \in 1..n /\ n + 1 - (i + 1) = n - i
    <3>1. n \in Nat
      BY <1>1
    <3> HIDE DEF n
    <3>. QED
      BY <3>1
  <2>3. q[i + 1] = Nth(t, n + 1 - (i + 1))
    BY <2>2
  <2>. QED
    BY <1>2, <2>2, <2>3
<1>4. /\ Len(r) \in 0..m
      /\ \A i \in 1..Len(r) : r[i] = Nth(t, Len(r) + 1 - i)
  <2>1. ASSUME NEW i \in 1..Len(r)
        PROVE  r[i] = Nth(t, Len(r) + 1 - i)
    <3>1. i \in 1..(n - 1) /\ Len(r) + 1 - i = n - i
      BY <1>1
    <3>. QED
      BY <1>3, <3>1
  <2>. QED
    BY <1>1, <2>1
<1>5. r # <<>> => Head(r) \in Fn /\ Levels(Head(r))
  BY <1>1, FnLevels
<1>6. IF r = <<>> THEN TRUE
      ELSE 1 \in 1..(Len(Steps[Head(r)]) + 1) /\ Level[Head(r)][1] = 0
  BY <1>5 DEF Levels
<1>7. Fits(t, r, 1, 0)
  BY <1>4, <1>6 DEF Fits
<1>8. Fits(t, <<>>, 1, 0) /\ <<>> \in Seq(Fn) /\ Len(<<>>) = 0
  BY <1>1 DEF Fits
<1>. QED
  BY <1>1, <1>4, <1>7, <1>8

LEMMA StepKeeps ==
  ASSUME Kinds, Works, NEW t \in Thread, Opens(t) \/ Closes(t)
  PROVE  Works'
<1> DEFINE fn == Head(prog[t])
           i == at[t]
           h == Level[fn][i + 1]
<1>1. prog[t] # <<>> /\ i <= Len(Current(t))
  BY DEF Opens, Closes, Stepping
<1>2. /\ Levels(fn) /\ Current(t) = Steps[fn] /\ i \in 1..(Len(Current(t)) + 1)
      /\ held[t] = Level[fn][i] /\ t \in Running /\ prog[t] \in Seq(Fn) /\ Most(fn) \in Nat
  BY <1>1, AtWork DEF Most
<1>3. i \in 1..Len(Steps[fn]) /\ i + 1 \in 1..(Len(Steps[fn]) + 1) /\ i + 1 \in Nat
  BY <1>1, <1>2 DEF Levels
<1>4. h \in Nat /\ held' = [held EXCEPT ![t] = h]
  <2>1. h \in Nat
    BY <1>2, <1>3 DEF Levels
  <2>2. CASE Opens(t)
    <3>1. Steps[fn][i].op \in {"open", "try", "blind"}
      BY <1>2, <2>2 DEF Opens, Stepping
    <3>2. h = held[t] + 1
      BY <1>2, <1>3, <3>1 DEF Levels
    <3>. QED
      BY <2>1, <2>2, <3>2 DEF Opens, Hold
  <2>3. CASE Closes(t)
    <3>1. Steps[fn][i].op = "close"
      BY <1>2, <2>3 DEF Closes, Stepping
    <3>2. h = held[t] - Steps[fn][i].n
      BY <1>2, <1>3, <3>1 DEF Levels
    <3>. QED
      BY <1>2, <2>1, <2>3, <3>2 DEF Closes, Hold
  <2>. QED
    BY <2>2, <2>3
<1>5. /\ at' = [at EXCEPT ![t] = i + 1] /\ prog' = prog /\ leaked' = leaked
      /\ server' = server /\ rounds' = rounds
  BY DEF Opens, Closes, Goto
<1>6. Fits(t, prog[t], i + 1, h)
  BY <1>1, <1>3 DEF Works, Fits
<1>7. /\ prog' = [prog EXCEPT ![t] = prog[t]] /\ leaked' = leaked + 0
      /\ Expected' = Expected + 0
  BY <1>5, SameRounds, CostType DEF Works
<1>8. 0 + Debt(t, Len(prog[t])) <= Debt(t, Len(prog[t])) + 0
  <2>1. Debt(t, Len(prog[t])) \in Nat
    BY ProgramPays DEF Pays, Works, Fits
  <2>. QED
    BY <2>1
<1> HIDE DEF h, i
<1>9. 0 \in Nat
  OBVIOUS
<1>10. i + 1 \in Nat
  BY <1>3
<1>. QED
  BY <1>2, <1>4, <1>5, <1>6, <1>7, <1>8, <1>9, <1>10, ThreadMoves, Zenon

LEMMA ReturnKeeps ==
  ASSUME Kinds, Works, NEW t \in Thread, Returns(t)
  PROVE  Works'
<1> DEFINE fn == Head(prog[t])
           n == Len(prog[t])
<1>1. prog[t] # <<>> /\ at[t] > Len(Current(t))
  BY DEF Returns
<1>2. /\ Levels(fn) /\ Current(t) = Steps[fn] /\ at[t] \in 1..(Len(Steps[fn]) + 1)
      /\ held[t] = Level[fn][at[t]] /\ t \in Running /\ prog[t] \in Seq(Fn)
      /\ n \in 1..Len(Program(t)) /\ fn = Nth(t, n)
  BY <1>1, AtWork
<1>3. held[t] = Leak(fn) /\ Leak(fn) \in Nat
  <2>1. at[t] = Len(Steps[fn]) + 1
    BY <1>1, <1>2 DEF Levels
  <2>. QED
    BY <1>2, <2>1 DEF Levels, Leak
<1>4. PICK q \in {Tail(prog[t]), <<>>} : Leave(t, held[t], q)
  BY DEF Returns
<1>5. /\ Debt(t, n) \in Nat /\ Debt(t, n - 1) \in Nat /\ Debt(t, 0) = 0
      /\ Debt(t, n) >= Leak(fn) + Debt(t, n - 1)
  BY <1>2, ProgramPays DEF Pays
<1>6. Fits(t, q, 1, 0) /\ q \in Seq(Fn) /\ Len(q) \in {n - 1, 0}
  <2>1. /\ n \in 0..Len(Program(t))
        /\ \A i \in 1..n : prog[t][i] = Nth(t, n + 1 - i)
    BY DEF Works, Fits
  <2>2. /\ Fits(t, Tail(prog[t]), 1, 0) /\ Tail(prog[t]) \in Seq(Fn)
        /\ Len(Tail(prog[t])) = n - 1
        /\ Fits(t, <<>>, 1, 0) /\ <<>> \in Seq(Fn) /\ Len(<<>>) = 0
    BY <1>1, <1>2, <2>1, RestFits
  <2>. QED
    BY <1>4, <2>2, Zenon
<1>7. held[t] + Debt(t, Len(q)) <= Debt(t, n) + 0
  BY <1>3, <1>5, <1>6
<1>8. /\ prog' = [prog EXCEPT ![t] = q] /\ at' = [at EXCEPT ![t] = 1]
      /\ held' = [held EXCEPT ![t] = 0] /\ leaked' = leaked + held[t]
      /\ server' = server /\ rounds' = rounds
  BY <1>4 DEF Returns, Leave, Hold, Goto
<1>9. Expected' = Expected + 0
  BY <1>8, SameRounds, CostType
<1>10. 0 \in Nat /\ 1 \in Nat /\ held[t] \in Nat
  BY <1>3
<1>. QED
  BY <1>2, <1>6, <1>7, <1>8, <1>9, <1>10, ThreadMoves, Zenon

LEMMA NoVisitKeeps ==
  ASSUME Kinds, Works, NEW t \in Thread, NoVisit(t)
  PROVE  Works'
<1> DEFINE q == prog[t]
           n == Len(q)
           r == Tail(q)
<1>1. /\ q # <<>> /\ Head(q) = "movCntFile" /\ at[t] = 1
      /\ prog' = [prog EXCEPT ![t] = Tail(r)] /\ UNCHANGED <<server, leaked, held, at, rounds>>
  BY DEF NoVisit
<1>2. /\ Levels("movCntFile") /\ held[t] = Level["movCntFile"][1] /\ t \in Running
      /\ q \in Seq(Fn) /\ n \in 1..Len(Program(t)) /\ Nth(t, n) = "movCntFile"
  BY <1>1, AtWork
<1>3. held[t] = 0
  BY <1>2 DEF Levels
<1>4. /\ n >= 2 /\ Debt(t, n) >= Debt(t, n - 2) /\ Debt(t, n - 2) \in Nat /\ Debt(t, n) \in Nat
  BY <1>2, ProgramPays DEF Pays
<1>5. /\ r \in Seq(Fn) /\ Len(r) = n - 1 /\ Len(r) \in 0..Len(Program(t))
      /\ \A i \in 1..Len(r) : r[i] = Nth(t, Len(r) + 1 - i)
  BY <1>1, <1>2, RestFits DEF Works, Fits
<1>6. r # <<>>
  <2>1. n \in Nat /\ Len(r) >= 1
    BY <1>2, <1>4, <1>5
  <2> HIDE DEF r
  <2>. QED
    BY <2>1
<1>7. Fits(t, Tail(r), 1, 0) /\ Tail(r) \in Seq(Fn) /\ Len(Tail(r)) = Len(r) - 1
  BY <1>5, <1>6, RestFits
<1>8. Len(Tail(r)) = n - 2
  BY <1>2, <1>5, <1>7
<1>9. /\ at' = [at EXCEPT ![t] = 1] /\ held' = [held EXCEPT ![t] = 0]
      /\ leaked' = leaked + 0 /\ Expected' = Expected + 0
  BY <1>1, <1>3, SameRounds, CostType DEF Works
<1>10. 0 + Debt(t, Len(Tail(r))) <= Debt(t, Len(prog[t])) + 0
  BY <1>4, <1>8
<1>11. 0 \in Nat /\ 1 \in Nat
  OBVIOUS
<1>. QED
  BY <1>1, <1>2, <1>7, <1>9, <1>10, <1>11, ThreadMoves, Zenon

LEMMA BeginCosts ==
  ASSUME Kinds, NEW t \in Thread, Begin(t)
  PROVE  Expected' = Expected + PerRound[t] /\ PerRound[t] \in Nat /\ Kinds'
<1> DEFINE p == PerRound[t]
           r == rounds[t]
<1>1. /\ rounds' = [rounds EXCEPT ![t] = r + 1] /\ server' = server /\ starved' = starved
  BY DEF Begin
<1>2. p \in Nat /\ r \in Nat
  BY ProgramPays DEF Pays, Kinds
<1>3. Kinds'
  <2>1. r + 1 \in Nat
    BY <1>2
  <2> HIDE DEF r
  <2>. QED
    BY <1>1, <2>1 DEF Kinds
<1>4. Cost' = [Cost EXCEPT ![t] = r * p + p]
  <2>1. (r + 1) * p = r * p + p
    <3> HIDE DEF p, r
    <3>. QED
      BY <1>2
  <2>2. ASSUME NEW u \in Thread
        PROVE  rounds'[u] * PerRound[u] = [Cost EXCEPT ![t] = r * p + p][u]
    BY <1>1, <2>1 DEF Cost, Kinds
  <2>. QED
    BY <2>2 DEF Cost
<1>5. Cost \in [Thread -> Nat] /\ Expected = 2 + Total(Cost) /\ Cost[t] = r * p
  BY CostType DEF Cost
<1>6. Expected' = 2 + Total(Cost')
  BY <1>3 DEF Expected, Cost, Total
<1> DEFINE c == r * p
<1>7. c \in Nat
  BY <1>5
<1> HIDE DEF c, r, p, Cost
<1>8. Total([Cost EXCEPT ![t] = c + p]) = Total(Cost) - Cost[t] + (c + p) /\ Total(Cost) \in Int
  <2>1. Cost \in [Thread -> Int] /\ c + p \in Int
    BY <1>2, <1>5, <1>7
  <2>. QED
    BY <2>1, TotalUpdate
<1>9. Total(Cost') = Total([Cost EXCEPT ![t] = c + p])
  BY <1>4 DEF c, Total
<1>10. Cost[t] = c
  BY <1>5 DEF c
<1>11. Expected' = Expected + p
  BY <1>2, <1>5, <1>6, <1>7, <1>8, <1>9, <1>10
<1>. QED
  BY <1>2, <1>3, <1>11 DEF p

LEMMA BeginKeeps ==
  ASSUME Kinds, Works, NEW t \in Thread, Begin(t)
  PROVE  Works'
<1> DEFINE q == Program(t)
<1>1. /\ t \in Running /\ prog[t] = <<>> /\ prog' = [prog EXCEPT ![t] = q]
      /\ UNCHANGED <<server, leaked, held, at>>
  BY DEF Begin
<1>2. at[t] = 1 /\ held[t] = 0
  BY <1>1 DEF Works, Fits
<1>3. q \in Seq(Fn)
  BY ProgramType
<1>4. Fits(t, q, 1, 0)
  <2> DEFINE m == Len(q)
  <2>1. m \in Nat
    BY <1>3
  <2>2. ASSUME NEW i \in 1..m
        PROVE  q[i] = Nth(t, m + 1 - i)
    <3>1. m + 1 - (m + 1 - i) = i
      <4> HIDE DEF m
      <4>. QED
        BY <2>1
    <3>. QED
      BY <3>1 DEF Nth
  <2>3. q # <<>> => 1 \in 1..(Len(Steps[Head(q)]) + 1) /\ Level[Head(q)][1] = 0
    BY <1>3, FnLevels DEF Levels
  <2>4. m \in 0..m
    <3> HIDE DEF m
    <3>. QED
      BY <2>1
  <2>. QED
    BY <2>2, <2>3, <2>4 DEF Fits
<1>5. /\ at' = [at EXCEPT ![t] = 1] /\ held' = [held EXCEPT ![t] = 0] /\ leaked' = leaked + 0
  BY <1>1, <1>2 DEF Works
<1>6. 0 + Debt(t, Len(q)) <= Debt(t, Len(prog[t])) + PerRound[t]
  BY <1>1, ProgramPays DEF Pays
<1>7. 0 \in Nat /\ 1 \in Nat
  OBVIOUS
<1>. QED
  <2>1. server' = server /\ prog' = [prog EXCEPT ![t] = q]
    BY <1>1
  <2>2. Expected' = Expected + PerRound[t] /\ PerRound[t] \in Nat
    BY BeginCosts
  <2> HIDE DEF q
  <2>. QED
    BY <1>1, <1>3, <1>4, <1>5, <1>6, <1>7, <2>1, <2>2, ThreadMoves, Zenon

-----------------------------------------------------------------------------
(* The first open that fails *)

LEMMA HeldWithinPeak ==
  ASSUME Kinds, Works, NEW t \in Thread
  PROVE  held[t] <= Peak[t]
<1>1. CASE prog[t] = <<>>
  BY <1>1, PeakType DEF Works, Fits
<1>2. CASE prog[t] # <<>>
  <2> DEFINE fn == Head(prog[t])
             k == Len(Steps[fn])
             i == at[t]
  <2>1. /\ Levels(fn) /\ i \in 1..(k + 1) /\ held[t] = Level[fn][i] /\ Most(fn) <= Peak[t]
        /\ Most(fn) \in Nat /\ k \in Nat
    BY <1>2, AtWork DEF Levels, Most
  <2>2. CASE i \in 1..k
    BY <2>1, <2>2, PeakType DEF Levels
  <2>3. CASE i = k + 1 /\ k \in 1..k
    <3>1. Level[fn][k + 1] \in 0..Most(fn)
      BY <2>1, <2>3 DEF Levels
    <3>. QED
      BY <2>1, <2>3, <3>1, PeakType
  <2>4. CASE i = 1
    BY <2>1, <2>4, PeakType DEF Levels
  <2>5. i \in 1..k \/ (i = k + 1 /\ k \in 1..k) \/ i = 1
    <3> HIDE DEF k, i
    <3>. QED
      BY <2>1
  <2>. QED
    BY <2>2, <2>3, <2>4, <2>5
<1>. QED
  BY <1>1, <1>2

LEMMA Starves ==
  ASSUME Kinds, Works, NEW t \in Thread, Stepping(t, {"open", "try"}), ~Room
  PROVE  Expected + Total(Peak) > Limit
<1> DEFINE fn == Head(prog[t])
           i == at[t]
<1>1. held[t] < Peak[t]
  <2>1. /\ prog[t] # <<>> /\ i <= Len(Current(t)) /\ Current(t)[i].op \in {"open", "try"}
    BY DEF Stepping
  <2>2. /\ Levels(fn) /\ Current(t) = Steps[fn] /\ i \in 1..(Len(Steps[fn]) + 1)
        /\ held[t] = Level[fn][i] /\ Most(fn) <= Peak[t] /\ Most(fn) \in Nat
    BY <2>1, AtWork DEF Most
  <2>3. i \in 1..Len(Steps[fn]) /\ Steps[fn][i].op \in {"open", "try", "blind"}
    BY <2>1, <2>2 DEF Levels
  <2>4. Level[fn][i] \in 0..Most(fn) /\ Level[fn][i] < Most(fn)
    BY <2>2, <2>3 DEF Levels
  <2>. QED
    BY <2>2, <2>4, PeakType
<1>2. held \in [Thread -> Int] /\ Peak \in [Thread -> Int]
  BY PeakType DEF Works
<1>3. \A u \in Thread : held[u] <= Peak[u]
  BY HeldWithinPeak
<1>4. Total(held) < Total(Peak)
  BY <1>1, <1>2, <1>3, TotalMonotone
<1>5. Total(held) \in Nat
  BY TotalNat DEF Works
<1>6. leaked \in Nat /\ leaked <= Expected /\ Expected \in Nat
  BY OwedType, CostType DEF Works
<1>7. leaked + Total(held) >= Limit
  BY <1>5, <1>6, DescriptorsAssumption DEF Room
<1>8. Limit \in Nat /\ Total(Peak) \in Nat
  BY PeakType, DescriptorsAssumption
<1>. QED
  BY <1>4, <1>5, <1>6, <1>7, <1>8

-----------------------------------------------------------------------------
(* The theorem *)

\* The start of a process, the first one or the next.
Started ==
  /\ server \in {"main", "group"} /\ leaked = 2 /\ held = [t \in Thread |-> 0]
  /\ prog = [t \in Thread |-> <<>>] /\ at = [t \in Thread |-> 1]
  /\ rounds = [t \in Thread |-> 0] /\ starved = FALSE

LEMMA Fresh == Started => LeakInv
<1> SUFFICES ASSUME Started
             PROVE  LeakInv
  OBVIOUS
<1> USE DEF Started
<1>1. Kinds
  BY DEF Kinds
<1>2. ASSUME NEW t \in Thread
      PROVE  Fits(t, prog[t], at[t], held[t])
  BY ProgramPays DEF Fits, Pays
<1>3. Total(Owed) = 0
  <2>1. \A t \in Thread : Owed[t] = 0
    BY ProgramPays DEF Owed, Pays
  <2>. QED
    BY <2>1 DEF Total, Thread
<1>4. Expected = 2 + Total(Cost) /\ Total(Cost) = 0
  <2>1. ASSUME NEW t \in Thread
        PROVE  Cost[t] = 0
    <3>1. PerRound[t] \in Nat
      BY ProgramPays DEF Pays
    <3>. QED
      BY <3>1 DEF Cost
  <2>2. Total(Cost) = 0
    BY <2>1 DEF Total, Thread
  <2>. QED
    BY <1>1, <2>2, CostType
<1>5. leaked + Total(Owed) <= Expected
  BY <1>3, <1>4
<1>6. /\ held \in [Thread -> Nat] /\ at \in [Thread -> Nat] /\ prog \in [Thread -> Seq(Fn)]
      /\ leaked \in Nat /\ \A t \in Thread : prog[t] = <<>>
  OBVIOUS
<1>7. Works
  BY <1>2, <1>5, <1>6 DEF Works
<1>. QED
  BY <1>1, <1>7 DEF LeakInv

LEMMA LeakInit == Init => LeakInv
BY Fresh DEF Init, Started

LEMMA CrashFresh ==
  ASSUME Kinds, NEW t \in Thread, BlindFails(t)
  PROVE  LeakInv'
<1>1. Started'
  BY DEF BlindFails, Kinds, Started
<1>. QED
  BY <1>1, Fresh, PTL

LEMMA LeakNext == LeakInv /\ [Next]_vars => LeakInv'
<1> SUFFICES ASSUME LeakInv, [Next]_vars
             PROVE  LeakInv'
  OBVIOUS
<1>1. Kinds
  BY DEF LeakInv
<1>2. CASE UNCHANGED vars
  <2>1. /\ server' = server /\ leaked' = leaked /\ held' = held /\ prog' = prog /\ at' = at
        /\ rounds' = rounds /\ starved' = starved
    BY <1>2 DEF vars
  <2>2. Kinds' /\ Expected' = Expected /\ Peak' = Peak /\ (Works => Works')
    <3>1. Expected' = Expected /\ Peak' = Peak
      BY <2>1, SameRounds, SamePeak
    <3>2. Kinds'
      BY <1>1, <2>1 DEF Kinds
    <3>3. Works => Works'
      BY <2>1, <3>1 DEF Works, Owed, Fits, Running, Total
    <3>. QED
      BY <3>1, <3>2, <3>3
  <2>. QED
    BY <2>1, <2>2 DEF LeakInv, Total
<1>3. ASSUME NEW t \in Thread, Begin(t)
      PROVE  LeakInv'
  <2>1. starved' = starved /\ server' = server
    BY <1>3 DEF Begin
  <2>2. Expected' >= Expected /\ Peak' = Peak /\ Kinds'
    BY <1>1, <1>3, <2>1, BeginCosts, CostType, SamePeak
  <2>3. CASE starved
    <3>1. Expected + Total(Peak) > Limit /\ Expected \in Nat /\ Total(Peak) \in Nat
      BY <1>1, <2>3, CostType, PeakType DEF LeakInv
    <3>2. Expected' + Total(Peak') > Limit
      <4>1. Expected' \in Nat /\ Limit \in Nat
        BY <1>1, <1>3, <3>1, BeginCosts, DescriptorsAssumption
      <4>2. Total(Peak') = Total(Peak)
        BY <2>2
      <4>. QED
        BY <2>2, <3>1, <4>1, <4>2
    <3>. QED
      BY <2>1, <2>2, <2>3, <3>2 DEF LeakInv, Total
  <2>4. CASE ~starved
    <3>1. Works'
      BY <1>1, <1>3, <2>4, BeginKeeps DEF LeakInv
    <3>. QED
      BY <2>1, <2>2, <2>4, <3>1 DEF LeakInv
  <2>. QED
    BY <2>3, <2>4
<1>4. ASSUME NEW t \in Thread, BlindFails(t)
      PROVE  LeakInv'
  BY <1>1, <1>4, CrashFresh
<1>5. ASSUME NEW t \in Thread,
             Opens(t) \/ Closes(t) \/ Returns(t) \/ OpenFails(t) \/ TryFails(t) \/ NoVisit(t)
      PROVE  LeakInv'
  <2>1. server' = server /\ rounds' = rounds
    BY <1>5 DEF Opens, Closes, Returns, OpenFails, TryFails, NoVisit
  <2>2. Expected' = Expected /\ Peak' = Peak /\ Total(Peak') = Total(Peak)
    BY <2>1, SameRounds, SamePeak
  <2>3. starved' \in {starved, TRUE}
    BY <1>5 DEF Opens, Closes, Returns, OpenFails, TryFails, NoVisit
  <2>4. Kinds'
    BY <1>1, <2>1, <2>3 DEF Kinds
  <2>5. starved' => Expected + Total(Peak) > Limit
    <3>1. CASE starved
      BY <3>1 DEF LeakInv
    <3>2. CASE ~starved /\ (OpenFails(t) \/ TryFails(t))
      <4>1. Works
        BY <3>2 DEF LeakInv
      <4>2. Stepping(t, {"open", "try"}) /\ ~Room
        BY <3>2 DEF OpenFails, TryFails, Stepping
      <4>. QED
        BY <1>1, <4>1, <4>2, Starves
    <3>3. CASE ~starved /\ (Opens(t) \/ Closes(t) \/ Returns(t) \/ NoVisit(t))
      BY <3>3 DEF Opens, Closes, Returns, NoVisit
    <3>. QED
      BY <1>5, <3>1, <3>2, <3>3
  <2>6. ~starved' => Works'
    <3>1. ASSUME ~starved'
          PROVE  Works'
      <4>1. ~starved /\ (Opens(t) \/ Closes(t) \/ Returns(t) \/ NoVisit(t))
        BY <1>5, <3>1 DEF Opens, Closes, Returns, OpenFails, TryFails, NoVisit
      <4>2. Works
        BY <4>1 DEF LeakInv
      <4>. QED
        BY <1>1, <4>1, <4>2, StepKeeps, ReturnKeeps, NoVisitKeeps
    <3>. QED
      BY <3>1
  <2>. QED
    BY <2>2, <2>4, <2>5, <2>6 DEF LeakInv
<1>. QED
  BY <1>2, <1>3, <1>4, <1>5 DEF Next

\* A process leaks no more than is known, and no open fails before that has
\* used up its descriptors.
THEOREM OnlyKnownLeaks == Spec => []KnownLeaks
<1>1. LeakInv => KnownLeaks
  <2>1. ASSUME LeakInv, ~starved
        PROVE  leaked <= Expected
    <3>1. Kinds /\ Works
      BY <2>1 DEF LeakInv
    <3>. QED
      BY <3>1, OwedType, CostType DEF Works
  <2>. QED
    BY <2>1 DEF LeakInv, KnownLeaks
<1>. QED
  BY LeakInit, LeakNext, <1>1, PTL DEF Spec
=============================================================================
