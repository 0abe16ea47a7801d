---------------------------- MODULE RunLogsProofs ----------------------------
(***************************************************************************)
(* Proofs about RunLogs, for any queries, clock and failures.              *)
(***************************************************************************)
EXTENDS RunLogs, TLAPS, FiniteSetTheorems

\* Reading what Put and Without build.
LEMMA PutDomain ==
  ASSUME NEW dir, NEW n, NEW S
  PROVE  DOMAIN Put(dir, n, S) = DOMAIN dir \cup {n}
BY DEF Put

LEMMA PutNew ==
  ASSUME NEW dir, NEW n, NEW S
  PROVE  Put(dir, n, S)[n] = S
BY DEF Put

LEMMA PutOld ==
  ASSUME NEW dir, NEW n, NEW S, NEW m \in DOMAIN dir, m # n
  PROVE  Put(dir, n, S)[m] = dir[m]
BY DEF Put

LEMMA WithoutDomain ==
  ASSUME NEW dir, NEW N
  PROVE  DOMAIN Without(dir, N) = DOMAIN dir \ N
BY DEF Without, Restrict

LEMMA WithoutOld ==
  ASSUME NEW dir, NEW N, NEW m \in DOMAIN dir \ N
  PROVE  Without(dir, N)[m] = dir[m]
BY DEF Without, Restrict

LEMMA LinesFacts ==
  ASSUME NEW dir, NEW q
  PROVE  q \in Lines(dir) <=> \E n \in DOMAIN dir : q \in dir[n]
BY DEF Lines

\* What the steps do to the queries a directory holds.
LEMMA PutLines ==
  ASSUME NEW dir, NEW n, NEW S, NEW q
  PROVE  /\ q \in Lines(Put(dir, n, S)) => q \in Lines(dir) \/ q \in S
         /\ q \in S => q \in Lines(Put(dir, n, S))
<1> DEFINE new == Put(dir, n, S)
<1>1. DOMAIN new = DOMAIN dir \cup {n}
  BY PutDomain
<1>2. new[n] = S
  BY PutNew
<1>3. \A m \in DOMAIN dir : m # n => new[m] = dir[m]
  BY PutOld
<1>4. q \in Lines(new) <=> \E m \in DOMAIN new : q \in new[m]
  BY LinesFacts
<1>5. q \in Lines(dir) <=> \E m \in DOMAIN dir : q \in dir[m]
  BY LinesFacts
<1> HIDE DEF new
<1>6. (q \in Lines(new) => q \in Lines(dir) \/ q \in S) /\ (q \in S => q \in Lines(new))
  BY <1>1, <1>2, <1>3, <1>4, <1>5
<1>. QED
  BY <1>6 DEF new

LEMMA WithoutLines ==
  ASSUME NEW dir, NEW N, NEW q, q \in Lines(Without(dir, N))
  PROVE  q \in Lines(dir)
<1>1. PICK m \in DOMAIN Without(dir, N) : q \in Without(dir, N)[m]
  BY LinesFacts
<1>2. m \in DOMAIN dir \ N
  BY WithoutDomain
<1>3. q \in dir[m]
  BY <1>1, <1>2, WithoutOld
<1>. QED
  BY <1>2, <1>3, LinesFacts

\* The types of a directory after one of the two.
LEMMA PutType ==
  ASSUME NEW dir, NEW n \in Names, NEW S, NEW Q,
         DOMAIN dir \subseteq Names, Lines(dir) \subseteq Q, S \subseteq Q
  PROVE  DOMAIN Put(dir, n, S) \subseteq Names /\ Lines(Put(dir, n, S)) \subseteq Q
<1>1. DOMAIN Put(dir, n, S) \subseteq Names
  <2>1. DOMAIN Put(dir, n, S) = DOMAIN dir \cup {n}
    BY PutDomain
  <2>. QED
    BY <2>1
<1>2. Lines(Put(dir, n, S)) \subseteq Q
  BY PutLines
<1>. QED
  BY <1>1, <1>2

LEMMA WithoutType ==
  ASSUME NEW dir, NEW N, NEW Q, DOMAIN dir \subseteq Names, Lines(dir) \subseteq Q
  PROVE  DOMAIN Without(dir, N) \subseteq Names /\ Lines(Without(dir, N)) \subseteq Q
<1>1. DOMAIN Without(dir, N) \subseteq Names
  BY WithoutDomain
<1>2. Lines(Without(dir, N)) \subseteq Q
  BY WithoutLines
<1>. QED
  BY <1>1, <1>2

LEMMA NamesFacts ==
  /\ Live \in Names /\ IsFiniteSet(Names)
  /\ \A t \in 0..Horizon : t + Zone \in Names /\ t + Zone # Live
  /\ Names \subseteq Int
<1>1. IsFiniteSet(0..(Horizon + Zone))
  BY RunLogsAssumption, FS_Interval
<1>2. IsFiniteSet({Live} \cup 0..(Horizon + Zone))
  BY <1>1, FS_Singleton, FS_Union
<1>. QED
  BY <1>2, RunLogsAssumption DEF Names, Live

-----------------------------------------------------------------------------
LEMMA TypeInit == Init => TypeOK
<1> SUFFICES ASSUME Init PROVE TypeOK
  OBVIOUS
<1>1. DOMAIN dat = {} /\ DOMAIN logd = {} /\ DOMAIN born = {}
  BY DEF Init
<1>2. Lines(dat) = {} /\ Lines(logd) = {}
  BY <1>1 DEF Lines
<1>. QED
  BY <1>1, <1>2, RunLogsAssumption DEF Init, TypeOK, Started

\* The counts are numbers since LOG_DIR is finite.
LEMMA CountType ==
  ASSUME TypeOK, NEW q
  PROVE  Cardinality(Files(q)) \in Nat
<1>1. Files(q) \in SUBSET Names
  BY DEF TypeOK, Files
<1>. QED
  BY <1>1, NamesFacts, FS_Subset, FS_CardinalityType

LEMMA ReadType ==
  ASSUME TypeOK, NEW n, Read(n)
  PROVE  /\ n \in Names /\ read' \subseteq Names
         /\ UNCHANGED <<now, pc, start, toread, cntmap, born>>
BY DEF TypeOK, Read

\* The parts of TypeOK about the two directories, and the others.
DirsOK ==
  /\ DOMAIN dat \subseteq Names /\ Lines(dat) \subseteq Started
  /\ DOMAIN logd \subseteq Names /\ Lines(logd) \subseteq Started
RestOK ==
  /\ now \in 0..Horizon /\ start \in 0..now
  /\ pc \in {"sleep", "move", "count", "listed"}
  /\ toread \subseteq Names /\ read \subseteq Names
  /\ cntmap \in [Query -> Nat]
  /\ Started \subseteq Query /\ \A q \in Started : born[q] \in 0..now
  /\ quiet \in BOOLEAN /\ faults \in 0..MaxFaults

LEMMA Parts == TypeOK <=> DirsOK /\ RestOK
BY DEF TypeOK, DirsOK, RestOK

LEMMA DirsNext ==
  ASSUME TypeOK, [Next]_vars
  PROVE  DirsOK'
<1>0. DirsOK /\ now \in 0..Horizon
  BY Parts DEF RestOK
<1>l. \A n \in DOMAIN dat : dat[n] \subseteq Started
  BY <1>0, LinesFacts DEF DirsOK
<1>1. ASSUME NEW q \in Query, Log(q)
      PROVE  DirsOK'
  <2> DEFINE S == {q} \cup IF Live \in DOMAIN dat THEN dat[Live] ELSE {}
  <2>1. dat' = Put(dat, Live, S) /\ born' = Put(born, q, now) /\ UNCHANGED logd
    BY <1>1 DEF Log
  <2>2. S \subseteq Started \cup {q}
    BY <1>l
  <2> HIDE DEF S
  <2>3. Started' = Started \cup {q}
    <3>1. DOMAIN Put(born, q, now) = DOMAIN born \cup {q}
      BY PutDomain
    <3>. QED
      BY <2>1, <3>1 DEF Started
  <2>4. Lines(dat) \subseteq Started \cup {q}
    BY <1>0 DEF DirsOK
  <2>5. DOMAIN Put(dat, Live, S) \subseteq Names /\ Lines(Put(dat, Live, S)) \subseteq Started \cup {q}
    BY <1>0, <2>2, <2>4, PutType, NamesFacts DEF DirsOK
  <2>. QED
    BY <1>0, <2>1, <2>3, <2>5 DEF DirsOK, Lines
<1>2. CASE Rotate
  <2> DEFINE n == now + Zone
             left == Without(dat, {Live})
  <2>1. dat' = Put(left, n, dat[Live]) /\ Live \in DOMAIN dat /\ UNCHANGED <<logd, born>>
    BY <1>2 DEF Rotate
  <2>2. n \in Names
    BY <1>0, NamesFacts
  <2>3. DOMAIN left \subseteq Names /\ Lines(left) \subseteq Started
    BY <1>0, WithoutType DEF DirsOK
  <2>4. dat[Live] \subseteq Started
    BY <1>l, <2>1
  <2> HIDE DEF n, left
  <2>5. DOMAIN dat' \subseteq Names /\ Lines(dat') \subseteq Started
    <3>1. DOMAIN Put(left, n, dat[Live]) \subseteq Names /\ Lines(Put(left, n, dat[Live])) \subseteq Started
      BY <2>2, <2>3, <2>4, PutType
    <3>. QED
      BY <2>1, <3>1 DEF Lines
  <2>. QED
    BY <1>0, <2>1, <2>5 DEF DirsOK, Started, Lines
<1>3. CASE Purge \/ PurgeFails
  <2>1. /\ logd' = logd \/ logd' = Without(logd, Old)
        /\ UNCHANGED <<dat, born>>
    BY <1>3 DEF Purge, PurgeFails, engine
  <2>2. DOMAIN Without(logd, Old) \subseteq Names /\ Lines(Without(logd, Old)) \subseteq Started
    BY <1>0, WithoutType DEF DirsOK
  <2>. QED
    BY <1>0, <2>1, <2>2 DEF DirsOK, Started, Lines
<1>4. CASE Copy \/ Die
  <2>1. /\ \/ logd' = logd
           \/ Live \in DOMAIN dat /\ \E S \in SUBSET dat[Live] : logd' = Put(logd, Live, S)
        /\ UNCHANGED <<dat, born>>
    BY <1>4 DEF Copy, Die, engine, Read
  <2>2. CASE logd' = logd
    BY <1>0, <2>1, <2>2 DEF DirsOK, Started, Lines
  <2>3. ASSUME Live \in DOMAIN dat, NEW S \in SUBSET dat[Live], logd' = Put(logd, Live, S)
        PROVE  DirsOK'
    <3>1. S \subseteq Started
      BY <1>l, <2>3
    <3>2. DOMAIN Put(logd, Live, S) \subseteq Names /\ Lines(Put(logd, Live, S)) \subseteq Started
      BY <1>0, <3>1, PutType, NamesFacts DEF DirsOK
    <3>. QED
      BY <1>0, <2>1, <2>3, <3>2 DEF DirsOK, Started, Lines
  <2>. QED
    BY <2>1, <2>2, <2>3
<1>5. ASSUME NEW n \in DOMAIN dat, Move(n)
      PROVE  DirsOK'
  <2>1. logd' = Put(logd, n, dat[n]) /\ dat' = Without(dat, {n}) /\ UNCHANGED born
    BY <1>5 DEF Move, Read
  <2>2. n \in Names
    BY <1>0 DEF DirsOK
  <2>3. DOMAIN Put(logd, n, dat[n]) \subseteq Names /\ Lines(Put(logd, n, dat[n])) \subseteq Started
    BY <1>0, <1>l, <2>2, PutType DEF DirsOK
  <2>4. DOMAIN Without(dat, {n}) \subseteq Names /\ Lines(Without(dat, {n})) \subseteq Started
    BY <1>0, WithoutType DEF DirsOK
  <2>. QED
    BY <2>1, <2>3, <2>4 DEF DirsOK, Started, Lines
<1>6. CASE UNCHANGED <<dat, logd, born>>
  BY <1>0, <1>6 DEF DirsOK, Started, Lines
<1>7. Tick \/ EndOfDir \/ Sleep \/ cntSrhNums \/ (\E n : ReadFails(n)) \/ UNCHANGED vars
        => UNCHANGED <<dat, logd, born>>
  BY DEF Tick, EndOfDir, Sleep, cntSrhNums, ReadFails, Read, vars, engine
<1>. QED
  BY <1>1, <1>2, <1>3, <1>4, <1>5, <1>6, <1>7 DEF Next

LEMMA RestNext ==
  ASSUME TypeOK, [Next]_vars
  PROVE  RestOK'
<1>0. RestOK /\ DOMAIN dat \subseteq Names
  BY Parts DEF DirsOK
<1>1. ASSUME NEW q \in Query, Log(q)
      PROVE  RestOK'
  <2>1. born' = Put(born, q, now)
    BY <1>1 DEF Log
  <2>2. DOMAIN born' = DOMAIN born \cup {q}
    BY <2>1, PutDomain
  <2>3. born'[q] = now
    BY <2>1, PutNew
  <2>4. \A r \in DOMAIN born : r # q => born'[r] = born[r]
    BY <2>1, PutOld
  <2>5. Started' \subseteq Query /\ \A r \in Started' : born'[r] \in 0..now
    BY <1>0, <2>2, <2>3, <2>4, RunLogsAssumption DEF RestOK, Started
  <2>. QED
    BY <1>0, <1>1, <2>5 DEF Log, RestOK
<1>2. CASE Tick
  BY <1>0, <1>2, RunLogsAssumption DEF Tick, RestOK, Started
<1>3. CASE Rotate \/ EndOfDir \/ Sleep \/ UNCHANGED vars
  BY <1>0, <1>3 DEF Rotate, EndOfDir, Sleep, vars, engine, RestOK, Started
<1>4. CASE Purge \/ PurgeFails
  <2>1. now \in 0..now
    BY <1>0, RunLogsAssumption DEF RestOK
  <2>2. /\ start' = now /\ toread' \subseteq Names /\ read' = {}
        /\ pc' \in {"move", "count"} /\ UNCHANGED <<now, cntmap, born>>
    BY <1>0, <1>4 DEF Purge, PurgeFails, engine
  <2>4. quiet' \in BOOLEAN
    BY <1>4 DEF Purge, PurgeFails
  <2>3. faults' \in 0..MaxFaults
    BY <1>0, <1>4, RunLogsAssumption DEF Purge, PurgeFails, RestOK
  <2>. QED
    BY <1>0, <2>1, <2>2, <2>3, <2>4 DEF RestOK, Started
<1>5. CASE Die
  <2>1. faults' \in 0..MaxFaults
    BY <1>0, <1>5, RunLogsAssumption DEF Die, RestOK
  <2>2. UNCHANGED <<now, born, start, toread, read, cntmap>> /\ pc' = "sleep" /\ quiet' = FALSE
    BY <1>5 DEF Die, engine
  <2>. QED
    BY <1>0, <2>1, <2>2 DEF RestOK, Started
<1>6. CASE cntSrhNums
  BY <1>0, <1>6, CountType DEF cntSrhNums, engine, RestOK, Started
<1>7. ASSUME NEW n, Read(n), faults' \in 0..MaxFaults, quiet' \in BOOLEAN
      PROVE  RestOK'
  BY <1>0, <1>7, ReadType DEF RestOK, Started
<1>8. (\E n \in DOMAIN dat : Move(n)) \/ Copy
        => \E n : Read(n) /\ UNCHANGED <<faults, quiet>>
  BY DEF Move, Copy
<1>9. (\E n \in toread \cup DOMAIN dat : ReadFails(n))
        => \E n : Read(n) /\ quiet' = FALSE /\ faults < MaxFaults /\ faults' = faults + 1
  BY DEF ReadFails
<1>10. faults < MaxFaults /\ faults' = faults + 1 => faults' \in 0..MaxFaults
  BY <1>0, RunLogsAssumption DEF RestOK
<1>. QED
  BY <1>0, <1>1, <1>2, <1>3, <1>4, <1>5, <1>6, <1>7, <1>8, <1>9, <1>10 DEF Next, RestOK

LEMMA TypeNext == TypeOK /\ [Next]_vars => TypeOK'
BY DirsNext, RestNext, Parts DEF TypeOK, DirsOK, RestOK

\* Every variable keeps its type; a log never holds a query not yet made.
THEOREM LogTypes == Spec => []TypeOK
<1>. QED
  BY TypeInit, TypeNext, PTL DEF Spec

-----------------------------------------------------------------------------
(* No query is forgotten before its time *)

LEMMA LogInit == Init => LogInv
<1> SUFFICES ASSUME Init PROVE LogInv
  OBVIOUS
<1>1. DOMAIN dat = {} /\ DOMAIN logd = {} /\ DOMAIN born = {}
  BY DEF Init
<1>. QED
  BY <1>1 DEF LogInv, Rotated, Started

\* movLogFile's first loop removes only files whose queries are all too old.
LEMMA PurgeKeeps ==
  ASSUME TypeOK, LogInv, logd' = logd \/ logd' = Without(logd, Old),
         UNCHANGED engine
  PROVE  LogInv'
<1>1. DOMAIN logd' \subseteq DOMAIN logd /\ \A m \in DOMAIN logd' : logd'[m] = logd[m]
  <2>1. CASE logd' = logd
    BY <2>1
  <2>2. CASE logd' = Without(logd, Old)
    <3>1. DOMAIN logd' = DOMAIN logd \ Old
      BY <2>2, WithoutDomain
    <3>2. \A m \in DOMAIN logd \ Old : logd'[m] = logd[m]
      BY <2>2, WithoutOld
    <3>. QED
      BY <3>1, <3>2
  <2>. QED
    BY <2>1, <2>2
<1>2. \A m \in DOMAIN logd : m \in DOMAIN logd' \/ m \in Old
  BY WithoutDomain
<1>3. ASSUME NEW q \in Started, born[q] + Zone >= now - Retain
      PROVE  q \in Lines(dat) \/ \E n \in Rotated(logd)' : q \in logd'[n]
  <2>1. CASE q \in Lines(dat)
    BY <2>1
  <2>2. ASSUME NEW n \in Rotated(logd), q \in logd[n]
        PROVE  n \in Rotated(logd)' /\ q \in logd'[n]
    <3>1. born[q] + Zone <= n
      BY <2>2 DEF LogInv
    <3>2. n \in Int
      BY NamesFacts DEF TypeOK, Rotated
    <3>3. born[q] \in Int /\ now \in Int
      BY RunLogsAssumption DEF TypeOK
    <3>4. Zone \in Int /\ Retain \in Int
      BY RunLogsAssumption
    <3>5. ~(n < now - Retain)
      BY <1>3, <3>1, <3>2, <3>3, <3>4
    <3>6. n \notin Old
      BY <3>5 DEF Old
    <3>. QED
      BY <1>1, <1>2, <2>2, <3>6 DEF Rotated
  <2>. QED
    BY <1>3, <2>1, <2>2 DEF LogInv
<1>4. UNCHANGED <<now, dat, born>>
  BY DEF engine
<1>5. /\ \A n \in Rotated(dat)' : \A q \in dat'[n] : born'[q] + Zone <= n
      /\ \A n \in Rotated(logd)' : \A q \in logd'[n] : born'[q] + Zone <= n
      /\ Rotated(dat)' \cap DOMAIN logd' = {}
  BY <1>1, <1>4 DEF LogInv, Rotated
<1>6. \A q \in Started' : born'[q] + Zone >= now' - Retain =>
        q \in Lines(dat)' \/ \E n \in Rotated(logd)' : q \in logd'[n]
  BY <1>3, <1>4 DEF Started, Lines
<1>. QED
  BY <1>5, <1>6 DEF LogInv

\* Whatever happens to the copy of server.log, it is not needed.
LEMMA CopyKeepsRest ==
  ASSUME TypeOK, LogInv, UNCHANGED engine,
         logd' = logd \/ \E S : logd' = Put(logd, Live, S)
  PROVE  LogInv'
<1>1. Rotated(logd)' = Rotated(logd) /\ \A m \in Rotated(logd) : logd'[m] = logd[m]
  <2>1. CASE logd' = logd
    BY <2>1 DEF Rotated
  <2>2. ASSUME NEW S, logd' = Put(logd, Live, S)
        PROVE  Rotated(logd)' = Rotated(logd) /\ \A m \in Rotated(logd) : logd'[m] = logd[m]
    <3>1. DOMAIN logd' = DOMAIN logd \cup {Live}
      BY <2>2, PutDomain
    <3>2. \A m \in DOMAIN logd : m # Live => logd'[m] = logd[m]
      BY <2>2, PutOld
    <3>. QED
      BY <3>1, <3>2 DEF Rotated
  <2>. QED
    BY <2>1, <2>2
<1>2. UNCHANGED <<now, dat, born>>
  BY DEF engine
<1>3. Rotated(dat)' \cap DOMAIN logd' = {}
  BY <1>1, <1>2 DEF LogInv, Rotated
<1>. QED
  BY <1>1, <1>2, <1>3 DEF LogInv, Lines, Started, Rotated

LEMMA LogNext == TypeOK /\ LogInv /\ [Next]_vars => LogInv'
<1> SUFFICES ASSUME TypeOK, LogInv, [Next]_vars PROVE LogInv'
  OBVIOUS
<1>0. /\ now \in Int /\ Zone \in Int /\ Retain \in Int
      /\ \A q \in Started : born[q] \in Int /\ born[q] <= now
      /\ Lines(dat) \subseteq Started /\ Lines(logd) \subseteq Started
  BY RunLogsAssumption DEF TypeOK
<1>d. \A n \in DOMAIN dat : \A q \in dat[n] : q \in Started
  BY <1>0, LinesFacts
<1>l. \A n \in DOMAIN logd : \A q \in logd[n] : q \in Started
  BY <1>0, LinesFacts
<1>1. CASE Tick
  <2>1. UNCHANGED <<dat, logd, born>> /\ now' = now + 1
    BY <1>1 DEF Tick
  <2>2. \A q \in Started : born[q] + Zone >= now' - Retain => born[q] + Zone >= now - Retain
    BY <1>0, <2>1
  <2>. QED
    BY <2>1, <2>2 DEF LogInv, Rotated, Lines, Started
<1>2. ASSUME NEW q \in Query, Log(q)
      PROVE  LogInv'
  <2> DEFINE S == {q} \cup IF Live \in DOMAIN dat THEN dat[Live] ELSE {}
  <2>1. /\ dat' = Put(dat, Live, S) /\ born' = Put(born, q, now) /\ UNCHANGED <<logd, now>>
        /\ q \notin Started
    BY <1>2 DEF Log
  <2>2. q \in S /\ (Live \in DOMAIN dat => dat[Live] \subseteq S)
    OBVIOUS
  <2> HIDE DEF S
  <2>3. DOMAIN dat' = DOMAIN dat \cup {Live}
    BY <2>1, PutDomain
  <2>4. dat'[Live] = S
    BY <2>1, PutNew
  <2>5. \A m \in DOMAIN dat : m # Live => dat'[m] = dat[m]
    BY <2>1, PutOld
  <2>6. Started' = Started \cup {q}
    <3>1. DOMAIN Put(born, q, now) = DOMAIN born \cup {q}
      BY PutDomain
    <3>. QED
      BY <2>1, <3>1 DEF Started
  <2>7. \A r \in Started : born'[r] = born[r]
    BY <2>1, PutOld DEF Started
  <2>8. Rotated(dat)' = Rotated(dat) /\ \A m \in Rotated(dat) : dat'[m] = dat[m]
    BY <2>3, <2>5 DEF Rotated
  <2>9. \A r \in Lines(dat) \cup {q} : r \in Lines(dat')
    <3>1. q \in Lines(dat')
      BY <2>2, <2>3, <2>4, LinesFacts
    <3>2. ASSUME NEW r \in Lines(dat) PROVE r \in Lines(dat')
      <4>1. PICK m \in DOMAIN dat : r \in dat[m]
        BY <3>2, LinesFacts
      <4>2. m \in DOMAIN dat' /\ r \in dat'[m]
        BY <2>2, <2>3, <2>4, <2>5, <4>1
      <4>. QED
        BY <4>2, LinesFacts
    <3>. QED
      BY <3>1, <3>2
  <2>10. \A n \in Rotated(dat)' : \A r \in dat'[n] : born'[r] + Zone <= n
    BY <1>d, <2>7, <2>8 DEF LogInv, Rotated
  <2>11. \A n \in Rotated(logd)' : \A r \in logd'[n] : born'[r] + Zone <= n
    BY <1>l, <2>1, <2>7 DEF LogInv, Rotated
  <2>12. \A r \in Started' : born'[r] + Zone >= now' - Retain =>
           r \in Lines(dat') \/ \E n \in Rotated(logd)' : r \in logd'[n]
    BY <2>1, <2>6, <2>7, <2>9 DEF LogInv, Rotated
  <2>. QED
    BY <2>1, <2>8, <2>10, <2>11, <2>12 DEF LogInv, Lines
<1>3. CASE Rotate
  <2> DEFINE n == now + Zone
             left == Without(dat, {Live})
  <2>1. /\ dat' = Put(left, n, dat[Live]) /\ UNCHANGED <<logd, born, now>>
        /\ Live \in DOMAIN dat /\ n \notin DOMAIN dat \cup DOMAIN logd
    BY <1>3 DEF Rotate
  <2>2. DOMAIN left = DOMAIN dat \ {Live}
    BY WithoutDomain
  <2>3. \A m \in DOMAIN dat \ {Live} : left[m] = dat[m]
    BY WithoutOld
  <2>4. \A q \in dat[Live] : born[q] + Zone <= n
    BY <1>0, <1>d, <2>1
  <2> HIDE DEF n, left
  <2>5. DOMAIN dat' = (DOMAIN dat \ {Live}) \cup {n}
    <3>1. DOMAIN Put(left, n, dat[Live]) = DOMAIN left \cup {n}
      BY PutDomain
    <3>. QED
      BY <2>1, <2>2, <3>1
  <2>6. dat'[n] = dat[Live]
    BY <2>1, PutNew
  <2>7. \A m \in DOMAIN dat \ {Live} : dat'[m] = dat[m]
    <3>1. \A m \in DOMAIN left : m # n => dat'[m] = left[m]
      BY <2>1, PutOld
    <3>. QED
      BY <2>1, <2>2, <2>3, <3>1
  <2>8. Rotated(dat)' \subseteq Rotated(dat) \cup {n}
    BY <2>5 DEF Rotated
  <2>9. \A m \in Rotated(dat)' : \A q \in dat'[m] : born'[q] + Zone <= m
    BY <2>1, <2>4, <2>6, <2>7, <2>8 DEF LogInv, Rotated
  <2>10. Rotated(dat)' \cap DOMAIN logd' = {}
    BY <2>1, <2>8 DEF LogInv
  <2>11. \A q \in Lines(dat) : q \in Lines(dat')
    <3> SUFFICES ASSUME NEW q \in Lines(dat) PROVE q \in Lines(dat')
      OBVIOUS
    <3>1. PICK m \in DOMAIN dat : q \in dat[m]
      BY LinesFacts
    <3>2. \E k \in DOMAIN dat' : q \in dat'[k]
      BY <2>5, <2>6, <2>7, <3>1
    <3>. QED
      BY <3>2, LinesFacts
  <2>. QED
    BY <2>1, <2>9, <2>10, <2>11 DEF LogInv, Rotated, Started, Lines
<1>4. CASE Purge \/ PurgeFails
  <2>1. (logd' = logd \/ logd' = Without(logd, Old)) /\ UNCHANGED engine
    BY <1>4 DEF Purge, PurgeFails
  <2>. QED
    BY <2>1, PurgeKeeps
<1>5. CASE Copy \/ Die
  <2>1. (logd' = logd \/ \E S : logd' = Put(logd, Live, S)) /\ UNCHANGED engine
    BY <1>5 DEF Copy, Die, Read, engine
  <2>. QED
    BY <2>1, CopyKeepsRest
<1>6. ASSUME NEW n \in DOMAIN dat, Move(n)
      PROVE  LogInv'
  <2>1. /\ logd' = Put(logd, n, dat[n]) /\ dat' = Without(dat, {n}) /\ UNCHANGED <<born, now>>
        /\ n # Live
    BY <1>6 DEF Move, Read
  <2>2. DOMAIN logd' = DOMAIN logd \cup {n}
    BY <2>1, PutDomain
  <2>3. logd'[n] = dat[n]
    BY <2>1, PutNew
  <2>4. \A m \in DOMAIN logd : m # n => logd'[m] = logd[m]
    BY <2>1, PutOld
  <2>5. DOMAIN dat' = DOMAIN dat \ {n}
    BY <2>1, WithoutDomain
  <2>6. \A m \in DOMAIN dat \ {n} : dat'[m] = dat[m]
    BY <2>1, WithoutOld
  <2>7. n \notin DOMAIN logd
    BY <2>1 DEF LogInv, Rotated
  <2>8. \A m \in Rotated(dat)' : m \in Rotated(dat) /\ m # n /\ dat'[m] = dat[m]
    BY <2>5, <2>6 DEF Rotated
  <2>9. Rotated(logd)' = Rotated(logd) \cup {n} /\ \A m \in Rotated(logd) : logd'[m] = logd[m]
    BY <2>1, <2>2, <2>4, <2>7 DEF Rotated
  <2>10. \A m \in Rotated(dat)' : \A q \in dat'[m] : born'[q] + Zone <= m
    BY <2>1, <2>8 DEF LogInv
  <2>11. \A m \in Rotated(logd)' : \A q \in logd'[m] : born'[q] + Zone <= m
    BY <2>1, <2>3, <2>9 DEF LogInv, Rotated
  <2>12. Rotated(dat)' \cap DOMAIN logd' = {}
    BY <2>2, <2>8 DEF LogInv
  <2>13. \A q \in Lines(dat) : q \in Lines(dat') \/ q \in logd'[n]
    <3> SUFFICES ASSUME NEW q \in Lines(dat) PROVE q \in Lines(dat') \/ q \in logd'[n]
      OBVIOUS
    <3>1. PICK m \in DOMAIN dat : q \in dat[m]
      BY LinesFacts
    <3>2. CASE m = n
      BY <2>3, <3>1, <3>2
    <3>3. CASE m # n
      BY <2>5, <2>6, <3>1, <3>3, LinesFacts
    <3>. QED
      BY <3>2, <3>3
  <2>14. \A q \in Started' : born'[q] + Zone >= now' - Retain =>
           q \in Lines(dat') \/ \E m \in Rotated(logd)' : q \in logd'[m]
    BY <2>1, <2>9, <2>13 DEF LogInv, Started
  <2>. QED
    BY <2>10, <2>11, <2>12, <2>14 DEF LogInv, Lines
<1>7. CASE UNCHANGED <<now, dat, logd, born>>
  BY <1>7 DEF LogInv, Rotated, Lines, Started
<1>8. EndOfDir \/ Sleep \/ cntSrhNums \/ (\E n : ReadFails(n)) \/ UNCHANGED vars
        => UNCHANGED <<now, dat, logd, born>>
  BY DEF EndOfDir, Sleep, cntSrhNums, ReadFails, Read, vars, engine
<1>. QED
  BY <1>1, <1>2, <1>3, <1>4, <1>5, <1>6, <1>7, <1>8 DEF Next

\* Whatever is rotated, renamed, overwritten or cut off by a crash, in any
\* order: a query is in one of the two directories until it is too old to
\* count.
THEOREM QueriesKept == Spec => []NothingForgotten
<1>1. Init => TypeOK /\ LogInv
  BY TypeInit, LogInit
<1>2. TypeOK /\ LogInv /\ [Next]_vars => (TypeOK /\ LogInv)'
  BY TypeNext, LogNext
<1>3. LogInv => NothingForgotten
  <2> SUFFICES ASSUME LogInv, NEW q \in Started, born[q] + Zone >= now - Retain
               PROVE  q \in Lines(dat) \cup Lines(logd)
    BY DEF NothingForgotten
  <2>1. CASE \E n \in Rotated(logd) : q \in logd[n]
    BY <2>1, LinesFacts DEF Rotated
  <2>. QED
    BY <2>1 DEF LogInv
<1>. QED
  BY <1>1, <1>2, <1>3, PTL DEF Spec

-----------------------------------------------------------------------------
(* What the steps do to the files, name by name *)

LEMMA LogFiles ==
  ASSUME NEW q, Log(q)
  PROVE  /\ q \notin Started /\ Started' = Started \cup {q}
         /\ born'[q] = now /\ \A r \in Started : born'[r] = born[r]
         /\ DOMAIN dat' = DOMAIN dat \cup {Live}
         /\ \A m \in DOMAIN dat : m # Live => dat'[m] = dat[m]
         /\ dat'[Live] = {q} \cup IF Live \in DOMAIN dat THEN dat[Live] ELSE {}
<1> DEFINE S == {q} \cup IF Live \in DOMAIN dat THEN dat[Live] ELSE {}
<1>1. dat' = Put(dat, Live, S) /\ born' = Put(born, q, now) /\ q \notin Started
  BY DEF Log
<1> HIDE DEF S
<1>2. DOMAIN Put(born, q, now) = DOMAIN born \cup {q}
  BY PutDomain
<1>3. born'[q] = now /\ \A r \in Started : born'[r] = born[r]
  BY <1>1, PutNew, PutOld DEF Started
<1>4. DOMAIN Put(dat, Live, S) = DOMAIN dat \cup {Live}
  BY PutDomain
<1>5. dat'[Live] = S /\ \A m \in DOMAIN dat : m # Live => dat'[m] = dat[m]
  BY <1>1, PutNew, PutOld
<1>. QED
  BY <1>1, <1>2, <1>3, <1>4, <1>5 DEF Started, S

LEMMA RotateFiles ==
  ASSUME Rotate
  PROVE  /\ Live \in DOMAIN dat /\ now + Zone \notin DOMAIN dat \cup DOMAIN logd
         /\ DOMAIN dat' = (DOMAIN dat \ {Live}) \cup {now + Zone}
         /\ dat'[now + Zone] = dat[Live]
         /\ \A m \in DOMAIN dat \ {Live} : dat'[m] = dat[m]
<1> DEFINE n == now + Zone
           left == Without(dat, {Live})
<1>1. /\ dat' = Put(left, n, dat[Live])
      /\ Live \in DOMAIN dat /\ n \notin DOMAIN dat \cup DOMAIN logd
  BY DEF Rotate
<1>2. DOMAIN left = DOMAIN dat \ {Live} /\ \A m \in DOMAIN dat \ {Live} : left[m] = dat[m]
  BY WithoutDomain, WithoutOld
<1> HIDE DEF n, left
<1>3. DOMAIN Put(left, n, dat[Live]) = DOMAIN left \cup {n}
  BY PutDomain
<1>4. dat'[n] = dat[Live] /\ \A m \in DOMAIN left : m # n => dat'[m] = left[m]
  BY <1>1, PutNew, PutOld
<1>. QED
  BY <1>1, <1>2, <1>3, <1>4 DEF n

LEMMA OldFiles ==
  ASSUME logd' = Without(logd, Old)
  PROVE  DOMAIN logd' = DOMAIN logd \ Old /\ \A m \in DOMAIN logd' : logd'[m] = logd[m]
<1>1. DOMAIN Without(logd, Old) = DOMAIN logd \ Old
  BY WithoutDomain
<1>. QED
  BY <1>1, WithoutOld

LEMMA CopyFiles ==
  ASSUME NEW S, logd' = Put(logd, Live, S)
  PROVE  /\ DOMAIN logd' = DOMAIN logd \cup {Live} /\ logd'[Live] = S
         /\ Rotated(logd)' = Rotated(logd)
         /\ \A m \in Rotated(logd) : logd'[m] = logd[m]
<1>1. DOMAIN Put(logd, Live, S) = DOMAIN logd \cup {Live}
  BY PutDomain
<1>2. logd'[Live] = S /\ \A m \in DOMAIN logd : m # Live => logd'[m] = logd[m]
  BY PutNew, PutOld
<1>. QED
  BY <1>1, <1>2 DEF Rotated

LEMMA MoveFiles ==
  ASSUME NEW n \in DOMAIN dat, Move(n)
  PROVE  /\ n # Live /\ Read(n)
         /\ DOMAIN logd' = DOMAIN logd \cup {n} /\ logd'[n] = dat[n]
         /\ \A m \in DOMAIN logd : m # n => logd'[m] = logd[m]
         /\ DOMAIN dat' = DOMAIN dat \ {n}
         /\ \A m \in DOMAIN dat \ {n} : dat'[m] = dat[m]
<1>1. /\ logd' = Put(logd, n, dat[n]) /\ dat' = Without(dat, {n})
      /\ n # Live /\ Read(n)
  BY DEF Move
<1>2. DOMAIN Put(logd, n, dat[n]) = DOMAIN logd \cup {n}
  BY PutDomain
<1>3. logd'[n] = dat[n] /\ \A m \in DOMAIN logd : m # n => logd'[m] = logd[m]
  BY <1>1, PutNew, PutOld
<1>4. DOMAIN Without(dat, {n}) = DOMAIN dat \ {n}
  BY WithoutDomain
<1>5. \A m \in DOMAIN dat \ {n} : dat'[m] = dat[m]
  BY <1>1, WithoutOld
<1>. QED
  BY <1>1, <1>2, <1>3, <1>4, <1>5

-----------------------------------------------------------------------------
(* No query is counted more than twice *)

LEMMA OnceInit == Init => Once
<1> SUFFICES ASSUME Init PROVE Once
  OBVIOUS
<1>1. DOMAIN dat = {} /\ DOMAIN logd = {}
  BY DEF Init
<1>. QED
  BY <1>1 DEF Once, Rotated

\* A step that leaves DAT_DIR alone, and adds no rotated file to LOG_DIR.
LEMMA OnceKept ==
  ASSUME Once, UNCHANGED dat, Rotated(logd)' \subseteq Rotated(logd),
         \A m \in Rotated(logd)' : logd'[m] = logd[m]
  PROVE  Once'
BY DEF Once

LEMMA OnceNext == TypeOK /\ Once /\ [Next]_vars => Once'
<1> SUFFICES ASSUME TypeOK, Once, [Next]_vars PROVE Once'
  OBVIOUS
<1>0. /\ \A n \in DOMAIN dat : dat[n] \subseteq Started
      /\ \A n \in DOMAIN logd : logd[n] \subseteq Started
  BY LinesFacts DEF TypeOK
<1>1. ASSUME NEW q \in Query, Log(q)
      PROVE  Once'
  <2>1. UNCHANGED logd
    BY <1>1 DEF Log
  <2>2. /\ q \notin Started /\ DOMAIN dat' = DOMAIN dat \cup {Live}
        /\ \A m \in DOMAIN dat : m # Live => dat'[m] = dat[m]
        /\ dat'[Live] = {q} \cup IF Live \in DOMAIN dat THEN dat[Live] ELSE {}
    BY <1>1, LogFiles
  <2>3. ASSUME NEW m \in DOMAIN dat', NEW r \in dat'[m]
        PROVE  (m = Live /\ r = q) \/ (m \in DOMAIN dat /\ r \in dat[m])
    BY <2>2
  <2>4. \A n \in DOMAIN dat : q \notin dat[n]
    BY <1>0, <2>2
  <2>5. \A n \in Rotated(logd) : q \notin logd[n]
    BY <1>0, <2>2 DEF Rotated
  <2>6. \A m, n \in DOMAIN dat' : dat'[m] \cap dat'[n] # {} => m = n
    BY <2>3, <2>4 DEF Once
  <2>7. \A m \in DOMAIN dat', n \in Rotated(logd) : dat'[m] \cap logd[n] = {}
    BY <2>3, <2>5 DEF Once
  <2>. QED
    BY <2>1, <2>6, <2>7 DEF Once, Rotated
<1>2. CASE Rotate
  <2> DEFINE n == now + Zone
  <2>1. UNCHANGED logd
    BY <1>2 DEF Rotate
  <2>2. /\ Live \in DOMAIN dat /\ n \notin DOMAIN dat
        /\ DOMAIN dat' = (DOMAIN dat \ {Live}) \cup {n} /\ dat'[n] = dat[Live]
        /\ \A m \in DOMAIN dat \ {Live} : dat'[m] = dat[m]
    BY <1>2, RotateFiles
  <2> HIDE DEF n
  <2>3. \A k, m \in DOMAIN dat' : dat'[k] \cap dat'[m] # {} => k = m
    BY <2>2 DEF Once
  <2>4. \A k \in DOMAIN dat', m \in Rotated(logd) : dat'[k] \cap logd[m] = {}
    BY <2>2 DEF Once
  <2>. QED
    BY <2>1, <2>3, <2>4 DEF Once, Rotated
<1>3. CASE Purge \/ PurgeFails
  <2>1. UNCHANGED dat /\ (logd' = logd \/ logd' = Without(logd, Old))
    BY <1>3 DEF Purge, PurgeFails, engine
  <2>2. DOMAIN logd' \subseteq DOMAIN logd /\ \A m \in DOMAIN logd' : logd'[m] = logd[m]
    BY <2>1, OldFiles
  <2>. QED
    BY <2>1, <2>2, OnceKept DEF Rotated
<1>4. CASE Copy \/ Die
  <2>1. UNCHANGED dat /\ (logd' = logd \/ \E S : logd' = Put(logd, Live, S))
    BY <1>4 DEF Copy, Die, Read, engine
  <2>2. CASE logd' = logd
    BY <2>1, <2>2 DEF Once, Rotated
  <2>3. CASE \E S : logd' = Put(logd, Live, S)
    BY <2>1, <2>3, CopyFiles, OnceKept
  <2>. QED
    BY <2>1, <2>2, <2>3
<1>5. ASSUME NEW n \in DOMAIN dat, Move(n)
      PROVE  Once'
  <2>1. /\ DOMAIN logd' = DOMAIN logd \cup {n} /\ logd'[n] = dat[n]
        /\ \A m \in DOMAIN logd : m # n => logd'[m] = logd[m]
        /\ DOMAIN dat' = DOMAIN dat \ {n}
        /\ \A m \in DOMAIN dat \ {n} : dat'[m] = dat[m]
    BY <1>5, MoveFiles
  <2>2. \A k, m \in DOMAIN dat' : dat'[k] \cap dat'[m] # {} => k = m
    BY <2>1 DEF Once
  <2>3. \A m \in Rotated(logd)' : m = n \/ (m \in Rotated(logd) /\ m # n /\ logd'[m] = logd[m])
    BY <2>1 DEF Rotated
  <2>4. \A k, m \in Rotated(logd)' : logd'[k] \cap logd'[m] # {} => k = m
    BY <2>1, <2>3 DEF Once
  <2>5. \A k \in DOMAIN dat', m \in Rotated(logd)' : dat'[k] \cap logd'[m] = {}
    BY <2>1, <2>3 DEF Once
  <2>. QED
    BY <2>2, <2>4, <2>5 DEF Once
<1>6. CASE UNCHANGED <<dat, logd>>
  BY <1>6 DEF Once, Rotated
<1>7. Tick \/ EndOfDir \/ Sleep \/ cntSrhNums \/ (\E n : ReadFails(n)) \/ UNCHANGED vars
        => UNCHANGED <<dat, logd>>
  BY DEF Tick, EndOfDir, Sleep, cntSrhNums, ReadFails, vars, engine
<1>. QED
  BY <1>1, <1>2, <1>3, <1>4, <1>5, <1>6, <1>7 DEF Next

\* A query is found in at most one rotated file, and in the copy of server.log.
LEMMA OnceCounts ==
  ASSUME Once, NEW q
  PROVE  Cardinality(Files(q)) <= 2
<1>1. \A m, n \in Files(q) : m # Live /\ n # Live => m = n
  BY DEF Once, Files, Rotated
<1>2. PICK n : Files(q) \subseteq {Live, n}
  <2>1. CASE \E n \in Files(q) : n # Live
    BY <1>1, <2>1
  <2>2. CASE ~(\E n \in Files(q) : n # Live)
    BY <2>2
  <2>. QED
    BY <2>1, <2>2
<1>3. IsFiniteSet({n}) /\ Cardinality({n}) = 1
  BY FS_Singleton
<1>4. /\ IsFiniteSet({n} \cup {Live})
      /\ Cardinality({n} \cup {Live}) = (IF Live \in {n} THEN 1 ELSE 1 + 1)
  BY <1>3, FS_AddElement
<1>5. Files(q) \subseteq {n} \cup {Live}
  BY <1>2
<1>6. /\ Cardinality(Files(q)) <= Cardinality({n} \cup {Live})
      /\ Cardinality(Files(q)) \in Nat
  BY <1>4, <1>5, FS_Subset, FS_CardinalityType
<1>. QED
  BY <1>4, <1>6

\* Whatever is rotated, copied, cut off by a crash or left for the next day: a
\* query is counted twice at most, in server.log's copy and in one rotated file.
THEOREM CountedTwiceAtMost == Spec => []TwiceAtMost
<1>1. Init => TypeOK /\ Once /\ TwiceAtMost
  BY TypeInit, OnceInit DEF Init, TwiceAtMost
<1>2. TypeOK /\ Once /\ TwiceAtMost /\ [Next]_vars => (TypeOK /\ Once /\ TwiceAtMost)'
  <2> SUFFICES ASSUME TypeOK, Once, TwiceAtMost, [Next]_vars
               PROVE  TwiceAtMost'
    BY TypeNext, OnceNext
  <2>1. CASE cntSrhNums
    <3>1. \A q \in Query : cntmap'[q] = Cardinality(Files(q))
      BY <2>1 DEF cntSrhNums
    <3>. QED
      BY <3>1, OnceCounts DEF TwiceAtMost
  <2>2. CASE UNCHANGED cntmap
    BY <2>2 DEF TwiceAtMost
  <2>3. cntSrhNums \/ UNCHANGED cntmap
    BY DEF Next, Tick, Rotate, Purge, PurgeFails, Copy, Die, EndOfDir, Sleep, Log,
           Move, ReadFails, Read, vars
  <2>. QED
    BY <2>1, <2>2, <2>3
<1>. QED
  BY <1>1, <1>2, PTL DEF Spec

-----------------------------------------------------------------------------
(* On a quiet day a query is counted once *)

\* What QuietDay asks of the young queries, which a step keeps that keeps
\* every query where it is or moves it into a rotated file.
YoungKept ==
  \A q \in Started : born[q] + Zone >= start - Retain =>
     q \in Lines(dat) \/ \E n \in Rotated(logd) : q \in logd[n]

LEMMA QuietLog ==
  ASSUME TypeOK, QuietDay, NEW q \in Query, Log(q)
  PROVE  QuietDay'
<1> SUFFICES ASSUME pc' \in {"move", "count"}, quiet'
             PROVE  QuietDay'
  BY DEF QuietDay
<1> DEFINE old == IF Live \in DOMAIN dat THEN dat[Live] ELSE {}
<1>1. /\ UNCHANGED <<now, logd, pc, start, toread, read, quiet>>
      /\ quiet /\ pc \in {"move", "count"}
  BY DEF Log
<1>2. /\ \A n \in Rotated(dat) : n \in toread \ read
      /\ Live \in toread \cup read => Live \in DOMAIN dat
      /\ Live \in DOMAIN dat \ toread => \A r \in dat[Live] : born[r] >= start
      /\ pc = "count" => toread \subseteq read
      /\ Live \in read =>
           /\ Live \in DOMAIN logd /\ logd[Live] \subseteq dat[Live]
           /\ \A r \in dat[Live] : born[r] < start => r \in logd[Live]
      /\ YoungKept
  BY <1>1 DEF QuietDay, YoungKept
<1>3. /\ q \notin Started /\ Started' = Started \cup {q}
      /\ born'[q] = now /\ \A r \in Started : born'[r] = born[r]
      /\ DOMAIN dat' = DOMAIN dat \cup {Live}
      /\ \A m \in DOMAIN dat : m # Live => dat'[m] = dat[m]
      /\ dat'[Live] = {q} \cup old
  BY LogFiles
<1>4. Rotated(dat)' = Rotated(dat)
  BY <1>3 DEF Rotated
<1>a. Live \in DOMAIN dat => old = dat[Live]
  OBVIOUS
<1>b. Live \notin DOMAIN dat => old = {}
  OBVIOUS
<1> HIDE DEF old
<1>5. \A r \in Lines(dat) \cup {q} : r \in Lines(dat')
  <2>1. \A r \in Lines(dat) \cup {q} : \E m \in DOMAIN dat' : r \in dat'[m]
    BY <1>3, <1>a, LinesFacts
  <2>. QED
    BY <2>1, LinesFacts
<1>6. /\ now \in Int /\ start \in Int /\ start <= now
      /\ \A r \in old : r \in Started
  <2>1. Live \in DOMAIN dat => \A r \in dat[Live] : r \in Started
    BY LinesFacts DEF TypeOK
  <2>. QED
    BY <1>a, <1>b, <2>1, RunLogsAssumption DEF TypeOK
<1>7. Live \in read =>
        /\ Live \in DOMAIN logd /\ logd[Live] \subseteq dat'[Live]
        /\ \A r \in dat'[Live] : born'[r] < start => r \in logd[Live]
  <2>1. ~(born'[q] < start)
    BY <1>3, <1>6
  <2>. QED
    BY <1>2, <1>3, <1>6, <1>a, <2>1
<1>8. YoungKept'
  <2>1. \A r \in Started' : born'[r] + Zone >= start - Retain =>
          r \in Lines(dat') \/ \E n \in Rotated(logd) : r \in logd[n]
    BY <1>2, <1>3, <1>5 DEF YoungKept
  <2>. QED
    BY <1>1, <2>1 DEF YoungKept, Rotated, Lines
<1>9. Live \notin toread => \A r \in dat'[Live] : born'[r] >= start
  BY <1>2, <1>3, <1>6, <1>a, <1>b
<1>. QED
  BY <1>1, <1>2, <1>3, <1>4, <1>7, <1>8, <1>9 DEF QuietDay, YoungKept

\* The day starts: the files of DAT_DIR are listed, and by LogInv no young
\* query is in neither directory.
LEMMA QuietPurge ==
  ASSUME TypeOK, LogInv, Purge
  PROVE  QuietDay'
<1>1. /\ UNCHANGED <<now, dat, born>> /\ start' = now /\ toread' = DOMAIN dat
      /\ read' = {} /\ pc' = "move"
  BY DEF Purge, engine
<1>2. LogInv'
  BY PurgeKeeps DEF Purge
<1>3. YoungKept'
  <2>1. now' = start'
    BY <1>1
  <2>. QED
    BY <1>2, <2>1 DEF LogInv, YoungKept
<1>4. Rotated(dat)' = Rotated(dat) /\ Rotated(dat) \subseteq DOMAIN dat
  BY <1>1 DEF Rotated
<1>. QED
  BY <1>1, <1>3, <1>4 DEF QuietDay, YoungKept

LEMMA QuietCopy ==
  ASSUME QuietDay, Copy
  PROVE  QuietDay'
<1> SUFFICES ASSUME quiet'
             PROVE  QuietDay'
  BY DEF QuietDay
<1>1. /\ UNCHANGED <<now, dat, born, pc, start, toread>> /\ pc = "move" /\ quiet
      /\ read' = read \cup {Live}
  BY DEF Copy, Read
<1>2. /\ Live \in toread \cup read => Live \in DOMAIN dat
      /\ Live \in DOMAIN dat \ toread => \A q \in dat[Live] : born[q] >= start
      /\ \A n \in Rotated(dat) : n \in toread \ read
      /\ YoungKept
  BY <1>1 DEF QuietDay, YoungKept
<1>0. Live \in DOMAIN dat
  BY <1>2 DEF Copy, Read
<1>3. logd' = Put(logd, Live, dat[Live])
  BY <1>0 DEF Copy
<1>4. /\ DOMAIN logd' = DOMAIN logd \cup {Live} /\ logd'[Live] = dat[Live]
      /\ Rotated(logd)' = Rotated(logd)
      /\ \A m \in Rotated(logd) : logd'[m] = logd[m]
  BY <1>3, CopyFiles
<1>5. Rotated(dat)' = Rotated(dat) /\ \A n \in Rotated(dat) : n # Live
  BY <1>1 DEF Rotated
<1>6. YoungKept'
  BY <1>1, <1>2, <1>4 DEF YoungKept, Started, Lines
<1>. QED
  BY <1>0, <1>1, <1>2, <1>4, <1>5, <1>6 DEF QuietDay, YoungKept

LEMMA QuietMove ==
  ASSUME LogInv, QuietDay, NEW n \in DOMAIN dat, Move(n)
  PROVE  QuietDay'
<1> SUFFICES ASSUME quiet'
             PROVE  QuietDay'
  BY DEF QuietDay
<1>1. /\ UNCHANGED <<now, born, pc, start, toread>> /\ pc = "move" /\ quiet
      /\ read' = read \cup {n}
  BY DEF Move, Read
<1>2. /\ n # Live
      /\ DOMAIN logd' = DOMAIN logd \cup {n} /\ logd'[n] = dat[n]
      /\ \A m \in DOMAIN logd : m # n => logd'[m] = logd[m]
      /\ DOMAIN dat' = DOMAIN dat \ {n}
      /\ \A m \in DOMAIN dat \ {n} : dat'[m] = dat[m]
  BY MoveFiles
<1>3. /\ Live \in toread \cup read => Live \in DOMAIN dat
      /\ Live \in DOMAIN dat \ toread => \A q \in dat[Live] : born[q] >= start
      /\ \A m \in Rotated(dat) : m \in toread \ read
      /\ Live \in read =>
           /\ Live \in DOMAIN logd /\ logd[Live] \subseteq dat[Live]
           /\ \A r \in dat[Live] : born[r] < start => r \in logd[Live]
      /\ YoungKept
  BY <1>1 DEF QuietDay, YoungKept
<1>4. \A m \in Rotated(dat)' : m \in Rotated(dat) /\ m # n
  BY <1>2 DEF Rotated
<1>5. n \notin DOMAIN logd
  BY <1>2 DEF LogInv, Rotated
<1>6. /\ n \in Rotated(logd)'
      /\ \A m \in Rotated(logd) : m \in Rotated(logd)' /\ logd'[m] = logd[m]
  BY <1>2, <1>5 DEF Rotated
<1>7. \A q \in Lines(dat) : q \in Lines(dat') \/ q \in logd'[n]
  <2>1. \A q \in Lines(dat) : q \in dat[n] \/ \E m \in DOMAIN dat' : q \in dat'[m]
    BY <1>2, LinesFacts
  <2>. QED
    BY <1>2, <2>1, LinesFacts
<1>8. YoungKept'
  <2>1. \A q \in Started : born[q] + Zone >= start - Retain =>
          q \in Lines(dat') \/ \E m \in Rotated(logd)' : q \in logd'[m]
    BY <1>3, <1>6, <1>7 DEF YoungKept
  <2>. QED
    BY <1>1, <2>1 DEF YoungKept, Started, Lines
<1>9. Live \in read' =>
        /\ Live \in DOMAIN logd' /\ logd'[Live] \subseteq dat'[Live]
        /\ \A r \in dat'[Live] : born[r] < start => r \in logd'[Live]
  BY <1>1, <1>2, <1>3
<1>10. /\ Live \in toread' \cup read' => Live \in DOMAIN dat'
       /\ Live \in DOMAIN dat' \ toread' => \A q \in dat'[Live] : born'[q] >= start'
       /\ \A m \in Rotated(dat)' : m \in toread' \ read'
  BY <1>1, <1>2, <1>3, <1>4
<1>. QED
  BY <1>1, <1>8, <1>9, <1>10 DEF QuietDay, YoungKept

LEMMA QuietNext == TypeOK /\ LogInv /\ QuietDay /\ [Next]_vars => QuietDay'
<1> SUFFICES ASSUME TypeOK, LogInv, QuietDay, [Next]_vars PROVE QuietDay'
  OBVIOUS
<1>1. ASSUME NEW q \in Query, Log(q)
      PROVE  QuietDay'
  BY <1>1, QuietLog
<1>2. CASE Purge
  BY <1>2, QuietPurge
<1>3. CASE Copy
  BY <1>3, QuietCopy
<1>4. ASSUME NEW n \in DOMAIN dat, Move(n)
      PROVE  QuietDay'
  BY <1>4, QuietMove
<1>5. CASE EndOfDir
  BY <1>5 DEF EndOfDir, engine, QuietDay, Rotated, Started, Lines
<1>6. CASE Rotate \/ PurgeFails \/ Die \/ \E n : ReadFails(n)
  BY <1>6 DEF Rotate, PurgeFails, Die, ReadFails, QuietDay
<1>7. CASE cntSrhNums \/ Sleep
  BY <1>7 DEF cntSrhNums, Sleep, QuietDay
<1>8. CASE UNCHANGED <<dat, logd, born, pc, start, toread, read, quiet>>
  BY <1>8 DEF QuietDay, Rotated, Started, Lines
<1>9. Tick \/ UNCHANGED vars => UNCHANGED <<dat, logd, born, pc, start, toread, read, quiet>>
  BY DEF Tick, vars
<1>. QED
  BY <1>1, <1>2, <1>3, <1>4, <1>5, <1>6, <1>7, <1>8, <1>9 DEF Next

\* When cntSrhNums counts on a quiet day, a young query that was logged before
\* the start is in one file of LOG_DIR: in server.log's copy, or in the rotated
\* file it was moved with, and then in the copy as well if that is an old one.
LEMMA QuietCount ==
  ASSUME Once, QuietDay, pc = "count", quiet,
         NEW q \in Started, born[q] < start, born[q] + Zone >= start - Retain,
         born[q] \in Int, start \in Int
  PROVE  Cardinality(Files(q)) = IF InOldCopy(q) THEN 2 ELSE 1
<1>1. /\ \A n \in Rotated(dat) : n \in toread \ read
      /\ Live \in toread \cup read => Live \in DOMAIN dat
      /\ Live \in DOMAIN dat \ toread => \A r \in dat[Live] : born[r] >= start
      /\ toread \subseteq read
      /\ Live \in read =>
           /\ Live \in DOMAIN logd /\ logd[Live] \subseteq dat[Live]
           /\ \A r \in dat[Live] : born[r] < start => r \in logd[Live]
      /\ q \in Lines(dat) \/ \E n \in Rotated(logd) : q \in logd[n]
  BY DEF QuietDay
<1>2. CASE q \in Lines(dat)
  <2>0. Live \in DOMAIN dat /\ q \in dat[Live]
    BY <1>1, <1>2, LinesFacts DEF Rotated
  <2>1. Live \in read
    BY <1>1, <2>0
  <2>2. Live \in DOMAIN logd /\ q \in logd[Live]
    BY <1>1, <2>0, <2>1
  <2>3. \A n \in Rotated(logd) : q \notin logd[n]
    BY <2>0 DEF Once
  <2>4. Files(q) = {Live}
    BY <2>2, <2>3 DEF Files, Rotated
  <2>. QED
    BY <2>1, <2>4, FS_Singleton DEF InOldCopy
<1>3. ASSUME NEW n \in Rotated(logd), q \in logd[n]
      PROVE  Cardinality(Files(q)) = IF InOldCopy(q) THEN 2 ELSE 1
  <2>1. n # Live /\ n \in DOMAIN logd /\ \A m \in Rotated(logd) : q \in logd[m] => m = n
    BY <1>3 DEF Once, Rotated
  <2>2. Live \in read => q \notin logd[Live]
    BY <1>1, <1>3 DEF Once
  <2>3. CASE InOldCopy(q)
    <3>1. Files(q) = {n} \cup {Live}
      BY <1>3, <2>1, <2>3 DEF Files, Rotated, InOldCopy
    <3>2. IsFiniteSet({n}) /\ Cardinality({n}) = 1 /\ Live \notin {n}
      BY <2>1, FS_Singleton
    <3>3. Cardinality({n} \cup {Live}) = 1 + 1
      BY <3>2, FS_AddElement
    <3>. QED
      BY <2>3, <3>1, <3>3
  <2>4. CASE ~InOldCopy(q)
    <3>1. Files(q) = {n}
      BY <1>3, <2>1, <2>2, <2>4 DEF Files, Rotated, InOldCopy
    <3>. QED
      BY <2>4, <3>1, FS_Singleton
  <2>. QED
    BY <2>3, <2>4
<1>. QED
  BY <1>1, <1>2, <1>3

\* On a day on which nothing fails and nothing is rotated while movLogFile
\* runs, every query of the last Retain ticks is counted once, wherever the
\* rotations, copies, crashes and failures of the days before have left it; a
\* second time only if server.log was missing, rotated away just before, and an
\* old copy of it in LOG_DIR holds the query.
THEOREM QuietDaysCount == Spec => []QuietDayCounts
<1> DEFINE Inv == TypeOK /\ LogInv /\ Once /\ QuietDay /\ QuietDayCounts
<1>1. Init => Inv
  BY TypeInit, LogInit, OnceInit DEF Init, QuietDay, QuietDayCounts
<1>2. Inv /\ [Next]_vars => Inv'
  <2> SUFFICES ASSUME Inv, [Next]_vars, pc' = "listed", quiet'
               PROVE  QuietDayCounts'
    BY TypeNext, LogNext, OnceNext, QuietNext DEF QuietDayCounts
  <2>1. CASE cntSrhNums
    <3>1. /\ pc = "count" /\ quiet /\ UNCHANGED <<born, start, logd, read>>
          /\ \A q \in Query : cntmap'[q] = Cardinality(Files(q))
      BY <2>1 DEF cntSrhNums, engine
    <3>2. /\ Started \subseteq Query /\ start \in Int
          /\ \A q \in Started : born[q] \in Int
      BY RunLogsAssumption DEF TypeOK
    <3>3. \A q : InOldCopy(q)' <=> InOldCopy(q)
      BY <3>1 DEF InOldCopy
    <3>4. \A q \in Started :
            born[q] < start /\ born[q] + Zone >= start - Retain =>
              cntmap'[q] = IF InOldCopy(q) THEN 2 ELSE 1
      BY <3>1, <3>2, QuietCount
    <3>. QED
      BY <3>1, <3>3, <3>4 DEF QuietDayCounts, Started
  <2>2. ASSUME NEW q \in Query, Log(q)
        PROVE  QuietDayCounts'
    <3>1. /\ Started' = Started \cup {q} /\ born'[q] = now
          /\ \A r \in Started : born'[r] = born[r]
      BY <2>2, LogFiles
    <3>2. pc = "listed" /\ quiet /\ UNCHANGED <<start, cntmap, logd, read>>
      BY <2>2 DEF Log
    <3>4. \A r : InOldCopy(r)' <=> InOldCopy(r)
      BY <3>2 DEF InOldCopy
    <3>3. ~(now < start)
      BY RunLogsAssumption DEF TypeOK
    <3>. QED
      BY <3>1, <3>2, <3>3, <3>4 DEF QuietDayCounts
  <2>3. CASE UNCHANGED <<born, pc, start, cntmap, quiet, logd, read>>
    BY <2>3 DEF QuietDayCounts, Started, InOldCopy
  <2>4. Tick \/ UNCHANGED vars => UNCHANGED <<born, pc, start, cntmap, quiet, logd, read>>
    BY DEF Tick, vars
  <2>5. ~(Rotate \/ Purge \/ PurgeFails \/ Copy \/ Die \/ EndOfDir \/ Sleep
            \/ (\E n \in DOMAIN dat : Move(n))
            \/ \E n \in toread \cup DOMAIN dat : ReadFails(n))
    BY DEF Rotate, Purge, PurgeFails, Copy, Die, EndOfDir, Sleep, Move, ReadFails, Read
  <2>. QED
    BY <2>1, <2>2, <2>3, <2>4, <2>5 DEF Next
<1>3. Inv => QuietDayCounts
  OBVIOUS
<1>. QED
  BY <1>1, <1>2, <1>3, PTL DEF Spec
=============================================================================
