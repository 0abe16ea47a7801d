------------------------------ MODULE RunLogs ------------------------------
(***************************************************************************)
(* The search logs a host counts: CProDeal::movLogFile brings them from    *)
(* DAT_DIR to LOG_DIR, CProDeal::cntSrhNums counts the queries found       *)
(* there.  The search engine that writes DAT_DIR goes on meanwhile: it     *)
(* appends to server.log and now and then renames it to the time of day.   *)
(*                                                                         *)
(* A log file is the set of the queries in it; its name is "server.log" or *)
(* the local time of its rotation.  strcmp() orders the names of rotated   *)
(* files by time and puts server.log after all of them.                    *)
(***************************************************************************)
EXTENDS Integers, FiniteSets, Functions

CONSTANTS Query,      \* the queries of a run, each one line of a log
          Zone,       \* local time minus UTC
          Retain,     \* the age at which movLogFile removes a log: 6 days
          Horizon,    \* bound on the clock
          MaxFaults   \* bound on the calls that fail

Live == -1  \* the name server.log; no time is negative

ASSUME RunLogsAssumption ==
  /\ IsFiniteSet(Query)
  /\ {Zone, Retain, Horizon, MaxFaults} \subseteq Nat

VARIABLES now,          \* UTC
          dat, logd,    \* DAT_DIR and LOG_DIR: names to sets of queries
          pc,
          start,        \* when movLogFile began
          toread, read, \* entries of DAT_DIR found at opendir(), entries read
          cntmap,       \* how often cntSrhNums counted a query
          born,         \* history: when a query was logged
          quiet,        \* history: nothing failed and server.log was not
                        \* rotated since movLogFile began
          faults

vars == <<now, dat, logd, pc, start, toread, read, cntmap, born, quiet, faults>>
engine == <<now, dat, born>>

Put(dir, n, S) == [m \in DOMAIN dir \cup {n} |-> IF m = n THEN S ELSE dir[m]]
Without(dir, N) == Restrict(dir, DOMAIN dir \ N)
Lines(dir) == UNION {dir[n] : n \in DOMAIN dir}
Started == DOMAIN born

Init ==
  /\ now = 0 /\ dat = <<>> /\ logd = <<>>
  /\ pc = "sleep" /\ start = 0 /\ toread = {} /\ read = {}
  /\ cntmap = [q \in Query |-> 0] /\ born = <<>> /\ quiet = TRUE /\ faults = 0

-----------------------------------------------------------------------------
(* External: time and the search engine *)

Tick == /\ now < Horizon /\ now' = now + 1
        /\ UNCHANGED <<dat, logd, pc, start, toread, read, cntmap, born, quiet, faults>>

Log(q) == /\ q \notin Started
          /\ dat' = Put(dat, Live, {q} \cup IF Live \in DOMAIN dat THEN dat[Live] ELSE {})
          /\ born' = Put(born, q, now)
          /\ UNCHANGED <<now, logd, pc, start, toread, read, cntmap, quiet, faults>>

\* Rotated at most once a tick, so that the new name is free; server.log is
\* there again with the next line.
Rotate == LET n == now + Zone
          IN  /\ Live \in DOMAIN dat /\ n \notin DOMAIN dat \cup DOMAIN logd
              /\ dat' = Put(Without(dat, {Live}), n, dat[Live])
              /\ quiet' = FALSE
              /\ UNCHANGED <<now, logd, pc, start, toread, read, cntmap, born, faults>>

-----------------------------------------------------------------------------
(* movLogFile *)

\* A bug: rotated files are removed a tick early.
OldEarly == {n \in DOMAIN logd : n # Live /\ n <= now - Retain}

\* What is older than Retain; the limit is UTC, the names are local time.
Old == {n \in DOMAIN logd : n # Live /\ n < now - Retain}

Purge ==
  /\ pc = "sleep"
  /\ logd' = Without(logd, Old)
  /\ start' = now /\ toread' = DOMAIN dat /\ read' = {}
  /\ quiet' = TRUE
  /\ pc' = "move"
  /\ UNCHANGED <<engine, cntmap, faults>>

\* opendir() of LOG_DIR or, after the removal, of DAT_DIR fails.
PurgeFails ==
  /\ pc = "sleep" /\ faults < MaxFaults /\ faults' = faults + 1
  /\ logd' \in {logd, Without(logd, Old)}
  /\ start' = now /\ toread' = {} /\ read' = {} /\ quiet' = FALSE
  /\ pc' = "count"
  /\ UNCHANGED <<engine, cntmap>>

\* readdir() returns n, perhaps not if n is newer than the opendir().
Read(n) ==
  /\ pc = "move" /\ n \in (toread \cup DOMAIN dat) \ read
  /\ read' = read \cup {n}
  /\ UNCHANGED <<now, pc, start, toread, cntmap, born>>

\* Two bugs: the copy in LOG_DIR is kept as it is, or every copy gets a name
\* of its own.
CopyKeeps ==
  /\ Read(Live)
  /\ logd' = IF Live \in DOMAIN dat \ DOMAIN logd THEN Put(logd, Live, dat[Live])
             ELSE logd
  /\ UNCHANGED <<dat, quiet, faults>>

CopyDated ==
  /\ Read(Live)
  /\ logd' = IF Live \in DOMAIN dat THEN Put(logd, now + Zone, dat[Live]) ELSE logd
  /\ UNCHANGED <<dat, quiet, faults>>

\* server.log is copied over the copy of the day before, if it still opens.
Copy ==
  /\ Read(Live)
  /\ logd' = IF Live \in DOMAIN dat THEN Put(logd, Live, dat[Live]) ELSE logd
  /\ UNCHANGED <<dat, quiet, faults>>

\* rename() of a rotated file.
Move(n) ==
  /\ Read(n) /\ n # Live
  /\ logd' = Put(logd, n, dat[n]) /\ dat' = Without(dat, {n})
  /\ UNCHANGED <<quiet, faults>>

\* rename() or fopen() fails: the file stays for the next day.
ReadFails(n) ==
  /\ Read(n) /\ faults < MaxFaults /\ faults' = faults + 1
  /\ quiet' = FALSE
  /\ UNCHANGED <<dat, logd>>

\* The process dies, perhaps in the middle of the copy; fputs() on a copy that
\* did not open kills it as well.
Die ==
  /\ pc = "move" /\ faults < MaxFaults /\ faults' = faults + 1
  /\ \/ UNCHANGED logd
     \/ /\ Live \in DOMAIN dat \ read
        /\ \E part \in SUBSET dat[Live] : logd' = Put(logd, Live, part)
  /\ pc' = "sleep" /\ quiet' = FALSE
  /\ UNCHANGED <<engine, start, toread, read, cntmap>>

EndOfDir ==
  /\ pc = "move" /\ toread \subseteq read
  /\ pc' = "count"
  /\ UNCHANGED <<engine, logd, start, toread, read, cntmap, quiet, faults>>

-----------------------------------------------------------------------------
(* cntSrhNums: every line of every file in LOG_DIR is counted. *)

Files(q) == {n \in DOMAIN logd : q \in logd[n]}

\* A bug: a song's count starts at -1.
CountsFromBelow ==
  /\ pc = "count"
  /\ cntmap' = [q \in Query |-> Cardinality(Files(q)) - 1]
  /\ pc' = "listed"
  /\ UNCHANGED <<engine, logd, start, toread, read, quiet, faults>>

cntSrhNums ==
  /\ pc = "count"
  /\ cntmap' = [q \in Query |-> Cardinality(Files(q))]
  /\ pc' = "listed"
  /\ UNCHANGED <<engine, logd, start, toread, read, quiet, faults>>

\* The rest of the day.
Sleep ==
  /\ pc = "listed" /\ pc' = "sleep"
  /\ UNCHANGED <<engine, logd, start, toread, read, cntmap, quiet, faults>>

Next == \/ Tick \/ Rotate \/ Purge \/ PurgeFails \/ Copy \/ Die \/ EndOfDir
        \/ cntSrhNums \/ Sleep
        \/ \E q \in Query : Log(q)
        \/ \E n \in DOMAIN dat : Move(n)
        \/ \E n \in toread \cup DOMAIN dat : ReadFails(n)

Spec == Init /\ [][Next]_vars

-----------------------------------------------------------------------------
Names == {Live} \cup 0..(Horizon + Zone)

TypeOK ==
  /\ now \in 0..Horizon /\ start \in 0..now
  /\ DOMAIN dat \subseteq Names /\ Lines(dat) \subseteq Started
  /\ DOMAIN logd \subseteq Names /\ Lines(logd) \subseteq Started
  /\ pc \in {"sleep", "move", "count", "listed"}
  /\ toread \subseteq Names /\ read \subseteq Names
  /\ cntmap \in [Query -> Nat]
  /\ Started \subseteq Query /\ \A q \in Started : born[q] \in 0..now
  /\ quiet \in BOOLEAN /\ faults \in 0..MaxFaults

\* movLogFile met no server.log, which had just been rotated away: the copy of
\* an earlier day stays in LOG_DIR and q is in it.
InOldCopy(q) == Live \notin read /\ Live \in DOMAIN logd /\ q \in logd[Live]

\* On a day on which nothing fails and no log is rotated meanwhile, every
\* query of the last Retain ticks is counted once, wherever rotations, copies
\* and failures of the days before have left it.  The exception is the one
\* the code makes: what an old copy of server.log holds is counted a second
\* time if there is no server.log to be copied over it (prodeal.cc:101-127).
QuietDayCounts ==
  pc = "listed" /\ quiet =>
    \A q \in Started :
      born[q] < start /\ born[q] + Zone >= start - Retain =>
        cntmap[q] = IF InOldCopy(q) THEN 2 ELSE 1

\* Whatever happens a query is counted twice at most: in the copy of
\* server.log and in one rotated file.
TwiceAtMost == \A q \in Query : cntmap[q] <= 2

\* No query is forgotten before its time: it is in DAT_DIR or in LOG_DIR.
NothingForgotten ==
  \A q \in Started :
    born[q] + Zone >= now - Retain => q \in Lines(dat) \cup Lines(logd)

\* What makes NothingForgotten inductive: a rotated file is named after the
\* last query in it, its name is not taken in LOG_DIR, and the copy of
\* server.log holds no young query that is not elsewhere too.
Rotated(dir) == {n \in DOMAIN dir : n # Live}
LogInv ==
  /\ \A n \in Rotated(dat) : \A q \in dat[n] : born[q] + Zone <= n
  /\ \A n \in Rotated(logd) : \A q \in logd[n] : born[q] + Zone <= n
  /\ Rotated(dat) \cap DOMAIN logd = {}
  /\ \A q \in Started : born[q] + Zone >= now - Retain =>
       q \in Lines(dat) \/ \E n \in Rotated(logd) : q \in logd[n]

\* What makes TwiceAtMost inductive: apart from the copy of server.log a query
\* is in one file only.
Once ==
  /\ \A m, n \in DOMAIN dat : dat[m] \cap dat[n] # {} => m = n
  /\ \A m, n \in Rotated(logd) : logd[m] \cap logd[n] # {} => m = n
  /\ \A m \in DOMAIN dat, n \in Rotated(logd) : dat[m] \cap logd[n] = {}

\* What makes QuietDayCounts inductive: on a quiet day the files of DAT_DIR
\* are server.log and what is still to be read; a server.log that was not there
\* at the start holds later queries only; once copied, the copy of server.log
\* holds what was logged before the start and nothing from elsewhere.
QuietDay ==
  pc \in {"move", "count"} /\ quiet =>
    /\ \A n \in Rotated(dat) : n \in toread \ read
    /\ Live \in toread \cup read => Live \in DOMAIN dat
    /\ Live \in DOMAIN dat \ toread => \A q \in dat[Live] : born[q] >= start
    /\ pc = "count" => toread \subseteq read
    /\ Live \in read =>
         /\ Live \in DOMAIN logd /\ logd[Live] \subseteq dat[Live]
         /\ \A q \in dat[Live] : born[q] < start => q \in logd[Live]
    /\ \A q \in Started : born[q] + Zone >= start - Retain =>
         q \in Lines(dat) \/ \E n \in Rotated(logd) : q \in logd[n]
=============================================================================
