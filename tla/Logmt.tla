-------------------------------- MODULE Logmt --------------------------------
(***************************************************************************)
(* The log of src/logmt.cc: handlers and the loop call logstring, the      *)
(* thread mtlogthr writes the lines to server.log and begins a new file    *)
(* after MAX_LOG_CUNT of them, and at its first line.  The queue between   *)
(* them is Fifo, which Pqueue implements; nothing calls logover, so it is  *)
(* neither reset nor resized after logstart.  A file is the sequence of    *)
(* its lines and a node is its line.                                       *)
(***************************************************************************)
EXTENDS Naturals, Sequences, SequencesExt

CONSTANTS Producer,       \* the threads that log
          Logger,         \* mtlogthr
          Node, NULL,
          Size,           \* the argument of setsize in logstart
          MAX_LOG_CUNT,
          LastSecond,     \* bound on the clock
          MaxFaults       \* bound on failing calls and deaths of the process

ASSUME LogmtAssumption ==
  /\ Logger \notin Producer /\ NULL \notin Node \cup Seq(Node)
  /\ {Size, MAX_LOG_CUNT} \subseteq Nat \ {0} /\ {LastSecond, MaxFaults} \subseteq Nat

VARIABLES q, size, hand,  \* the queue, and the node of each thread: see Fifo
          pc, count,      \* mtlogthr
          live,           \* server.log, NULL when there is none
          old,            \* per second, the file that is named after it
          now,
          put,            \* history: the lines in the order of their put()
          rotated,        \* history: the second of the last rotation
          lost,           \* history: lines a failure, a death or two rotations
                          \* in one second account for
          faults

queue == <<q, size, hand>>
files == <<live, old>>
history == <<put, rotated, lost>>
vars == <<queue, pc, count, files, now, history, faults>>

Queue == INSTANCE Fifo WITH Consumer <- {Logger}, DefaultSize <- Size, Sizes <- {}

Seconds == 0..LastSecond

Init ==
  /\ Queue!Init /\ pc = "get" /\ count = 0
  /\ live = NULL /\ old = [s \in Seconds |-> <<>>] /\ now = 0
  /\ put = <<>> /\ rotated = NULL /\ lost = {} /\ faults = 0

Step(from, to) == pc = from /\ pc' = to

-----------------------------------------------------------------------------
\* logstring: a line is made, each line once ...
New(p, n) ==
  /\ n \notin ToSet(put) \cup lost /\ Queue!New(p, n)
  /\ UNCHANGED <<pc, count, files, now, history, faults>>

\* ... and put as soon as there is room.
Put(p) ==
  /\ Queue!Put(p) /\ put' = Append(put, hand[p])
  /\ UNCHANGED <<pc, count, files, now, rotated, lost, faults>>

\* A bug: a rename() that fails ends the thread.
GetNeedsFile ==
  /\ (count = 0 => live # NULL) /\ Queue!Get(Logger)
  /\ Step("get", IF count = 0 THEN "rename" ELSE "write")
  /\ UNCHANGED <<count, files, now, history, faults>>

\* get(): a file is begun when none of its lines is counted.
Get ==
  /\ Queue!Get(Logger)
  /\ Step("get", IF count = 0 THEN "rename" ELSE "write")
  /\ UNCHANGED <<count, files, now, history, faults>>

\* A bug: FORMAT ends with the minutes.
NameOfMinute(s) == 2 * (s \div 2)
Name(s) == s

\* rename(LOG_NAME, fname) replaces a file of that name, and does nothing
\* when there is no server.log.
Rename ==
  /\ Step("rename", "open")
  /\ IF live = NULL THEN UNCHANGED <<files, rotated, lost>>
     ELSE /\ old' = [old EXCEPT ![Name(now)] = live] /\ live' = NULL
          /\ rotated' = now
          /\ lost' = IF rotated = now THEN lost \cup ToSet(old[now]) ELSE lost
  /\ UNCHANGED <<queue, count, now, put, faults>>

Fault == faults < MaxFaults /\ faults' = faults + 1

\* fopen() is then going to truncate what could not be renamed.
RenameFails ==
  /\ Fault /\ live # NULL /\ Step("rename", "open")
  /\ lost' = lost \cup ToSet(live)
  /\ UNCHANGED <<queue, count, files, now, put, rotated>>

\* fopen(LOG_NAME, "wb").
Open ==
  /\ Step("open", "write") /\ live' = <<>>
  /\ UNCHANGED <<queue, count, old, now, history, faults>>

\* A bug: ">" for ">=".
CountedPast == IF count + 1 > MAX_LOG_CUNT THEN 0 ELSE count + 1
Counted == IF count + 1 >= MAX_LOG_CUNT THEN 0 ELSE count + 1

\* fputs(), fflush() and delete.
Write ==
  /\ Step("write", "get")
  /\ live' = Append(live, hand[Logger])
  /\ count' = Counted
  /\ Queue!Delete(Logger)
  /\ UNCHANGED <<old, now, history, faults>>

\* The disk is full: the line is counted all the same.
WriteFails ==
  /\ Fault /\ Step("write", "get")
  /\ lost' = lost \cup {hand[Logger]}
  /\ count' = Counted
  /\ Queue!Delete(Logger)
  /\ UNCHANGED <<files, now, put, rotated>>

\* The process dies, in fputs(0, ..) if fopen() failed or of anything else,
\* and starts anew: logstart.
Restart ==
  /\ Fault /\ pc' = "get" /\ count' = 0
  /\ q' = <<>> /\ hand' = [t \in DOMAIN hand |-> NULL]
  /\ lost' = lost \cup ((ToSet(q) \cup {hand[t] : t \in DOMAIN hand}) \ {NULL})
  /\ UNCHANGED <<size, files, now, put, rotated>>

Tick == now < LastSecond /\ now' = now + 1
        /\ UNCHANGED <<queue, pc, count, files, history, faults>>

-----------------------------------------------------------------------------
LogThread == Get \/ Rename \/ RenameFails \/ Open \/ Write \/ WriteFails

Next == \/ \E p \in Producer : Put(p) \/ \E n \in Node : New(p, n)
        \/ LogThread \/ Restart \/ Tick

Spec == Init /\ [][Next]_vars

\* mtlogthr runs.
FairSpec == Spec /\ WF_vars(LogThread)

-----------------------------------------------------------------------------
Content(f) == IF f = NULL THEN <<>> ELSE f

\* Where lines are, the older ones first: the rotated files by their names,
\* server.log, the line in hand and the queue.
Places == 0..(LastSecond + 3)
At(k) == CASE k \in Seconds -> old[k]
           [] k = LastSecond + 1 -> Content(live)
           [] k = LastSecond + 2 -> IF hand[Logger] = NULL THEN <<>> ELSE <<hand[Logger]>>
           [] k = LastSecond + 3 -> q
Spots == UNION {{k} \X DOMAIN At(k) : k \in Places}
Line(a) == At(a[1])[a[2]]
Earlier(a, b) == a[1] < b[1] \/ (a[1] = b[1] /\ a[2] < b[2])

\* Read in that order these are the lines put, each once and in the order of
\* their put, but for those lost by a failed call, a death of the process or a
\* rotation in the second of another.
KeptInOrder ==
  LET Kept == {a \in Spots : Line(a) \notin lost}
  IN  /\ {Line(a) : a \in Kept} = ToSet(put) \ lost
      /\ \A a, b \in Kept : Earlier(a, b) =>
           \A i, j \in DOMAIN put : put[i] = Line(a) /\ put[j] = Line(b) => i < j

\* No file has more than MAX_LOG_CUNT lines, whatever failed and whenever the
\* process was started.
FilesFit ==
  \A f \in {live} \cup {old[s] : s \in Seconds} : Len(Content(f)) <= MAX_LOG_CUNT

\* A line that was put gets into a file or is lost by one of the above.
LinesReachFile ==
  \A n \in Node : n \in ToSet(put) ~>
    n \in lost \cup ToSet(Content(live)) \cup UNION {ToSet(old[s]) : s \in Seconds}
=============================================================================
