------------------------------ MODULE Pipeline ------------------------------
(***************************************************************************)
(* The daily chain of CProDeal calls on one host, one call per action, and *)
(* the tmp files in WRK_DIR the calls hand to each other.  A group server  *)
(* runs it in GCServer::Preconf, the main cache in McService::runLoop.     *)
(*                                                                         *)
(* Every call returns -1 when a file or directory does not open; only the  *)
(* results of topAfpFile and botAfpFile are looked at.  The chain then     *)
(* goes on with the tmp file an earlier round left behind, and lineCount   *)
(* moves on past the lines that movCntFile failed to move.                 *)
(***************************************************************************)
EXTENDS ProDeal

CONSTANTS Files,       \* the names that may be in AFP_DIR
          MaxHits,     \* bound on the queries of a song in one window
          GroupLimit,  \* Config::GROUP_LIMIT
          CacheLimit,  \* Config::CACHE_LIMIT
          Groups,      \* the number of groups in group_list
          MaxDays,     \* bound on the rounds of a run
          MaxFaults,   \* bound on the calls that fail in a run
          MaxLate      \* bound on the files that come during a round

ASSUME PipelineAssumption ==
  /\ Files \subseteq Name /\ IsFiniteSet(Files)
  /\ {MaxHits, GroupLimit, CacheLimit, Groups, MaxDays, MaxFaults,
      MaxLate} \subseteq Nat

VARIABLES role,    \* "group" or "main"
          afp,     \* AFP_DIR
          sent,    \* what this round renamed into ORG_DIR
          hits,    \* queries per song in LOG_DIR
          wrk,     \* the contents of the tmp files
          have,    \* the tmp files that exist
          cnt,     \* group: the threshold in the request; main: thr
          result,  \* group: the number Preconf reports
          turn,    \* main: the groups of the list that have been visited
          line,    \* main: lineCount
          pc,      \* the call to come
          clean,   \* history: no call of this round failed
          late,    \* history: what joined AFP_DIR since it was listed
          skipped, \* history: the lines that a failed movCntFile passed over
          day, faults

window == <<turn, line, skipped>>

vars == <<role, afp, sent, hits, wrk, have, cnt, result, window, pc, clean,
          late, day, faults>>

Tmp == {"names", "nums", "flt", "top", "bot"}

Init ==
  /\ role \in {"group", "main"}
  /\ afp \in SUBSET Files /\ sent = {}
  /\ hits \in [Song -> 0..MaxHits]
  /\ wrk = [f \in Tmp |-> <<>>] /\ have = {}
  /\ cnt \in IF role = "group" THEN 0..MaxHits ELSE {0}
  /\ result = 0 /\ turn = 0 /\ line = 0 /\ late = {} /\ skipped = {}
  /\ pc = "names" /\ clean = TRUE /\ day = 1 /\ faults = 0

Write(f, text) == /\ wrk' = [wrk EXCEPT ![f] = text]
                  /\ have' = have \cup {f}

Fault == faults < MaxFaults /\ faults' = faults + 1

GetNames ==
  /\ pc = "names"
  /\ \E q \in getAfpName(afp) : Write("names", q)
  /\ pc' = "count"
  /\ UNCHANGED <<role, afp, sent, hits, cnt, result, window, clean, late, day, faults>>

CountSearches ==
  /\ pc = "count"
  /\ \E q \in cntSrhNums(hits, IF role = "main" THEN 1 ELSE 0) : Write("nums", q)
  /\ pc' = "filter"
  /\ UNCHANGED <<role, afp, sent, hits, cnt, result, window, clean, late, day, faults>>

\* fltLogFile cannot work without its two inputs.
Filter ==
  /\ pc = "filter" /\ {"names", "nums"} \subseteq have
  /\ Write("flt", fltLogFile(wrk.names, wrk.nums))
  /\ pc' = "list"
  /\ UNCHANGED <<role, afp, sent, hits, cnt, result, window, clean, late, day, faults>>

\* A call before the listing fails and its tmp file stays as it was.
StepFails ==
  /\ pc \in {"names", "count", "filter"}
  /\ \/ Fault
     \/ pc = "filter" /\ ~({"names", "nums"} \subseteq have) /\ UNCHANGED faults
  /\ clean' = FALSE
  /\ pc' = CASE pc = "names" -> "count" [] pc = "count" -> "filter"
             [] pc = "filter" -> "list"
  /\ UNCHANGED <<role, afp, sent, hits, wrk, have, cnt, result, window, late, day>>

\* A bug: the group reports the index of the last line, for the number.
ListTopIndex ==
  LET top == topAfpFile(wrk.flt, cnt, GroupLimit)
  IN  /\ pc = "list" /\ role = "group" /\ "flt" \in have
      /\ Write("top", top)
      /\ result' = Len(top) - 1
      /\ pc' = IF top = <<>> THEN "done" ELSE "move"
      /\ UNCHANGED <<role, afp, sent, hits, cnt, window, clean, late, day, faults>>

\* GCServer::Preconf, topAfpFile: an empty list ends the call with CANCELLED.
ListTop ==
  LET top == topAfpFile(wrk.flt, cnt, GroupLimit)
  IN  /\ pc = "list" /\ role = "group" /\ "flt" \in have
      /\ Write("top", top)
      /\ result' = Len(top)
      /\ pc' = IF top = <<>> THEN "done" ELSE "move"
      /\ UNCHANGED <<role, afp, sent, hits, cnt, window, clean, late, day, faults>>

\* McService::runLoop, botAfpFile.
ListBot ==
  LET bot == botAfpFile(wrk.names, wrk.flt, CacheLimit)
  IN  /\ pc = "list" /\ role = "main" /\ {"names", "flt"} \subseteq have
      /\ Write("bot", bot.list)
      /\ cnt' = bot.thr
      /\ pc' = "move"
      /\ UNCHANGED <<role, afp, sent, hits, result, window, clean, late, day, faults>>

\* topAfpFile or botAfpFile returns -1: both callers give the round up.
ListFails ==
  /\ pc = "list"
  /\ \/ Fault
     \/ /\ ~({IF role = "main" THEN "names" ELSE "flt", "flt"} \subseteq have)
        /\ UNCHANGED faults
  /\ clean' = FALSE /\ pc' = "done"
  /\ result' = IF role = "group" THEN -1 ELSE result
  /\ UNCHANGED <<role, afp, sent, hits, wrk, have, cnt, window, late, day>>

MoveTop ==
  /\ pc = "move" /\ role = "group"
  /\ sent' = movAfpFile(afp, wrk.top)
  /\ afp' = afp \ movAfpFile(afp, wrk.top)
  /\ pc' = "done"
  /\ UNCHANGED <<role, hits, wrk, have, cnt, result, window, clean, late, day, faults>>

\* movAfpFile fails; Preconf reports the number all the same.
MoveTopFails ==
  /\ pc = "move" /\ role = "group"
  /\ Fault /\ clean' = FALSE
  /\ pc' = "done"
  /\ UNCHANGED <<role, afp, sent, hits, wrk, have, cnt, result, window, late, day>>

\* The next group of the list has reported k files: lineCount moves on by k.
Visit(k) ==
  /\ pc = "move" /\ role = "main" /\ turn < Groups
  /\ turn' = turn + 1 /\ line' = line + k
  /\ UNCHANGED <<role, hits, wrk, have, cnt, result, pc, day>>

MoveCnt(k) ==
  LET down == movCntFile(afp, wrk.bot, line, k)
  IN  /\ Visit(k)
      /\ sent' = sent \cup down
      /\ afp' = afp \ down /\ late' = late \ down
      /\ UNCHANGED <<clean, skipped, faults>>

\* movCntFile fails: its result is not looked at and no file of its lines is
\* moved, for this group or a later one.
MoveCntFails(k) ==
  /\ Visit(k)
  /\ skipped' = skipped \cup (line + 1)..(line + k)
  /\ Fault /\ clean' = FALSE
  /\ UNCHANGED <<afp, sent, late>>

\* No OK from the group: it gets no lines.
NoReply ==
  /\ pc = "move" /\ role = "main" /\ turn < Groups
  /\ turn' = turn + 1
  /\ UNCHANGED <<role, afp, sent, hits, wrk, have, cnt, result, line, skipped,
                 pc, clean, late, day, faults>>

\* Main: no group is left in the list.
EndOfGroups ==
  /\ pc = "move" /\ role = "main" /\ turn = Groups
  /\ pc' = "done"
  /\ UNCHANGED <<role, afp, sent, hits, wrk, have, cnt, result, window, clean,
                 late, day, faults>>

\* A file joins AFP_DIR after the names were listed: the searcher takes over
\* the files of DST_DIR at times of its own (Ingest in FingerMove).
Arrive(n) ==
  /\ pc \notin {"names", "done"} /\ n \notin afp
  /\ Cardinality(late) < MaxLate
  /\ afp' = afp \cup {n} /\ late' = late \cup {n}
  /\ UNCHANGED <<role, sent, hits, wrk, have, cnt, result, window, pc, clean,
                 day, faults>>

\* A day later other songs are popular and some files have come back.
NextDay(back) ==
  /\ pc = "done" /\ day < MaxDays
  /\ day' = day + 1 /\ pc' = "names" /\ clean' = TRUE
  /\ afp' = afp \cup back /\ sent' = {} /\ late' = {}
  /\ hits' \in [Song -> 0..MaxHits]
  /\ cnt' \in IF role = "group" THEN 0..MaxHits ELSE {0}
  /\ result' = 0 /\ turn' = 0 /\ line' = 0 /\ skipped' = {}
  /\ UNCHANGED <<role, wrk, have, faults>>

Next ==
  \/ GetNames \/ CountSearches \/ Filter \/ StepFails
  \/ ListTop \/ ListBot \/ ListFails \/ MoveTop \/ MoveTopFails
  \/ \E k \in 1..GroupLimit : MoveCnt(k) \/ MoveCntFails(k)
  \/ NoReply \/ EndOfGroups
  \/ \E n \in Files : Arrive(n)
  \/ \E back \in SUBSET sent : NextDay(back)

Spec == Init /\ [][Next]_vars

-----------------------------------------------------------------------------
Listed(q) == {q[i].id : i \in DOMAIN q}

\* The directory as it was when getAfpName listed it, nothing taken yet.
Old == afp \ late

\* A list not yet acted upon, made without a failed call.
Unused(r) == role = r /\ pc = "move" /\ turn = 0
Fresh(r) == clean /\ Unused(r)

\* What Preconf is about to take from the group: songs with a file queried
\* more often than the main cache's threshold, GROUP_LIMIT of them at most,
\* and when one is left out, the list is full of songs at least as hot.
HottestAreTaken ==
  Fresh("group") =>
    LET hot == {s \in Ids(Old) : hits[s] > cnt}
    IN  /\ Listed(wrk.top) \subseteq hot /\ Len(wrk.top) <= GroupLimit
        /\ \A s \in hot \ Listed(wrk.top) :
             /\ Len(wrk.top) = GroupLimit
             /\ \A t \in Listed(wrk.top) : hits[t] >= hits[s]

\* The files that rename() finds under the names of botAfpsFile.tmp.
Given == movAfpFile(afp, wrk.bot)

\* The files the main cache is about to give back: CACHE_LIMIT at most, none
\* hotter than the threshold it sends to the groups, which every promoted song
\* has to exceed.  A file stays only if the list is full of files no hotter,
\* or else for its name: botAfpFile lists a queried song as "<id>", so the
\* file "<id>.afp" of a queried song is never given back, cold as it may be.
ColdestAreGiven ==
  Fresh("main") =>
    /\ Cardinality(Given) <= CacheLimit
    /\ \A n \in Given : hits[n.id] <= cnt /\ (n.dotted => hits[n.id] = 0)
    /\ \A n \in Old \ Given :
         \/ hits[n.id] > 0 /\ n.dotted
         \/ Len(wrk.bot) = CacheLimit /\ hits[n.id] >= cnt

\* The one-step summaries used by the module FingerMove allow every list the
\* chain of calls can produce: without a failure those of the directory and
\* the day's queries (Prep, PreconfOk), after one those of some directory and
\* some queries (PrepStale, PreconfStale), even when the tmp files that the
\* list was made from are of different days.
SummariesCoverLists ==
  /\ Fresh("group") => wrk.top \in HotLists(Old, hits, cnt, GroupLimit)
  /\ Fresh("main") => [list |-> wrk.bot, thr |-> cnt] \in
                        ColdLists(Old, hits, CacheLimit)
  /\ Unused("group") => \E dir \in SUBSET Files, h \in [Song -> 0..MaxHits] :
       wrk.top \in HotLists(dir, h, cnt, GroupLimit)
  /\ Unused("main") => \E dir \in SUBSET Files, h \in [Song -> 0..MaxHits] :
       [list |-> wrk.bot, thr |-> cnt] \in ColdLists(dir, h, CacheLimit)

\* Stale tmp files included: Preconf never takes more files than the number
\* it reports, and that number never exceeds GROUP_LIMIT.
ReportCoversTaken ==
  role = "group" /\ sent # {} =>
    Cardinality(sent) <= result /\ result <= GroupLimit

\* The names in the windows that movCntFile has worked through.
Served ==
  {wrk.bot[i] : i \in {j \in DOMAIN wrk.bot : j <= line /\ j \notin skipped}}

\* After lineCount lines, what has left AFP_DIR is what those lines name,
\* except the lines of a window whose movCntFile failed: they and no others
\* are left out (service.cc:167 adds their number all the same).  Nothing is
\* taken ahead of lineCount, and what is still there under a served name has
\* come since the list was made.
WindowsTile ==
  role = "main" /\ pc = "move" => sent \subseteq Served /\ Served \cap afp \subseteq late
=============================================================================
