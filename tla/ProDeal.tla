------------------------------ MODULE ProDeal ------------------------------
(***************************************************************************)
(* The file-list algorithms of src/prodeal.cc: which fingerprint files a   *)
(* host gives away.  A group server offers its hottest files (topAfpFile,  *)
(* movAfpFile), the main cache gives back its coldest (botAfpFile,         *)
(* movCntFile).                                                            *)
(*                                                                         *)
(* A file name is "<id>.afp" or "<id>"; atoi() reads the same id from both *)
(* (prodeal.cc:237, 322, 329), rename() tells them apart.  A line of a     *)
(* count file is a record [id, num].  The order of readdir() and the order *)
(* std::sort gives to equal counts are arbitrary, so the operators that    *)
(* depend on them return the set of sequences the code may produce.        *)
(***************************************************************************)
EXTENDS Integers, Sequences, FiniteSets, SequencesExt

CONSTANT Song  \* the song ids; finitely many

Name == [id : Song, dotted : BOOLEAN]
Dotted(s) == [id |-> s, dotted |-> TRUE]   \* "<s>.afp"
Bare(s) == [id |-> s, dotted |-> FALSE]    \* "<s>"

ASSUME FiniteSongs == IsFiniteSet(Song)

Ids(dir) == {n.id : n \in dir}

\* afpNameFile.tmp: one line per directory entry, in readdir() order.
getAfpName(dir) == SetToSeqs(dir)

\* A bug: both hosts sort descending.
BeforeDescending(flg, x, y) == x.num >= y.num

\* The comparators cmp (descending) and lmp (ascending) of prodeal.cc.
Before(flg, x, y) == IF flg = 0 THEN x.num >= y.num ELSE x.num <= y.num

\* A queried song has a line; the others have none (cntmap[sid]++ creates it).
Lines(hits) == {[id |-> s, num |-> hits[s]] : s \in {t \in Song : hits[t] > 0}}

\* logNumCount.tmp for the hit counts found in the logs.
cntSrhNums(hits, flg) ==
  {q \in SetToSeqs(Lines(hits)) :
     \A i, j \in DOMAIN q : i < j => Before(flg, q[i], q[j])}

\* The entries of q that are in S, in their order (SelectSeq, written out
\* since the provers cannot expand it).
Filtered(q, S) ==
  LET f[n \in 0..Len(q)] ==
        IF n = 0 THEN <<>>
        ELSE IF q[n] \in S THEN Append(f[n - 1], q[n]) ELSE f[n - 1]
  IN  f[Len(q)]

\* A bug: the songs without a file stay in the list.
FltKeepsAll(names, nums) == nums

\* fltLogsFile.tmp: the counted songs that still have a file.
fltLogFile(names, nums) ==
  Filtered(nums, {l \in ToSet(nums) : l.id \in Ids(ToSet(names))})

\* Two bugs: no limit, or a song as hot as the threshold is let in.
AdmittedNoLimit(flt, cnt, limit) ==
  {k \in DOMAIN flt : \A i \in 1..k : flt[i].num > cnt}
AdmittedAtThreshold(flt, cnt, limit) ==
  {k \in DOMAIN flt : k <= limit /\ \A i \in 1..k : flt[i].num >= cnt}

\* The loop of topAfpFile stops at the limit and at the first count <= cnt.
Admitted(flt, cnt, limit) ==
  {k \in DOMAIN flt : k <= limit /\ \A i \in 1..k : flt[i].num > cnt}

\* topAfpsFile.tmp; its length is the function's result.
topAfpFile(flt, cnt, limit) ==
  [i \in 1..Cardinality(Admitted(flt, cnt, limit)) |-> Dotted(flt[i].id)]

\* botAfpsFile.tmp and the threshold: first the files nobody queried, by
\* their full name, then the queried ones from the coldest, by bare id.
Least(a, b) == IF a <= b THEN a ELSE b

ColdList(idle, flt, limit) ==
  LET k == Least(limit, Len(idle))
      m == Least(limit - k, Len(flt))
  IN  [list |-> SubSeq(idle, 1, k) \o [i \in 1..m |-> Bare(flt[i].id)],
       thr  |-> IF m = 0 THEN 0 ELSE flt[m].num]

botAfpFile(names, flt, limit) ==
  ColdList(Filtered(names, {n \in ToSet(names) : n.id \notin Ids(ToSet(flt))}),
           flt, limit)

\* The files rename() really moves: the listed names present in AFP_DIR.
movAfpFile(afp, top) == afp \cap ToSet(top)

\* A bug: one line too many at the end of the window.
WindowTooLong(bot, pos, cnt) == {i \in DOMAIN bot : pos < i /\ i <= pos + cnt + 1}

\* Lines pos+1 .. pos+cnt of botAfpsFile.tmp.
Window(bot, pos, cnt) == {i \in DOMAIN bot : pos < i /\ i <= pos + cnt}

movCntFile(afp, bot, pos, cnt) ==
  afp \cap {bot[i] : i \in Window(bot, pos, cnt)}

-----------------------------------------------------------------------------
(***************************************************************************)
(* Each pipeline in one step, for the modules that do not follow the       *)
(* intermediate files: a directory and hit counts give the possible lists. *)
(* SummariesCoverLists (Pipeline) compares them with the calls above.       *)
(***************************************************************************)

Ranked(S, hits, flg) ==
  {q \in SetToSeqs({l \in Lines(hits) : l.id \in S}) :
     \A i, j \in DOMAIN q : i < j => Before(flg, q[i], q[j])}

Idle(dir, hits) == {n \in dir : hits[n.id] = 0}

\* Group server: GCServer::Preconf with threshold cnt.
HotLists(dir, hits, cnt, limit) ==
  {topAfpFile(q, cnt, limit) : q \in Ranked(Ids(dir), hits, 0)}

\* Main cache: McService::runLoop up to botAfpFile.
ColdLists(dir, hits, limit) ==
  {ColdList(u, q, limit) : u \in SetToSeqs(Idle(dir, hits)),
                           q \in Ranked(Ids(dir), hits, 1)}
=============================================================================
