# finger_move: specifications and proofs

finger_move spreads audio fingerprint files (`<id>.afp`) over the hosts of a search
service so that hot songs are held centrally and cold ones in the groups. Once a day the
*main cache* lists its coldest files and visits the *groups* in turn. A group sends its
hottest files to the main cache (promotion), and the main cache sends as many cold files
back (demotion). The *sub caches* are replicas of the main cache. All transfers are
synchronous gRPC calls, the state is in directories, and nothing is ever retried.

This directory holds TLA+ modules of that program, TLC configurations and TLAPS proofs.
Source positions below are relative to the repository; its own code is in `src/`, the RPC
interface in `proto/dynamicFingerMove.proto`.

## Inventory

### Hosts, threads and directories

Every host has `AFP_DIR` (files in use), `DST_DIR` (files that have arrived; the search
engine, which is not part of the repository, takes them into `AFP_DIR`), `ORG_DIR` (files
on their way out), `DAT_DIR` (the engine's logs), `LOG_DIR` (logs to be counted) and
`WRK_DIR` (tmp files).

| component | source | state | operations | interacts with |
|---|---|---|---|---|
| File lists (`CProDeal`) | `prodeal.cc` | tmp files in `WRK_DIR`, `LOG_DIR` | `movLogFile`, `getAfpName`, `cntSrhNums`, `fltLogFile`, `topAfpFile`, `botAfpFile`, `movAfpFile`, `movCntFile` | called by `Preconf` and `runLoop` |
| Main loop (`McService`) | `service.cc`, `client.cc` | `lineCount`, `thr`, `botAfpsFile.tmp`, `ORG_DIR` | `runLoop`, `McConfClient::preConf`, `McMoveClient::afpMove`, `McSyncClient::appDel`/`appAdd` | calls groups and sub caches |
| Group server | `server.cc`, `client.cc` | `ORG_DIR`, client threads | `GCServer::Preconf`, `GMServer::Afpmove`, `GrMoveClient` thread | called by the main loop, calls the main cache |
| Main move server (`McServer`) | `server.cc` | none beyond its directories | `Afpmove` | called by group threads, calls sub caches |
| Sub cache server (`ScServer`) | `server.cc` | its directories | `Addafps`, `Delafps` | called by the main cache |
| Search engine (outside) | - | `DAT_DIR`, `AFP_DIR` | logs queries, rotates `server.log`, takes `DST_DIR` into use | files only |
| Blocking queue (`pqueue`) | `tpqueue.h` | linked list, size, flag, two wait counters | `put`, `get`, `setsize`, `setflag`, `releaseFree`, `resetqueue` | every logging thread |
| Log thread (`logmt`) | `logmt.cc` | a file, a thread, a `pqueue` | `logstart`, `logstring`, `mtlogthr`, `logover` | all threads |
| Configuration | `autoconf.cc` | static strings and limits, `overflag` | `startInspect`, the inspector thread that re-reads `../conf`, `dispath`, `closeInspect`, `resetInspect` | read by all threads, no lock |
| RPC wrappers | `grpcwrap.cc` | none | forward one call each | - |
| Process start | `service.cc` | `sub_list` | start servers and threads | - |

### What is hard, and what makes each part correct

* **Exchange.** Promotion runs in its own threads, and a visit does not wait for it. The next
  exchange empties `ORG_DIR` without looking at who still reads it. Errors skip a file, a
  sub cache or a group; hosts die. Correct means: no file vanishes silently, none is served
  by two holders, the sub caches mirror the main cache in both directions, every visit and
  every thread ends, and what was sent arrives. No call has a deadline (`grpcwrap.cc:27,43,60,65`), so the last two hold
  only as far as peers answer.
* **File lists.** Six calls per host communicate through tmp files and five of their results are
  ignored, so a failed call lets the next one work on the files of another day. Limits,
  thresholds and windows are the off-by-one country, and a list of names that `rename` does not find moves nothing.
  Correct means: the hottest files are taken and the coldest that can be moved are given, a promoted song is hotter than
  any demoted one, windows tile the list.
* **Log files.** The engine appends and rotates while `movLogFile` copies, renames and removes.
  Correct means: a query is counted once on a day without failure or rotation (twice, if `LOG_DIR` has it in an old copy of
  `server.log` that nothing replaces), and never forgotten before its time.
* **Queue.** Monitors with hand-kept wait counters. Correct means: no lost wakeup, a
  well-formed list under every interleaving of the control calls, FIFO order.
* **Log thread.** The count of lines is a local variable, the file is renamed to a name with
  seconds, and `logover` clears the flag again right after setting it. Correct means: every line
  is in the files once and in order, files have the right length, nobody sleeps uncounted.
* **Configuration.** An unsynchronised writer, a file that may be half written, inspectors that may outlive
  `resetInspect`. Correct means: what does not change is stable under every call, a name never
  gets another one's value unless the file was cut there, the last edition is used in the end.
* **Group server.** A handler outlives the main cache that called it, a client thread its handler; a new
  `Preconf` may meet both in the same files. Correct means: the files that can be lost are
  those the new handler removes, and the group reports all it takes.
* **Descriptors.** Files and directories that are never closed add up over months. Correct
  means: only the known ones do, and no `open` fails before they have.

`PROJECT.json` lists each hazard at its line with the properties that would catch it.

## Modules

| module | models | composed with |
|---|---|---|
| `ProDeal` | the list algorithms as operators; sets of results where `readdir` or `std::sort` leave the order open | - |
| `Pipeline` | the daily chain of `CProDeal` calls on one host, group or main cache, with stale tmp files | extends `ProDeal` |
| `FingerMove` | the exchange: loop, group threads, main cache handlers, sub caches, failures, restarts | extends `ProDeal`, implements `Placement` |
| `Placement` | abstract: where a file is, and the ways it can go | - |
| `Handlers` | `Preconf` from `topAfpFile` on, taken apart, with several handlers and client threads of one group | - |
| `RunLogs` | `movLogFile` and the count of `cntSrhNums` against the engine's logging and rotation | - |
| `Fifo` | abstract: a bounded FIFO | - |
| `Pqueue` | the monitor and linked list of `tpqueue.h`, with its users in `logmt.cc`, `logover` included | implements `Fifo` |
| `Logmt` | `logstart`, `logstring`, `mtlogthr`, the log files, deaths of the process | uses `Fifo` for the queue |
| `Autoconf` | the inspectors, the configuration file being edited, the parameters | - |
| `Descriptors` | the opens and closes of a main cache's or group's process | - |
| `FingerMoveProofs` | theorems: nothing lost, `FingerMove` implements `Placement`, the sub caches, the days without failures | extends `FingerMove` |
| `PipelineProofs`, `RunLogsProofs`, `PqueueProofs`, `HandlersProofs`, `LogmtProofs`, `AutoconfProofs`, `DescriptorsProofs` | theorems | extend their modules |
| `MCPipeline`, `MCFingerMove`, `MCHandlers`, `MCRunLogs`, `MCPqueue`, `MCLogmt`, `MCAutoconf`, `MCDescriptors` | instances for TLC | extend their modules |

Operators introduced as "a bug" in a comment are not used by any specification. Each is a
variant of the operator that follows it, kept to test that a property notices the difference
(`mutants` in `PROJECT.json`).

### ProDeal and Pipeline

A file name is a song id and a flag for the suffix, since `atoi` forgets the suffix and
`rename` does not: `botAfpFile` writes queried songs by bare id (`prodeal.cc:344`) and idle
ones by file name. A tmp file is a sequence of names or of `[id, num]` lines. `Pipeline`
runs one call per action. `StepFails`, `MoveTopFails` and `MoveCntFails` are error returns that the callers ignore, `ListFails`
the one they honour. `Visit` is one turn of the loop over the groups: `movCntFile` takes its window (`MoveCnt`) or fails (`MoveCntFails`), and
`lineCount` moves on in both cases (`service.cc:167-172`); a group without an OK gets no lines (`NoReply`). `Arrive` is a file that the
search engine takes into use between the listing and the moves. `Filtered` keeps the lines of a list that are in a set; it is a recursive function, which the
prover can unfold where `SelectSeq` is closed to it. `role` chooses `Preconf` or `runLoop`; the hit counts are an arbitrary input (the
counting itself is in `RunLogs`). `HotLists` and `ColdLists` do a whole chain in one step for
`FingerMove`; `SummariesCoverLists` checks that they allow whatever the chain computes: without a failure for the directory and the
queries of the day, and after one for some directory and some queries, although the tmp files then may be of different days.

Histories: `clean` (no call of this round failed), `late` (what came since the listing; `Old` is `AFP_DIR` as it was listed) and `skipped` (the lines a
failed `movCntFile` passed over). Three properties speak of what the code leaves undone, and name it:

* `ColdestAreGiven` is about the files that `rename` finds. A queried song is listed as `<id>`, so its `<id>.afp` stays in the main cache
  however cold it is beside others (`prodeal.cc:344`, `441`); among the rest the coldest are given.
* `WindowsTile`: what has left `AFP_DIR` is what the lines before `lineCount` name, but for the lines of a failed `movCntFile`. Those no group is given on that day.
  A name served whose file is there has come late.
* `HottestAreTaken` and `ColdestAreGiven` are about days without a failed call.

### FingerMove

`afp`, `dst` and `org` are the directories. The loop is `pc` (`sleep`, `preconf`, `mov`, `move`,
`del`) with `turn` (the group being visited), `bot`, `thr`, `result`, `lineCount` as in
`runLoop`, and `todo`, `cur`, `i` for `McMoveClient::afpMove`. A `Client` is a thread of
`GrMoveClient`: `cmust` is what `opendir` saw, `cseen` what it has read; `readdir` may or may
not return later entries. `calls` are the running invocations of `McServer::Afpmove`; `heard`
says that the client still waits for the answer, so that a broken connection (`CallBreaks`) leaves two
invocations running.

Granularity: a handler that makes no call of its own (`Preconf`, `GMServer::Afpmove`,
`Addafps`, `Delafps`) is one step with the call to it, split by outcome: done and answered,
done and not answered, not done. `McServer::Afpmove` calls the sub caches and is one step per
sub cache and per write. A demotion is one step per file and per sub cache. Files are written
whole: a transfer that stops halfway is a failure that either wrote the file or did not.

`troubled` is the history the safety properties need: the files an error was reported about,
a crash cut off, or another step overtook (a second copy still waiting in `DST_DIR`, a new
`Preconf` that removes a file the old thread has not read). The properties
promise nothing about these, because the code does not; what they say is that **nothing else** goes wrong
with a file, and `NoTrouble` says that without failures and with every exchange settled within
its day no file ever becomes troubled.

`Placement` is the exchange as its users see it: a file is kept by one holder, or on its way up, or on
its way down, or lost, and moves only group - up - main cache - down - group. `Place` maps
the directories, threads and handlers to it; a troubled file is lost, since nothing in the code
brings it back. A file that two holders serve, or that nobody serves or carries, has no place in
`Placement`, so the refinement also says that no file is kept twice.

### Handlers

`FingerMove` has `Preconf` in one step, which is right as long as one main cache waits for each
answer. A main cache that is restarted does not. `Handlers` keeps one group and the files it
gives up; `pc[h]` is the call of `Preconf` a handler is in, `lines[h]` what it has still to
rename, `cst[h]` and `held[h]` its client thread, `must` and `seen` what `opendir` and `readdir`
gave each thread. The calls before `topAfpFile` share tmp files too, so its list is any list. `top`
is `topAfpsFile.tmp`: truncated by `fopen`, and written by `fclose` over what the other handler
has written. Two assumptions are named in the module: lines have one length, and the list
fits the buffer of a `FILE`. `gone` are the files another handler's `movAfpFile` removed unsent:
that is what the code does, and `GoneOnlyByOverlap` says that it takes an overlap (or an error).
The opens of `movAfpFile` and of the client may fail (`EmptyOpenFails`, `ReadTopFails`, `ClientOpenFails`); `Preconf` goes on to start its client
whatever `movAfpFile` returns. A handler that a `Restart` kills is `dead`, not at its `end`: it has sent no reply and reports nothing, and a list it had not closed is lost.
`ReportsCover` counts the reports of the others, and leaves out the files a dead handler had listed: these the group may have given up without a word.

### RunLogs

A log file is the set of queries in it. A rotated file is named after the local time of its
rotation, `server.log` is `Live`; `strcmp` orders the former by time and the latter last, so
`Old` never contains it. `Purge` is the first loop of `movLogFile` and its second `opendir`;
each entry of `DAT_DIR` is then read by `Copy`, `Move` or `ReadFails`; `cntSrhNums` counts each
query once per file that holds it. `Die` is the process dying in the middle, a partly written copy included.
`quiet` is a day on which, since `movLogFile` began, no call failed and no log was rotated. `LOG_DIR` may still have an older copy of `server.log` on such
a day, when the engine has rotated the log before and has not begun a new one: then the copy and the rotated file both have a query, it counts twice, and `QuietDayCounts` says so (`InOldCopy`).
`Zone` is local time minus UTC (the limit is computed with `gmtime`) and taken as not negative: west of
Greenwich logs are removed that much earlier. A tick is the unit of a log's name, and the
engine is taken to rotate at most once a tick.

### Pqueue and Fifo

One action is what a thread does between taking `m_lock` and releasing it or blocking in
`pthread_cond_wait`. A signal turns one blocked thread into a woken one, and a woken thread
competes for the lock like any other. `m_tail` is the address of a pointer: `HeadRef` for
`&m_head`, or the node whose `m_next` it is. Spurious wakeups are actions. `Chain` follows
`m_next` from `m_head` and is the refinement mapping to `Fifo!q`.

The queue is closed by `logover` only, which nothing in the repository calls: `over` counts which of its three calls
are done. The log thread may miss the flag, since the third call clears it; then it goes on as
before, which `LinesWritten` promises. Producers that wait when `resetqueue` clears the counters
are woken by nobody unless another producer is counted after them: no property promises more.

### Logmt

A node is its line, and each line is made once. `pc` is where `mtlogthr` is after
`get`: `rename`, `open` (`fopen` with "wb"), `write`. `old` maps a second to the file named
after it. `Restart` is the death of the process and `logstart` in the next one: `count` is 0
again, so the first line begins a new file. `lost` is the history of what a failed call, a
death or a second rotation in one second accounts for; `KeptInOrder` promises the rest. The
queue is `Fifo`, which the run `pqueue` shows `Pqueue` to implement.

### Autoconf

`file` is the words of `../conf`; `Shown` is what it holds while an editor writes an edition in
place, a cut last word (`Part`) included. An inspector has the words still to be read and the
buffer of values, which outlives a pass: a lone name gets what it holds. The file fits the
buffer of a `FILE`, so a pass reads one snapshot. `cfg` is what the strings hold: assigning the
value a string already has copies the same bytes over themselves, another value changes them
under whoever uses them. `torn` and `cut` are histories: whether the file was ever half-written, and
which parameters were last read as its last word. Only `main` calls `startInspect`, and nothing calls
`closeInspect` and `resetInspect`; the module runs them as their names suggest, with a
second inspector after a reset that the first one may have missed.

### Descriptors

Each function is the sequence of its opens and closes with what it does when an open fails:
return and close `n`, skip, or crash. `held` are descriptors of the running function, `leaked`
those left behind. A day of the main cache leaks the group list, a visit leaks two in
`movCntFile` and one in `afpMove`, a `Preconf` one in `movAfpFile` and one in the client thread.
With `G` groups and `L` descriptors left by gRPC a main cache therefore works for about
`L / (1 + 3 G)` days; `KnownLeaks` says that it works that long and that nothing else adds up. `server`,
chosen at the start, is whose process it is.

## Runs

| run | instance | shows |
|---|---|---|
| `pipeline` | 3 files of 3 songs, one under its bare id, 2 hits, limits 2, two groups, two days, a failure, a late file | the right files are chosen, summaries and windows are exact, old tmp files never make a group take more than it reports |
| `move_faults` | 1 group, 1 sub cache, 2 files, 2 overlapping days, 1 failure, crash or broken connection | types, no silent loss, forgetting, window size, `Placement` |
| `move_overlap` | 2 groups, 2 sub caches, 2 overlapping days, no failure | sub caches mirror the main cache, `Placement` |
| `move_timely` | 2 groups, 2 sub caches, 2 songs with 3 files, 2 settled days, no failure | nothing is troubled at all |
| `move_live` | 1 group, 1 sub cache, 2 overlapping days | promotions arrive, threads end, if calls return |
| `move_live_faults` | 2 sub caches, 1 day, 1 failure or crash | the loop sleeps again or waits for ever for one answer, demotions arrive if calls return, half-done promotions are the only gaps in a sub cache |
| `run_logs` | 2 queries, 5 ticks, retention 2, zone 1, 2 failures | counted once on a quiet day but for an old copy, never more than twice, never forgotten |
| `pqueue` | 2 producers, 2 consumers, 3 nodes, size 2, a spurious wakeup or `setsize` to 1 or 3, `logover` at any moment | list integrity, counters, no lost wakeup, refinement of `Fifo`, every line written, producers go on |
| `handlers` | 2 handlers, 2 files, limit 2, 1 failing open or call, or crash | which files can be lost, what is taken is reported unless its handler died, and arrives if calls return |
| `logmt` | 2 producers, 4 lines, files of 2, 4 seconds, 2 failures or deaths | order, no duplicate, no silent loss, length of files, every line gets to a file |
| `autoconf` | 2 inspectors, 2 edits by rename or in place, 1 failure, 1 close | what a half-written file can do, steady parameters, the last edition is used, closed inspectors end |
| `descriptors` | 16 descriptors, 4 rounds of a main cache with 1 group, or of a group | leaks are the known ones, failures come late |

**Why the bounds are enough.** Two files let one go up while the other comes down and let two
threads hold different or the same files. Two groups exercise the window position and the
reuse of `ORG_DIR`; two sub caches give every handler a before and an after. Two days are what
an overlap needs, and what it takes for a tmp file to be stale; in `pipeline` two groups and a limit of two make windows follow each other inside one list, end behind it or
be skipped by a failure. Hit counts 0..2 give idle, equal and
different popularity. With `MaxClients = MaxRounds` no thread is missing. For `run_logs`, five ticks let a log be
rotated, moved, grow old and be removed while a second query is still young. For the queue,
three nodes at a size of two, or of one after `setsize`, keep a producer blocked while the other is signalled, and two consumers compete for a signal.
Two handlers have every overlap of their steps; a third adds only more of the same files. Four
lines fill two log files of two, with a death between any of them, in two seconds or one. Two edits are what it
takes for a cut file to be followed by a whole one. In `descriptors` the
rounds use up the descriptors with their leaks, at a limit low enough that a single further leak a round shows.
`MaxHits`, `MaxRounds`, `MaxClients`, `MaxFaults`, `MaxDays`, `MaxLate`, `MaxEvents`, `MaxEdits`, `MaxCloses`, `LastSecond` and `Horizon` bound the
runs only; the theorems hold for all their values.

**Symmetry.** Songs are interchangeable in `move_faults` and `move_overlap` (each has
the same kind of file, and no order among them is fixed), the two songs with a dotted file in `pipeline`, and the queries of `run_logs`. The runs
with liveness properties use no symmetry.

**Deadlock.** Only `run_logs` checks for deadlock: its daily loop goes on when the clock has come to its bound. The others
stop where the program or the run does: the exchange and the pipeline at their last day, the queue once a set flag has ended the
log threads or `resetqueue` has forgotten the producers that wait, the rest when handlers, lines, edits or rounds are used up.
That nobody is stuck before is a matter of the liveness properties.

**Fairness.** `FairSpec` of `FingerMove` has weak fairness of what the loop does by itself (`LoopRuns`), of each client
thread, of the steps in which a handler writes its copy or returns, and of the search engine: they are running threads of a process,
and the engine takes what arrives. The start of the next day is not promised and no failure is. Nor is it promised that an
RPC comes back: `grpcwrap.cc:27,43,60,65` make a context without a deadline, so a peer that hangs holds its caller for ever. What rests
on it says so: `PromotionsArrive`, `DemotionsArrive` and `ClientsEnd` have the hypothesis `CallsReturn` (weak fairness of the steps in which an answer or an error
comes back), and are violated without it. `RoundsEnd` has no such hypothesis: whatever fails, the loop sleeps again or stays in
one call for ever (`InCall`), and it can be seen to do the latter as soon as that alternative is taken away. In `Pqueue` each thread inside `put` or `get` has
weak fairness: a mutex that is free is handed to somebody in the end. Weak fairness per thread assumes the mutex
does not starve one thread for ever. `Handlers` has weak fairness of each handler that was called and of each client between its calls (`TakenArrive` has
`CallsReturn` as a hypothesis here too),
`Logmt` of the log thread, `Autoconf` of each inspector (starting, closing and editing are not
promised). In `Pqueue` the caller of `logover`, once begun, calls straight on.

## Proofs

What is proved holds for all values of the constants: any number of hosts, threads, files, nodes, queries,
days and failures.

### The exchange: `FingerMoveProofs`

* `TypeCorrect`: `Spec => []TypeOK`. The list operators are shown to return finite
  sequences with natural counts (`RankedType`, `ThrType`, `TopsType`), then one lemma per process.
* `NothingLost` (`NoSilentLoss`), for `SubList # <<>>`. `NoSilentLoss` is not
  inductive: `LossInv` adds that `todo` is empty outside `afpMove` (so `movCntFile` may empty
  `ORG_DIR`), that a thread has read nothing before its `opendir`, and that a handler past
  its first sub cache has stored the file or reported trouble. The steps fall into those that only move
  files on (`LoopFrame`, `UpFrame`), `Preconf`, and restarts. The hypothesis is
  needed: the main cache writes its own copy inside the loop over the sub caches
  (`server.cc:165-210`), so with an empty `sub_list` a promoted file is stored nowhere.
* `PlacementImplemented` (`ImplementsPlacement`), for `SubList # <<>>`: initial states map to
  initial states, and each step to a step of `Placement` or a stutter. `PlaceInv` says that an unmarked file
  is served by one holder at most, that what the loop has to send nobody serves or calls
  about, and that what a client is sure to read no group serves. `Flow` sorts the steps by what they do to such a file (it
  stays, is taken up, stored, taken down, put down), one lemma per action; `PlaceValues`
  turns that into the values of `Place`.
* `SubsFollow` (`SubsCover`) and `SubsLetGo` (`SubsForget`) from one invariant, `MirrorInv`: a handler
  has given its file to the sub caches it is past (`HandlerCovers`), and a deletion has reached those
  before `i` (`DelForgot`) while the group already serves the file (`DelServed`). Most actions need only `MirrorFrame`.
* `SwapIsFair` (`FairSwap`): what `movCntFile` takes is named by as many lines of the window as the group reported,
  and what is in `ORG_DIR` besides is marked.
* `NothingOvertaken` (`NoTrouble`), for `SubList # <<>>` and `DistinctLists`. `RoundInv`
  says what a settled day means while it lasts: what was listed in the morning is not on its way up
  and will not be (`ListedApart`), and each sub cache uses it until the loop has it deleted
  (`ListedMirrored`). `CalmSteps` leaves the steps without a failure. A host that stood twice in
  `group_list` or `sub_list` would be visited, or asked to delete, twice in a day, which no code prevents; then
  trouble does come without a failure, and so the hypothesis is needed.

### The lists of a day: `PipelineProofs`

* `SummariesAreExact` (`SummariesCoverLists`): `ChainInv` says two things of the tmp files. On a day without a failed call they hold what
  the calls so far make of the directory and the counts, as `HotLists` and `ColdLists` name it (`CleanInv`); and always each of them is what some directory or some
  counts give (`StaleInv`). A cold list is made of two of them, of days that may differ; `ColdStale` finds one directory and one count
  that give the same list. Two lemmas carry the rest: `FilteredPicks` (what `Filtered` returns is a sequence of the lines in the set, in their order, none twice),
  and `FilterRanked` (dropping lines of a ranked list leaves a ranked list).
* `HottestMove` (`HottestAreTaken`) and `ColdestMove` (`ColdestAreGiven`) from the same invariant and what the operators
  promise (`Hottest`, `Coldest`, which speaks of the files behind the names).
* `ReportSuffices` (`ReportCoversTaken`): from `ReportInv`, the report is the length of the list `movAfpFile` will read,
  whichever day made it.
* `WindowsMeet` (`WindowsTile`): `TileInv` adds that a day begins at line 0 with nothing sent, and that only lines before `lineCount` are skipped; then each window takes
  what its lines name, or is skipped as a whole, and the next one begins behind it.

### The log files: `RunLogsProofs`

* `LogTypes` (`TypeOK`).
* `QueriesKept` (`NothingForgotten`): `LogInv` adds that a rotated file is named no earlier
  than its last query, that names in the two directories differ (so a `rename` overwrites
  nothing), and that the copy of `server.log` is never the only place of a young query (so
  overwriting it is harmless).
* `CountedTwiceAtMost` (`TwiceAtMost`): by `Once` a query is in one rotated file at most, in either directory, so `cntSrhNums` finds it in that
  one and in the copy of `server.log`.
* `QuietDaysCount` (`QuietDayCounts`): `QuietDay` says, while the move and the count last, that the files of `DAT_DIR` are `server.log` and what is still to
  be read, that the copy of `server.log`, once made, holds what was logged before the start and nothing from elsewhere, and that no young query is in that copy only. Then
  the rotated files give one count, and a copy that was not replaced (`InOldCopy`) a second.

### The queue: `PqueueProofs`

* `CountersRight` (`WaitersCounted`) and `WakeupsKept` (`NoLostWakeup`): `WaitInv`. Every step is one
  move of one thread, with or without a signal that moves a second; `CountMove` and `SignalCount` say what that does to the number of threads
  in each state, and the rest is arithmetic.
* `ListsIntact` (`ListIntact`): `ListInv` adds who owns a node (`Owned`) and that the nodes of `Chain` exist, differ
  and end where `m_tail` points (`Linked`). `Chain` follows pointers, so it is first characterised without recursion
  (`ChainIsList`, `ListUnique`); each step then gives its new list and shows that it is one.
* `FifoImplemented` (`ImplementsFifo`): with `Chain` as the queue, `PutAppend` appends, `GetTake` takes the head,
  the signals and the control calls stutter or are steps of `Fifo`.

### The group server, the log thread, the configuration, the descriptors

* `HandlersProofs`: `NoneStranded` (`NothingStranded`) and `OneByOneIsSafe` (`GoneOnlyByOverlap`). `HandlersInv` adds
  that a client has read nothing before its `opendir` and holds files only while it runs, that no file is in both
  directories, and that without an overlap one handler or client is at work at most.
  `TakenIsReported` (`ReportsCover`) from `SaidInv`: each name in `topAfpsFile.tmp`, among the lines still to be renamed or among the
  taken files is in the list of a handler that closed it (`Made`): one that reports, or one that died before. `SaidCounts` maps the files that are gone and in no dead
  handler's list into the lines reported, one to one.
* `LogmtProofs`: `NoFileTooLong` (`FilesFit`). `FitInv` ties the local `count` to the length of the file it counts, in each place of
  the loop: they differ after a restart and after a failed `fopen`.
  `LinesKeepOrder` (`KeptInOrder`): `OrderInv` adds that what `fopen` is about to truncate is lost or already renamed (`LogThreadOK`), that
  no file is named after a second to come (`NamesPast`), so the next name sorts last, and that a line that was got but not written is in no file (`HandFresh`).
  `OrderMoves` and `OrderStays` say what a step does to the places of the lines, then one lemma per action.
* `AutoconfProofs`: `OwnValues` (`OwnValue`) and the action property `ReadsSteady` (`SteadyReads`). `OwnInv` says that the words in every buffer
  are pairs of a name and one of its values (`PairsOwn`), wherever an edition was cut; `SteadyInv`, that before
  the first half-written file a pass has set each agreed parameter or has it still before it.
* `DescriptorsProofs`: `OnlyKnownLeaks` (`KnownLeaks`). `FnLevels` checks the opens and closes of each function against the descriptors
  it holds before each step (`Level`); `ProgramPays` gives, for each position in the program of a thread, what the rest of it will leave open (`Debt`).
  `LeakInv` says, until an open fails, that what is leaked and what is owed together are within `Expected`; then the
  first open that fails had no room because the threads hold less than their `Peak` (`Starves`).

### Assumptions

The assumptions on constants are those named in the modules, which TLC evaluates in every run: hosts of the three kinds, threads of the two kinds, and
handlers and their clients differ; bounds are natural numbers; sets of files, songs, threads and nodes are finite; a name is in an edition
once and a value behind each; the zone is not behind UTC; the live log file that does not exist is no sequence of lines; a process has two descriptors at least. Two theorems
need `SubList # <<>>` and one of them `DistinctLists` besides, as said above.

### Only model-checked

* All liveness: weak fairness and `ENABLED` are out of the prover's reach.

Every invariant and action property the runs check, and both refinements, are stated by a theorem; so only the liveness properties rest on TLC alone.

Facts about recursive functions (`Filtered`, `Chain`) are proved by a least counterexample in a set of numbers
(`NumbersInduction`), since the induction theorems of the library take an operator and no prover here can instantiate one.

## Not modelled

* The shared tmp files of two handlers before `topAfpFile` (their lists are arbitrary in `Handlers`);
  requests that a server starts to handle only after the caller has given up.
* The characters of `sub_list` and `group_list`: the last one of each line of `sub_list` is dropped
  (`service.cc:225`), and a lone address at the end of `group_list` is paired with the move address of the group before
  (`service.cc:154`). The models take well-formed lists.
* The effect of a configuration that changes while the exchange runs: `Autoconf` says what a call may see,
  the other models take the parameters as constants.
* File contents and their transfer in blocks, counting of malformed log lines, name lengths.
* RPC wrappers (one forwarded call each; that they set no deadline is in the fairness of `FingerMove`), the options of `main`, generated and vendored code: no state of
  their own. The repository holds about 2300 lines of its own, nearly all of which the modules
  stand for; the other 57000 are protobuf headers and generated code, which no model describes.

## Plan

Done, in the order of importance: the exchange (`ProDeal`, `Pipeline`, `FingerMove`), the queue
(`Fifo`, `Pqueue`), the logs (`RunLogs`), first theorems; then `Placement`, `Handlers`, `Logmt`,
`Autoconf`, `Descriptors` and `logover`; then the theorems above.

Next, theorems on what the liveness properties rest on: the steps of the exchange never leave the loop waiting on a group that waits
on it, and a line that was got is written or lost by the next `get`; then `Pqueue` without `setsize`, where no producer waits beside a free place.
