------------------------------- MODULE Autoconf -------------------------------
(***************************************************************************)
(* The configuration of src/autoconf.cc: startInspect reads the file       *)
(* "../conf" and starts a thread that reads it again every INSPECT_INTERVAL*)
(* and assigns the parameters (Config's static members) while the handlers *)
(* and the loop use them, without a lock: a call keeps the c_str() of a    *)
(* parameter to its end, at any time after the first pass.  Assigning the  *)
(* value a string already has leaves its bytes alone; another value moves  *)
(* or overwrites them under the call.                                      *)
(*                                                                         *)
(* The file is short, so a pass reads what it holds at one moment.  It may *)
(* be replaced by rename(), or edited in place: while the editor writes, a *)
(* reader finds the first words of the new edition, the last perhaps cut.  *)
(***************************************************************************)
EXTENDS Naturals, Sequences, FiniteSets, SequencesExt

CONSTANTS Param,      \* the names dispath knows
          Default,    \* the parameters' values before any file is read
          Edition,    \* the texts of the file: name, value, name, value ...
          Part,       \* a word cut short
          Junk,       \* what an uninitialized buffer holds
          Inspector,  \* the calls of startInspect, and their threads
          MaxEdits, MaxFaults, MaxCloses  \* bounds

Names(e) == {e[i] : i \in {j \in DOMAIN e : j % 2 = 1}}
Value(e, p) == e[1 + CHOOSE i \in DOMAIN e : i % 2 = 1 /\ e[i] = p]

\* A name is in a file once.
ASSUME AutoconfAssumption ==
  /\ Part \notin Param
  /\ \A e \in Edition :
       /\ e \in Seq(ToSet(e)) /\ Len(e) % 2 = 0
       /\ \A i, j \in DOMAIN e : i % 2 = 1 /\ j % 2 = 1 /\ e[i] = e[j] => i = j
  /\ {MaxEdits, MaxFaults, MaxCloses} \subseteq Nat

VARIABLES file,            \* the words in ../conf
          cfg,             \* the parameters
          overflag,
          pc, text, value, \* per inspector: the words still to be read, the buffer
          cut,             \* history: names last read without a value
          torn,            \* history: whether a part of an edition was in ../conf
          edits, faults, closes

inspectors == <<pc, text, value>>
history == <<cut, torn>>
bounds == <<edits, faults, closes>>
vars == <<file, cfg, overflag, inspectors, history, bounds>>

Init ==
  /\ file \in Edition
  /\ cfg = [p \in Param |-> Default[p]] /\ overflag = 0
  /\ pc = [t \in Inspector |-> "new"]
  /\ text = [t \in Inspector |-> <<>>] /\ value = [t \in Inspector |-> Junk]
  /\ cut = {} /\ torn = FALSE /\ edits = 0 /\ faults = 0 /\ closes = 0

At(t, from, to) == pc[t] = from /\ pc' = [pc EXCEPT ![t] = to]
Fault == faults < MaxFaults /\ faults' = faults + 1

-----------------------------------------------------------------------------
(* The inspector *)

\* startInspect makes the first pass itself ...
startInspect(t) ==
  /\ \A u \in Inspector : pc[u] # "first"
  /\ At(t, "new", "first") /\ text' = [text EXCEPT ![t] = file]
  /\ UNCHANGED <<file, cfg, overflag, value, history, bounds>>

\* ... or starts no thread when it cannot open the file.
startInspectFails(t) ==
  /\ Fault /\ (\A u \in Inspector : pc[u] # "first") /\ At(t, "new", "failed")
  /\ UNCHANGED <<file, cfg, overflag, text, value, history, edits, closes>>

\* A bug: the case of one name runs on into the next one.
AssignedFallsThrough(name, val) ==
  [p \in Param |-> IF name \in Param THEN val ELSE cfg[p]]

\* dispath.
Assigned(name, val) == [p \in Param |-> IF p = name THEN val ELSE cfg[p]]

Eof(t) == text[t] = <<>>

\* fscanf() and dispath: a name without a value gets what the buffer holds.
Pass(t) ==
  LET name == Head(text[t])
      lone == Len(text[t]) = 1
      val  == IF lone THEN value[t] ELSE text[t][2]
  IN  /\ pc[t] \in {"first", "pass"} /\ ~Eof(t)
      /\ text' = [text EXCEPT ![t] = SubSeq(@, 3, Len(@))]
      /\ value' = [value EXCEPT ![t] = val]
      /\ cfg' = Assigned(name, val)
      /\ cut' = IF lone THEN cut \cup {name} ELSE cut \ {name}
      /\ UNCHANGED <<file, overflag, pc, torn, bounds>>

\* The thread routing_fn has a buffer of its own.
PassEnd(t) ==
  /\ pc[t] \in {"first", "pass"} /\ Eof(t)
  /\ pc' = [pc EXCEPT ![t] = "sleep"]
  /\ value' = IF pc[t] = "first" THEN [value EXCEPT ![t] = Junk] ELSE value
  /\ UNCHANGED <<file, cfg, overflag, text, history, bounds>>

\* A bug: the loop keeps the flag, a plain int, in a register.
FlagKept == 0
getOverflag == overflag

\* The flag is looked at once per pass.
Wake(t) ==
  /\ At(t, "sleep", IF getOverflag = 0 THEN "open" ELSE "ended")
  /\ UNCHANGED <<file, cfg, overflag, text, value, history, bounds>>

\* A bug: a pass begins with the defaults.
OpenResets(t) ==
  /\ At(t, "open", "pass") /\ text' = [text EXCEPT ![t] = file]
  /\ cfg' = [p \in Param |-> Default[p]]
  /\ UNCHANGED <<file, overflag, value, history, bounds>>

Open(t) ==
  /\ At(t, "open", "pass") /\ text' = [text EXCEPT ![t] = file]
  /\ UNCHANGED <<file, cfg, overflag, value, history, bounds>>

\* A bug: the thread ends, for "continue", when the file cannot be opened.
OpenFailsEnds(t) ==
  /\ Fault /\ At(t, "open", "ended")
  /\ UNCHANGED <<file, cfg, overflag, text, value, history, edits, closes>>

OpenFails(t) ==
  /\ Fault /\ At(t, "open", "sleep")
  /\ UNCHANGED <<file, cfg, overflag, text, value, history, edits, closes>>

closeInspect ==
  /\ overflag = 0 /\ closes < MaxCloses /\ closes' = closes + 1
  /\ overflag' = 1
  /\ UNCHANGED <<file, cfg, inspectors, history, edits, faults>>

\* After a sleep as long as the inspectors'; they may be later.
resetInspect ==
  /\ overflag = 1 /\ overflag' = 0
  /\ UNCHANGED <<file, cfg, inspectors, history, bounds>>

-----------------------------------------------------------------------------
(* The file *)

\* What the file may hold on the way to edition e.
Shown(e) == {SubSeq(e, 1, k) : k \in 0..Len(e)}
              \cup {Append(SubSeq(e, 1, k), Part) : k \in 0..(Len(e) - 1)}

Edit ==
  /\ edits < MaxEdits /\ edits' = edits + 1
  /\ \E e \in Edition : file' \in Shown(e)
  /\ torn' = (torn \/ file' \notin Edition)
  /\ UNCHANGED <<cfg, overflag, inspectors, cut, faults, closes>>

-----------------------------------------------------------------------------
Inspecting(t) == Pass(t) \/ PassEnd(t) \/ Wake(t) \/ Open(t) \/ OpenFails(t)

Next == \/ \E t \in Inspector : startInspect(t) \/ startInspectFails(t) \/ Inspecting(t)
        \/ closeInspect \/ resetInspect \/ Edit

Spec == Init /\ [][Next]_vars
FairSpec == Spec /\ \A t \in Inspector : WF_vars(Inspecting(t))

-----------------------------------------------------------------------------
Given(p) == {Default[p]} \cup {Value(e, p) : e \in {f \in Edition : p \in Names(f)}}

\* A parameter has a value of its own, or the beginning of one, unless it was
\* read, the last time, as the last word of a file that was being written.
OwnValue == \A p \in Param \ cut : cfg[p] \in Given(p) \cup {Part}

Agreed == {p \in Param : \A e, f \in Edition : p \in Names(e) /\ Value(e, p) = Value(f, p)}
InCalls == (\E t \in Inspector : pc[t] \notin {"new", "first"})
             /\ \A t \in Inspector : pc[t] # "failed"

\* Editions that agree on a parameter can come and go, be read by two inspectors
\* at once and not be there: after the first pass its bytes do not move under the
\* calls that use it, unless the file was seen half-written.
SteadyReads ==
  [][InCalls /\ ~torn => \A p \in Agreed : cfg'[p] = cfg[p]]_vars

InUse == file \in Edition /\ \A p \in Names(file) \cap Param : cfg[p] = Value(file, p)
Running == {t \in Inspector : pc[t] \notin {"new", "ended", "failed"}}

\* The last edition is in use in the end and stays so, whatever half-written
\* file was read before and however two inspectors overlap, unless there is no
\* inspector: none could be started, or it was closed.
EditTaken ==
  LET Never == \A t \in Inspector : pc[t] \in {"new", "failed"}
  IN  <>[](file \in Edition) => <>[](InUse \/ Never \/ (Running = {} /\ closes > 0))

\* A closed inspector ends unless the flag is reset before it has looked.
CloseEnds == overflag = 1 ~> (overflag = 0 \/ Running = {})
=============================================================================
