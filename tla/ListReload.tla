------------------------------ MODULE ListReload ------------------------------
(***************************************************************************)
(* How edits of the filter's list files come into force: the watcher that  *)
(* polls their mtimes, and the reload an operator asks for (SIGHUP,        *)
(* /api/reload).  Each reads the files off the runtime, one after the      *)
(* other, and puts their union in force; the operator edits meanwhile.     *)
(*                                                                         *)
(* One list: of hashes (layers 3 and 5), the union of several files, or    *)
(* layer 2's vocabulary, one file that is parsed and may be rejected.      *)
(***************************************************************************)
EXTENDS Naturals, FiniteSets

CONSTANTS
  Files,        \* the files of the hash lists, numbered in the order they are read
  MaxEdits, MaxForced  \* bounds: edits, reloads asked for

VARIABLES
  layer,        \* the list: "hashes", "vocabulary"
  version,      \* a file's content, by the edit that wrote it
  broken,       \* edits that do not parse
  inForce,      \* the content in force, by file
  lastMtime,    \* the watcher's last_mtime
  watch, force, \* the watcher's and the reload task's round
  edits, asks

vars == <<layer, version, broken, inForce, lastMtime, watch, force, edits, asks>>

Paths == IF layer = "hashes" THEN Files ELSE {1}
NoRound == [on |-> FALSE, mtime |-> 0, read |-> [p \in {} |-> 0]]

TypeOK ==
  /\ layer \in {"hashes", "vocabulary"}
  /\ version \in [Paths -> 0 .. MaxEdits] /\ broken \subseteq 1 .. MaxEdits
  /\ inForce \in [Paths -> 0 .. MaxEdits] /\ lastMtime \in 0 .. MaxEdits
  /\ \A x \in {watch, force} : x.on \in BOOLEAN /\ DOMAIN x.read \subseteq Paths
  /\ edits \in 0 .. MaxEdits /\ asks \in BOOLEAN \X (0 .. MaxForced)

Init ==
  /\ layer \in {"hashes", "vocabulary"}
  /\ version = [p \in Paths |-> 0] /\ broken = {} /\ inForce = [p \in Paths |-> 0]
  /\ lastMtime = 0 /\ watch = NoRound /\ force = NoRound /\ edits = 0 /\ asks = <<FALSE, 0>>

-----------------------------------------------------------------------------
(* The latest mtime over the files: an edit's number is its mtime. *)
MaxMtime == CHOOSE m \in 0 .. MaxEdits : /\ \E p \in Paths : m = version[p]
                                         /\ \A p \in Paths : version[p] <= m

(* An edit, by an editor or the update service. *)
Edit(p, ok) ==
  /\ edits < MaxEdits /\ edits' = edits + 1
  /\ ok \/ layer = "vocabulary"
  /\ version' = [version EXCEPT ![p] = edits + 1]
  /\ broken' = IF ok THEN broken ELSE broken \cup {edits + 1}
  /\ UNCHANGED <<layer, inForce, lastMtime, watch, force, asks>>

(* The watcher's tick: the mtime is taken before anything is read. *)
Poll ==
  /\ ~watch.on /\ MaxMtime # lastMtime
  /\ watch' = [NoRound EXCEPT !.on = TRUE, !.mtime = MaxMtime]
  /\ UNCHANGED <<layer, version, broken, inForce, lastMtime, force, edits, asks>>

Reads(x, p) == [x EXCEPT !.read = [q \in DOMAIN x.read \cup {p} |-> IF q = p THEN version[p] ELSE x.read[q]]]
NextPath(x, p) == p \in Paths /\ p \notin DOMAIN x.read /\ \A q \in Paths : q < p => q \in DOMAIN x.read
AllRead(x) == x.on /\ DOMAIN x.read = Paths
Rejected(x) == \E p \in Paths : x.read[p] \in broken

WatchRead(p) ==
  /\ watch.on /\ NextPath(watch, p) /\ watch' = Reads(watch, p)
  /\ UNCHANGED <<layer, version, broken, inForce, lastMtime, force, edits, asks>>

(* A read fails: the current list stays, the next tick tries again. *)
WatchFails ==
  /\ watch.on /\ ~AllRead(watch) /\ watch' = NoRound
  /\ UNCHANGED <<layer, version, broken, inForce, lastMtime, force, edits, asks>>

(* Mutant: the mtime is taken when the list is in force. *)
AppliesThenStats ==
  /\ AllRead(watch) /\ watch' = NoRound /\ lastMtime' = MaxMtime
  /\ inForce' = IF Rejected(watch) THEN inForce ELSE watch.read
  /\ UNCHANGED <<layer, version, broken, force, edits, asks>>

WatchApply ==
  /\ AllRead(watch) /\ watch' = NoRound /\ lastMtime' = watch.mtime
  /\ inForce' = IF Rejected(watch) THEN inForce ELSE watch.read
  /\ UNCHANGED <<layer, version, broken, force, edits, asks>>

(* The flag of SIGHUP or /api/reload, and the task that takes it. *)
Ask ==
  /\ asks[2] < MaxForced /\ asks' = <<TRUE, asks[2] + 1>>
  /\ UNCHANGED <<layer, version, broken, inForce, lastMtime, watch, force, edits>>

ForceStart ==
  /\ ~force.on /\ asks[1] /\ force' = [NoRound EXCEPT !.on = TRUE] /\ asks' = <<FALSE, asks[2]>>
  /\ UNCHANGED <<layer, version, broken, inForce, lastMtime, watch, edits>>

ForceRead(p) ==
  /\ force.on /\ NextPath(force, p) /\ force' = Reads(force, p)
  /\ UNCHANGED <<layer, version, broken, inForce, lastMtime, watch, edits, asks>>

ForceFails ==
  /\ force.on /\ ~AllRead(force) /\ force' = NoRound
  /\ UNCHANGED <<layer, version, broken, inForce, lastMtime, watch, edits, asks>>

ForceApply ==
  /\ AllRead(force) /\ force' = NoRound
  /\ inForce' = IF Rejected(force) THEN inForce ELSE force.read
  /\ UNCHANGED <<layer, version, broken, lastMtime, watch, edits, asks>>

Next ==
  \/ \E p \in Paths : (\E ok \in BOOLEAN : Edit(p, ok)) \/ WatchRead(p) \/ ForceRead(p)
  \/ Poll \/ WatchFails \/ WatchApply
  \/ Ask \/ ForceStart \/ ForceFails \/ ForceApply

(* The timer ticks; a file that stays readable is read in the end. *)
Fairness ==
  /\ WF_vars(Poll) /\ SF_vars(WatchApply)
  /\ \A p \in Files : SF_vars(WatchRead(p))

-----------------------------------------------------------------------------
Applied == inForce = version \/ \E p \in Paths : version[p] \in broken

(* An edit comes into force, whatever reads failed and whatever was edited  *)
(* while files were read, as long as no reload is asked for as well.        *)
EditApplied == asks[2] = 0 ~> (Applied \/ asks[2] > 0)

(* With the watcher idle and nothing new to it, what is in force is what the *)
(* files say: no edit is lost between a poll and the reads after it.         *)
WatchedApplied ==
  asks[2] = 0 /\ ~watch.on /\ lastMtime = MaxMtime => Applied

(* "The operator edits the file ... and the new terms take effect within the *)
(* poll interval": with both tasks idle and nothing new to the watcher, what  *)
(* is in force is what the files say.                                         *)
IdleIsApplied ==
  ~watch.on /\ ~force.on /\ ~asks[1] /\ lastMtime = MaxMtime => Applied

(* An edit comes into force, and the mtime remembered is of what did.      *)
ListsApplied == [](TypeOK /\ WatchedApplied) /\ EditApplied
=============================================================================
