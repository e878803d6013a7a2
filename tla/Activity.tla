------------------------------- MODULE Activity -------------------------------
(***************************************************************************)
(* How much each source asks, noted by every handler of a search or a      *)
(* source request at once, while the operator may reset the period.        *)
(*                                                                         *)
(* Times are in units of which Minute make a minute; the estimate of       *)
(* different files and the distributions drawn from a record are left out. *)
(***************************************************************************)
EXTENDS Integers, FiniteSets, FiniteSetsExt

CONSTANTS
  Askers,         \* source keys
  Handlers,       \* handlers that note a request
  MaxSources,     \* bots.activity_max_sources
  Minute,
  MaxTick, MaxRequests, MaxResets

VARIABLES
  tick,
  records,        \* Activity.map; n = 0 if there is none
  totals, byHour, untracked,
  handler,        \* each handler: what it notes, and how far it is
  began,          \* when the period started
  noted, resets,
  resetting,      \* what a reset clears next
  crossed         \* ghost: notes a reset fell into

vars == <<tick, records, totals, byHour, untracked, handler, began, noted, resets, resetting, crossed>>

NoRec == [n |-> 0, searches |-> 0, zero |-> 0, gaps |-> 0, minute |-> 0, inMinute |-> 0, peak |-> 0]
Idle == [at |-> "idle", key |-> CHOOSE a \in Askers : TRUE, search |-> FALSE, ms |-> 0]

TypeOK ==
  /\ tick \in began..MaxTick /\ crossed <= noted
  /\ \A h \in Handlers : handler[h].at \in {"idle", "totalled", "counted", "timed", "insert", "results"}

Init ==
  /\ tick = 0 /\ began = 0
  /\ records = [a \in Askers |-> NoRec] /\ totals = 0 /\ byHour = 0 /\ untracked = 0
  /\ handler = [h \in Handlers |-> Idle] /\ noted = 0 /\ resets = 0
  /\ resetting = "no" /\ crossed = 0

Tick ==
  /\ tick < MaxTick /\ tick' = tick + 1
  /\ UNCHANGED <<records, totals, byHour, untracked, handler, began, noted, resets, resetting, crossed>>

-----------------------------------------------------------------------------
Go(h, at) == handler' = [handler EXCEPT ![h].at = at]
Tracked == {a \in Askers : records[a].n > 0}

(* note: the totals, the hour, the time since the period began, whether     *)
(* there is room for a new source, and the record, each under its own lock  *)
(* or none.                                                                 *)
NoteTotals(h, a, search) ==
  /\ handler[h].at = "idle" /\ noted < MaxRequests /\ noted' = noted + 1
  /\ totals' = totals + 1
  /\ handler' = [handler EXCEPT ![h] = [at |-> "totalled", key |-> a, search |-> search, ms |-> 0]]
  /\ crossed' = crossed + IF resetting \in {"no", "map"} THEN 0 ELSE 1
  /\ UNCHANGED <<tick, records, byHour, untracked, began, resets, resetting>>

NoteHour(h) ==
  /\ handler[h].at = "totalled" /\ byHour' = byHour + 1 /\ Go(h, "counted")
  /\ UNCHANGED <<tick, records, totals, untracked, began, noted, resets, resetting, crossed>>

NoteTime(h) ==
  /\ handler[h].at = "counted"
  /\ handler' = [handler EXCEPT ![h].at = "timed", ![h].ms = tick - began]
  /\ UNCHANGED <<tick, records, totals, byHour, untracked, began, noted, resets, resetting, crossed>>

Added(r, s, ms) ==
  LET m == ms \div Minute
      inM == IF m = r.minute THEN r.inMinute + 1 ELSE 1
  IN [r EXCEPT !.n = @ + 1, !.searches = @ + IF s THEN 1 ELSE 0, !.gaps = @ + IF r.n > 0 THEN 1 ELSE 0,
               !.minute = m, !.inMinute = inM, !.peak = Max({@, inM})]

Record(h) ==
  LET a == handler[h].key
  IN /\ records' = [records EXCEPT ![a] = Added(@, handler[h].search, handler[h].ms)]
     /\ handler' = [handler EXCEPT ![h] = IF handler[h].search THEN [@ EXCEPT !.at = "results"] ELSE Idle]
     /\ UNCHANGED <<tick, totals, byHour, untracked, began, noted, resets, resetting, crossed>>

NoteKnown(h) == handler[h].at = "timed" /\ handler[h].key \in Tracked /\ Record(h)
(* A source that finds no room is forgotten, to show that the property     *)
(* notices.                                                                 *)
NoteRoomSilent(h) ==
  /\ handler[h].at = "timed" /\ handler[h].key \notin Tracked
  /\ IF Cardinality(Tracked) >= MaxSources THEN Go(h, "idle") ELSE Go(h, "insert")
  /\ UNCHANGED <<tick, records, totals, byHour, untracked, began, noted, resets, resetting, crossed>>

NoteRoom(h) ==
  /\ handler[h].at = "timed" /\ handler[h].key \notin Tracked
  /\ IF Cardinality(Tracked) >= MaxSources
     THEN untracked' = untracked + 1 /\ handler' = [handler EXCEPT ![h] =
            IF handler[h].search THEN [@ EXCEPT !.at = "results"] ELSE Idle]
     ELSE Go(h, "insert") /\ UNCHANGED untracked
  /\ UNCHANGED <<tick, records, totals, byHour, began, noted, resets, resetting, crossed>>
NoteInsert(h) == handler[h].at = "insert" /\ Record(h)

(* note_results, once the search is done. *)
NoteResults(h) ==
  /\ handler[h].at = "results"
  /\ \E none \in BOOLEAN :
       records' = [records EXCEPT ![handler[h].key].zero =
                     @ + IF none /\ handler[h].key \in Tracked THEN 1 ELSE 0]
  /\ handler' = [handler EXCEPT ![h] = Idle]
  /\ UNCHANGED <<tick, totals, byHour, untracked, began, noted, resets, resetting, crossed>>

(* reset, by the operator: one after the other, no lock over them all. *)
ResetStart ==
  /\ resetting = "no" /\ resets < MaxResets /\ resets' = resets + 1 /\ resetting' = "map"
  /\ began' = tick
  /\ UNCHANGED <<tick, records, totals, byHour, untracked, handler, noted, crossed>>
ResetMap ==
  /\ resetting = "map" /\ resetting' = "totals" /\ records' = [a \in Askers |-> NoRec]
  /\ crossed' = Cardinality({h \in Handlers : handler[h].at # "idle"})
  /\ UNCHANGED <<tick, totals, byHour, untracked, handler, began, noted, resets>>
ResetTotals ==
  /\ resetting = "totals" /\ resetting' = "untracked" /\ totals' = 0
  /\ UNCHANGED <<tick, records, byHour, untracked, handler, began, noted, resets, crossed>>
ResetUntracked ==
  /\ resetting = "untracked" /\ resetting' = "hours" /\ untracked' = 0
  /\ UNCHANGED <<tick, records, totals, byHour, handler, began, noted, resets, crossed>>
ResetHours ==
  /\ resetting = "hours" /\ resetting' = "no" /\ byHour' = 0
  /\ UNCHANGED <<tick, records, totals, untracked, handler, began, noted, resets, crossed>>

Next ==
  \/ Tick \/ ResetStart \/ ResetMap \/ ResetTotals \/ ResetUntracked \/ ResetHours
  \/ \E h \in Handlers :
       \/ \E a \in Askers, s \in BOOLEAN : NoteTotals(h, a, s)
       \/ NoteHour(h) \/ NoteTime(h) \/ NoteKnown(h) \/ NoteRoom(h) \/ NoteInsert(h) \/ NoteResults(h)

Spec == Init /\ [][Next]_vars

-----------------------------------------------------------------------------
(* Whoever notes at once: once a reset is through, what the totals count   *)
(* is in the records or untracked and by the hour, but for notes in        *)
(* progress and those a reset fell into; a                                 *)
(* record has a gap for every request but its first, and no more empty     *)
(* answers than searches but for those and the untracked; and the table is *)
(* above its bound by no more than the handlers that found room at once.   *)
ActivityAdds ==
  LET inRecords == FoldSet(LAMBDA a, n : n + records[a].n, untracked, Askers)
      pendingNotes == Cardinality({h \in Handlers :
                                     handler[h].at \in {"totalled", "counted", "timed", "insert"}})
      Near(x, y) == x - y <= crossed /\ y - x <= crossed + pendingNotes
  IN /\ resetting = "no" => Near(byHour, totals) /\ Near(inRecords, totals)
     /\ Cardinality(Tracked) < MaxSources + Cardinality(Handlers)
     /\ \A a \in Tracked :
          LET r == records[a]
          IN r.gaps = r.n - 1 /\ r.peak \in 1..r.n /\ r.zero <= r.searches + crossed + untracked

(* The panel's figures add up. *)
ActivitySound == TypeOK /\ ActivityAdds
=============================================================================
