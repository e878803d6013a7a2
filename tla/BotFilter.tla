------------------------------ MODULE BotFilter -------------------------------
(***************************************************************************)
(* The bot detector, its bans and throttles, the IP filter they feed, and  *)
(* the TCP sessions both must close.                                       *)
(*                                                                         *)
(* Rates and counts are data: a rule may match at any query.  A ban is     *)
(* "on", "over" (past its 24 hours, not yet swept) or "no".  The filter is *)
(* a set of addresses: what a line of the file covers.  Writers of the     *)
(* file, its loaders and the swap of the loaded filter interleave; a       *)
(* session's own checks do not, as on the runtime with one thread.         *)
(***************************************************************************)
EXTENDS Naturals

CONSTANTS
  Addrs,            \* source keys
  V4,               \* those the filter file can name
  Exempt,           \* bots.exempt
  Adds,             \* bots.ipfilter_min_dropped is not 0
  UniformAction, ScanAction, HammerAction,  \* "ban", "throttle" or "log"
  MaxReplaced,      \* bound: times the filter file is replaced
  MaxRestarts       \* bound: times the server is restarted

VARIABLES
  ban, throttle,    \* banned_bots, throttled_bots
  detection,        \* bot_detections
  file, list,       \* the filter file; bot-ipfilter.txt
  filter,           \* ip_filter
  adding,           \* add_async's tasks: where each is
  loader,           \* the reload task and the file watcher: where each is
  loaded,           \* what a task has loaded and not yet put in place
  dirty, reload,    \* the file's mtime is new to the watcher; reload is asked
  session, woken,   \* a connection; it has not seen the last ip_filter_gen
  replaced, restarts

bots == <<ban, throttle, detection>>
disk == <<file, list, dirty>>
tasks == <<adding, loader, loaded, reload>>
tcp == <<session, woken>>
bounds == <<replaced, restarts>>
vars == <<bots, disk, filter, tasks, tcp, bounds>>

Loaders == {"watch", "reload"}
Tasks == Addrs \cup Loaders

TypeOK ==
  /\ ban \in [Addrs -> {"no", "on", "over"}]
  /\ throttle \in [Addrs -> {"no", "on", "over"}]
  /\ detection \in [Addrs -> {"no", "counting", "added"}]
  /\ file \subseteq V4 /\ list \subseteq V4 /\ filter \subseteq V4
  /\ adding \in [Addrs -> {"no", "append", "remember", "load", "swap"}]
  /\ loader \in [Loaders -> {"no", "stat", "load", "swap"}]
  /\ loaded \in [Tasks -> SUBSET V4]
  /\ dirty \in BOOLEAN /\ reload \in BOOLEAN
  /\ session \in [Addrs -> BOOLEAN] /\ woken \in [Addrs -> BOOLEAN]
  /\ replaced \in 0 .. MaxReplaced /\ restarts \in 0 .. MaxRestarts

Init ==
  /\ ban = [a \in Addrs |-> "no"] /\ throttle = [a \in Addrs |-> "no"]
  /\ detection = [a \in Addrs |-> "no"]
  /\ file = {} /\ list = {} /\ filter = {}
  /\ adding = [a \in Addrs |-> "no"]
  /\ loader = [l \in Loaders |-> "no"]
  /\ loaded = [t \in Tasks |-> {}]
  /\ dirty = FALSE /\ reload = FALSE
  /\ session = [a \in Addrs |-> FALSE] /\ woken = [a \in Addrs |-> FALSE]
  /\ replaced = 0 /\ restarts = 0

-----------------------------------------------------------------------------
(* Every session is told to look at its own address. *)
WakeAll == woken' = session

(* ban_bot and throttle_bot.  Only a ban that was not in the map wakes the *)
(* sessions.                                                               *)
Ban(a) ==
  /\ ban' = [ban EXCEPT ![a] = "on"]
  /\ IF ban[a] = "no" THEN WakeAll ELSE UNCHANGED woken
  /\ UNCHANGED throttle

Throttle(a) ==
  /\ throttle' = [throttle EXCEPT ![a] = "on"]
  /\ UNCHANGED <<ban, woken>>

(* An earlier detection keeps its counters. *)
Detected(a) == detection' = [detection EXCEPT ![a] = IF @ = "no" THEN "counting" ELSE @]

Flag(a, action) ==
  /\ action \in {"ban", "throttle"}
  /\ IF action = "ban" THEN Ban(a) ELSE Throttle(a)
  /\ Detected(a)

Banned(a) == ban[a] = "on"

(* A datagram passes unless its source is banned, throttled and out of     *)
(* tokens (which is data), or filtered.                                    *)
Passes(a) == ~Banned(a) /\ a \notin filter

(* record_query: a flood is banned, uniform timing treated as configured. *)
RecordQuery(a) ==
  /\ Passes(a) /\ a \notin Exempt
  /\ \E action \in {"ban", UniformAction} : Flag(a, action)
  /\ UNCHANGED <<disk, filter, tasks, session, bounds>>

(* record_sources, over UDP or from a session; the hour it judges is data. *)
RecordSources(a) ==
  /\ Passes(a) \/ session[a]
  /\ a \notin Exempt
  /\ \E action \in {ScanAction, HammerAction} : Flag(a, action)
  /\ UNCHANGED <<disk, filter, tasks, session, bounds>>

-----------------------------------------------------------------------------
(* note_banned: a packet that is dropped.  At the threshold (ten times     *)
(* higher for a throttle) the address is handed to add_async, once per     *)
(* detection.                                                              *)
NoteBanned(a) ==
  /\ detection[a] = "counting" /\ Adds /\ a \in V4
  /\ detection' = [detection EXCEPT ![a] = "added"]
  /\ adding' = IF a \in Exempt THEN adding ELSE [adding EXCEPT ![a] = "append"]

(* A packet or connection of a banned source, or one over its throttle. *)
Dropped(a) ==
  /\ Banned(a) \/ throttle[a] = "on"
  /\ NoteBanned(a)
  /\ UNCHANGED <<ban, throttle, disk, filter, loader, loaded, reload, tcp, bounds>>

-----------------------------------------------------------------------------
(* The minute sweep; 24 hours pass at any time. *)

BanEnds(a) ==
  /\ \/ ban[a] = "on" /\ ban' = [ban EXCEPT ![a] = "over"] /\ UNCHANGED throttle
     \/ throttle[a] = "on" /\ throttle' = [throttle EXCEPT ![a] = "over"]
        /\ UNCHANGED ban
  /\ UNCHANGED <<detection, disk, filter, tasks, tcp, bounds>>

Swept(m) == [a \in Addrs |-> IF m[a] = "over" THEN "no" ELSE m[a]]

(* Mutant: a throttled source's detection is dropped too. *)
QuietDespiteThrottle == {a \in Addrs : ban[a] # "on" /\ adding[a] = "no"}

(* sweep_detections keeps what is banned or throttled; the others go when  *)
(* they have been quiet for a day, longer than a task that adds one runs.  *)
Quiet == {a \in Addrs : ban[a] # "on" /\ throttle[a] # "on" /\ adding[a] = "no"}

Sweep ==
  /\ ban' = Swept(ban) /\ throttle' = Swept(throttle)
  /\ \E gone \in SUBSET Quiet :
       detection' = [a \in Addrs |-> IF a \in gone THEN "no" ELSE detection[a]]
  /\ UNCHANGED <<disk, filter, tasks, tcp, bounds>>

-----------------------------------------------------------------------------
(* The filter file, its loaders and the swap. *)

(* Mutant: the filter is swapped and nobody is told. *)
SwapSilently(t) == filter' = loaded[t] /\ UNCHANGED tcp

SwapFilter(t) == filter' = loaded[t] /\ WakeAll /\ UNCHANGED session

(* add_async, on the blocking pool and then back on the runtime. *)
AddTask(a, from, to) ==
  /\ adding[a] = from
  /\ adding' = [adding EXCEPT ![a] = to]
  /\ UNCHANGED <<bots, loader, reload, bounds>>

Append(a) ==
  /\ AddTask(a, "append", "remember")
  /\ file' = file \cup {a}
  /\ dirty' = (dirty \/ a \notin file)
  /\ UNCHANGED <<list, filter, loaded, tcp>>

AppendFails(a) ==
  /\ AddTask(a, "append", "no")
  /\ UNCHANGED <<disk, filter, loaded, tcp>>

Remember(a) ==
  /\ AddTask(a, "remember", "load")
  /\ \/ list' = list \cup {a}
     \/ UNCHANGED list            \* the write failed: logged only
  /\ UNCHANGED <<file, dirty, filter, loaded, tcp>>

AddLoad(a) ==
  /\ AddTask(a, "load", "swap")
  /\ loaded' = [loaded EXCEPT ![a] = file]
  /\ UNCHANGED <<disk, filter, tcp>>

AddSwap(a) ==
  /\ AddTask(a, "swap", "no")
  /\ SwapFilter(a)
  /\ loaded' = [loaded EXCEPT ![a] = {}]
  /\ UNCHANGED disk

(* reassert, then load: on a reload that was asked for, and by the watcher *)
(* when the file's mtime has changed.                                      *)
Loader(l, from, to) ==
  /\ loader[l] = from
  /\ loader' = [loader EXCEPT ![l] = to]
  /\ UNCHANGED <<bots, adding, bounds>>

(* Mutant: the addresses added earlier are not put back. *)
LoadAsIs == UNCHANGED file

Reassert == file' = file \cup list

ReloadStart ==
  /\ reload /\ reload' = FALSE
  /\ Loader("reload", "no", "load")
  /\ Reassert
  /\ dirty' = (dirty \/ file' # file)
  /\ UNCHANGED <<list, filter, loaded, tcp>>

WatchStart ==
  /\ dirty
  /\ Loader("watch", "no", "stat")
  /\ Reassert
  /\ UNCHANGED <<list, dirty, filter, loaded, reload, tcp>>

WatchStat ==
  /\ Loader("watch", "stat", "load")
  /\ dirty' = FALSE
  /\ UNCHANGED <<file, list, filter, loaded, reload, tcp>>

Load(l) ==
  /\ Loader(l, "load", "swap")
  /\ loaded' = [loaded EXCEPT ![l] = file]
  /\ UNCHANGED <<disk, filter, reload, tcp>>

Swap(l) ==
  /\ Loader(l, "swap", "no")
  /\ SwapFilter(l)
  /\ loaded' = [loaded EXCEPT ![l] = {}]
  /\ UNCHANGED <<disk, reload>>

(* The update service installs a new file and asks for a reload. *)
Replace ==
  /\ replaced < MaxReplaced
  /\ replaced' = replaced + 1
  /\ file' = {} /\ dirty' = TRUE /\ reload' = TRUE
  /\ UNCHANGED <<bots, list, filter, adding, loader, loaded, tcp, restarts>>

(* A crash or restart; the start reasserts and loads before it listens. *)
Restart ==
  /\ restarts < MaxRestarts
  /\ restarts' = restarts + 1
  /\ ban' = [a \in Addrs |-> "no"] /\ throttle' = [a \in Addrs |-> "no"]
  /\ detection' = [a \in Addrs |-> "no"]
  /\ Reassert /\ filter' = file' /\ dirty' = FALSE /\ reload' = FALSE
  /\ adding' = [a \in Addrs |-> "no"] /\ loader' = [l \in Loaders |-> "no"]
  /\ loaded' = [t \in Tasks |-> {}]
  /\ session' = [a \in Addrs |-> FALSE] /\ woken' = [a \in Addrs |-> FALSE]
  /\ UNCHANGED <<list, replaced>>

-----------------------------------------------------------------------------
(* TCP sessions: the filter and the ban are read when the task starts, then *)
(* ip_filter_gen is subscribed to.                                         *)

Connect(a) ==
  /\ ~session[a] /\ a \notin filter /\ ~Banned(a)
  /\ session' = [session EXCEPT ![a] = TRUE]
  /\ woken' = [woken EXCEPT ![a] = FALSE]
  /\ UNCHANGED <<bots, disk, filter, tasks, bounds>>

Close(a) ==
  /\ session[a]
  /\ session' = [session EXCEPT ![a] = FALSE]
  /\ woken' = [woken EXCEPT ![a] = FALSE]
  /\ UNCHANGED <<bots, disk, filter, tasks, bounds>>

Wake(a) ==
  /\ session[a] /\ woken[a]
  /\ woken' = [woken EXCEPT ![a] = FALSE]
  /\ session' = [session EXCEPT ![a] = a \notin filter /\ ~Banned(a)]
  /\ UNCHANGED <<bots, disk, filter, tasks, bounds>>

-----------------------------------------------------------------------------
Adding(a) ==
  Append(a) \/ AppendFails(a) \/ Remember(a) \/ AddLoad(a) \/ AddSwap(a)

Loading ==
  \/ ReloadStart \/ WatchStart \/ WatchStat
  \/ \E l \in Loaders : Load(l) \/ Swap(l)

Next ==
  \/ \E a \in Addrs :
       \/ RecordQuery(a) \/ RecordSources(a) \/ Dropped(a)
       \/ BanEnds(a) \/ Adding(a)
       \/ Connect(a) \/ Close(a) \/ Wake(a)
  \/ Sweep \/ Loading \/ Replace \/ Restart

Fairness ==
  /\ \A a \in Addrs : WF_vars(Adding(a)) /\ WF_vars(Wake(a))
  /\ WF_vars(ReloadStart) /\ WF_vars(WatchStart) /\ WF_vars(WatchStat)
  /\ \A l \in Loaders : WF_vars(Load(l) \/ Swap(l))

Spec == Init /\ [][Next]_vars /\ Fairness

-----------------------------------------------------------------------------
(* While a source is banned or throttled its detection is there to count    *)
(* what it sends (note_banned does nothing without one), through detections *)
(* renewed, swept and ending in any order.                                 *)
DetectionKept ==
  \A a \in Addrs : ban[a] = "on" \/ throttle[a] = "on" => detection[a] # "no"

(* A session whose address the filter in force blocks has been told and not *)
(* yet looked ("a scanner added to it stayed connected for hours").         *)
FilteredSessionsWoken ==
  \A a \in Addrs : session[a] /\ a \in filter => woken[a]

(* A scanner recorded when the update service has replaced the filter file  *)
(* is filtered again, though the file may be replaced once more between its *)
(* being completed and loaded, other loads are under way and the server may *)
(* be restarted ("A replaced file (update service) gets the bots back").    *)
RecordedFilteredAgain ==
  \A a \in V4 : (a \in list /\ reload) ~> (a \in filter)

(* It then stays filtered ("takes effect within 30 s"): a load made before  *)
(* a line was appended is not put in place after it.                        *)
RecordedStaysFiltered ==
  \A a \in V4 : <>[](a \in list) => <>[](a \in filter)

(* A session of a source that is banned has been told ("Its TCP sessions    *)
(* close too").  Known to be false: renewing a ban that has run out and was *)
(* not swept yet tells nobody.                                             *)
BannedSessionsWoken ==
  \A a \in Addrs : session[a] /\ Banned(a) => woken[a]

(* What was found stays known, and reaches the sessions. *)
BotsKnown == TypeOK /\ DetectionKept /\ FilteredSessionsWoken
=============================================================================
