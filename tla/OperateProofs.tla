---------------------------- MODULE OperateProofs -----------------------------
(***************************************************************************)
(* Proofs about what keeps the server in order while it runs: what is      *)
(* known of bots and done to their sessions (BotFilter), for any           *)
(* addresses, actions and replacements of the filter file, the panel's own *)
(* certificate (AdminTls), for any names and crashes, and the updates of   *)
(* the list files (Updates), for any lists, crashes, edits and backups.    *)
(***************************************************************************)
EXTENDS MCOperate, FiniteSetTheorems, SequenceTheorems, WellFoundedInduction, TLAPS

-----------------------------------------------------------------------------
(* The bounds of the bot filter. *)
BotBounds == MaxReplaced \in Nat /\ MaxRestarts \in Nat

(* The types, and that only an address the file can name is added to it.   *)
AddsNameable == \A a \in Addrs : adding[a] # "no" => a \in V4

BotInv == Bot!TypeOK /\ AddsNameable /\ Bot!DetectionKept /\ Bot!FilteredSessionsWoken

-----------------------------------------------------------------------------
LEMMA BotInit ==
  ASSUME BotBounds, Bot!Init
  PROVE  BotInv
<1>1. loaded \in [Bot!Tasks -> SUBSET V4] BY DEF Bot!Init
<1>2. 0 \in 0 .. MaxReplaced /\ 0 \in 0 .. MaxRestarts BY DEF BotBounds
<1>3. Bot!TypeOK BY <1>1, <1>2 DEF Bot!Init, Bot!TypeOK
<1> QED BY <1>3 DEF BotInv, AddsNameable, Bot!Init, Bot!DetectionKept, Bot!FilteredSessionsWoken

(* Whoever is banned or throttled is detected, and a ban that is new tells  *)
(* every session.                                                           *)
LEMMA BotFlagged ==
  ASSUME BotInv, NEW a \in Addrs, NEW action, Bot!Flag(a, action),
         UNCHANGED <<Bot!disk, filter, Bot!tasks, session, Bot!bounds>>
  PROVE  BotInv'
<1> USE DEF Bot!disk, Bot!tasks, Bot!bounds
<1>1. Bot!TypeOK'
  BY DEF BotInv, Bot!TypeOK, Bot!Flag, Bot!Ban, Bot!Throttle, Bot!Detected, Bot!WakeAll, Bot!Loaders, Bot!Tasks
<1>2. Bot!DetectionKept'
  BY DEF BotInv, Bot!TypeOK, Bot!DetectionKept, Bot!Flag, Bot!Ban, Bot!Throttle, Bot!Detected
<1>3. Bot!FilteredSessionsWoken'
  BY DEF BotInv, Bot!TypeOK, Bot!FilteredSessionsWoken, Bot!Flag, Bot!Ban, Bot!Throttle, Bot!WakeAll
<1> QED BY <1>1, <1>2, <1>3 DEF BotInv, AddsNameable

(* A drop is counted and hands the address over only if the file names it. *)
LEMMA BotDropped ==
  ASSUME BotInv, NEW a \in Addrs, Bot!Dropped(a)
  PROVE  BotInv'
<1> USE DEF Bot!disk, Bot!tcp, Bot!bounds, Bot!Dropped, Bot!NoteBanned
<1>1. Bot!TypeOK' BY DEF BotInv, Bot!TypeOK, Bot!Loaders, Bot!Tasks
<1>2. Bot!DetectionKept' BY DEF BotInv, Bot!TypeOK, Bot!DetectionKept
<1>3. AddsNameable' BY DEF BotInv, Bot!TypeOK, AddsNameable
<1> QED BY <1>1, <1>2, <1>3 DEF BotInv, Bot!FilteredSessionsWoken

(* A ban that is over is one less to be detected. *)
LEMMA BotEnds ==
  ASSUME BotInv, NEW a \in Addrs, Bot!BanEnds(a)
  PROVE  BotInv'
<1> USE DEF Bot!disk, Bot!tcp, Bot!bounds, Bot!tasks, Bot!BanEnds
<1>1. Bot!TypeOK' BY DEF BotInv, Bot!TypeOK, Bot!Loaders, Bot!Tasks
<1>2. Bot!DetectionKept' BY DEF BotInv, Bot!TypeOK, Bot!DetectionKept
<1> QED BY <1>1, <1>2 DEF BotInv, Bot!FilteredSessionsWoken, AddsNameable

(* The sweep leaves the detections of what is banned or throttled. *)
LEMMA BotSwept ==
  ASSUME BotInv, Bot!Sweep
  PROVE  BotInv'
<1> USE DEF Bot!disk, Bot!tcp, Bot!bounds, Bot!tasks, Bot!Sweep, Bot!Swept
<1>1. Bot!TypeOK' BY DEF BotInv, Bot!TypeOK, Bot!Loaders, Bot!Tasks
<1>2. Bot!DetectionKept' BY DEF BotInv, Bot!TypeOK, Bot!DetectionKept, Bot!Quiet
<1> QED BY <1>1, <1>2 DEF BotInv, Bot!FilteredSessionsWoken, AddsNameable

(* The tasks that add an address; the last step puts a filter in place and *)
(* tells every session.                                                     *)
LEMMA BotAdded ==
  ASSUME BotInv, NEW a \in Addrs, Bot!Adding(a)
  PROVE  BotInv'
<1> USE DEF Bot!bots, Bot!disk, Bot!tcp, Bot!bounds, Bot!AddTask
<1>1. a \in V4 BY DEF BotInv, AddsNameable, Bot!Adding, Bot!Append, Bot!AppendFails, Bot!Remember, Bot!AddLoad, Bot!AddSwap
<1>2. Bot!TypeOK'
  <2>1. CASE Bot!Append(a) BY <1>1, <2>1 DEF BotInv, Bot!TypeOK, Bot!Append, Bot!Loaders, Bot!Tasks
  <2>2. CASE Bot!AppendFails(a) BY <2>2 DEF BotInv, Bot!TypeOK, Bot!AppendFails, Bot!Loaders, Bot!Tasks
  <2>3. CASE Bot!Remember(a) BY <1>1, <2>3 DEF BotInv, Bot!TypeOK, Bot!Remember, Bot!Loaders, Bot!Tasks
  <2>4. CASE Bot!AddLoad(a) BY <2>4 DEF BotInv, Bot!TypeOK, Bot!AddLoad, Bot!Loaders, Bot!Tasks
  <2>5. CASE Bot!AddSwap(a)
    BY <2>5 DEF BotInv, Bot!TypeOK, Bot!AddSwap, Bot!SwapFilter, Bot!WakeAll, Bot!Loaders, Bot!Tasks
  <2> QED BY <2>1, <2>2, <2>3, <2>4, <2>5 DEF Bot!Adding
<1> USE DEF Bot!Adding, Bot!Append, Bot!AppendFails, Bot!Remember, Bot!AddLoad, Bot!AddSwap,
            Bot!SwapFilter, Bot!WakeAll
<1>3. Bot!DetectionKept' BY DEF BotInv, Bot!DetectionKept
<1>4. Bot!FilteredSessionsWoken' BY DEF BotInv, Bot!FilteredSessionsWoken
<1>5. AddsNameable' BY <1>1 DEF BotInv, Bot!TypeOK, AddsNameable
<1> QED BY <1>2, <1>3, <1>4, <1>5 DEF BotInv

(* The loaders, likewise; they put back what was added before. *)
LEMMA BotLoading ==
  ASSUME BotInv, Bot!Loading
  PROVE  BotInv'
<1> USE DEF Bot!bots, Bot!disk, Bot!tcp, Bot!bounds, Bot!Loader, Bot!Reassert
<1>1. Bot!TypeOK'
  <2>1. CASE Bot!ReloadStart BY <2>1 DEF BotInv, Bot!TypeOK, Bot!ReloadStart, Bot!Loaders, Bot!Tasks
  <2>2. CASE Bot!WatchStart BY <2>2 DEF BotInv, Bot!TypeOK, Bot!WatchStart, Bot!Loaders, Bot!Tasks
  <2>3. CASE Bot!WatchStat BY <2>3 DEF BotInv, Bot!TypeOK, Bot!WatchStat, Bot!Loaders, Bot!Tasks
  <2>4. ASSUME NEW l \in Bot!Loaders, Bot!Load(l) PROVE Bot!TypeOK'
    BY <2>4 DEF BotInv, Bot!TypeOK, Bot!Load, Bot!Loaders, Bot!Tasks
  <2>5. ASSUME NEW l \in Bot!Loaders, Bot!Swap(l) PROVE Bot!TypeOK'
    BY <2>5 DEF BotInv, Bot!TypeOK, Bot!Swap, Bot!SwapFilter, Bot!WakeAll, Bot!Loaders, Bot!Tasks
  <2> QED BY <2>1, <2>2, <2>3, <2>4, <2>5 DEF Bot!Loading
<1> USE DEF Bot!Loading, Bot!ReloadStart, Bot!WatchStart, Bot!WatchStat, Bot!Load, Bot!Swap,
            Bot!SwapFilter, Bot!WakeAll
<1>2. Bot!DetectionKept' BY DEF BotInv, Bot!DetectionKept
<1>3. Bot!FilteredSessionsWoken' BY DEF BotInv, Bot!FilteredSessionsWoken
<1> QED BY <1>1, <1>2, <1>3 DEF BotInv, AddsNameable

(* A replaced file names nobody until the loaders complete it. *)
LEMMA BotReplaced ==
  ASSUME BotInv, BotBounds, Bot!Replace
  PROVE  BotInv'
<1> USE DEF Bot!bots, Bot!tcp, Bot!Replace
<1>1. replaced' \in 0 .. MaxReplaced BY DEF BotInv, BotBounds, Bot!TypeOK
<1>2. Bot!TypeOK' BY <1>1 DEF BotInv, Bot!TypeOK, Bot!Loaders, Bot!Tasks
<1> QED BY <1>2 DEF BotInv, AddsNameable, Bot!DetectionKept, Bot!FilteredSessionsWoken

(* After a restart nobody is banned, detected or connected. *)
LEMMA BotRestarted ==
  ASSUME BotInv, BotBounds, Bot!Restart
  PROVE  BotInv'
<1> USE DEF Bot!Restart, Bot!Reassert
<1>1. restarts' \in 0 .. MaxRestarts BY DEF BotInv, BotBounds, Bot!TypeOK
<1>2. loaded' \in [Bot!Tasks -> SUBSET V4] OBVIOUS
<1>3. file' \subseteq V4 /\ list' \subseteq V4 /\ filter' \subseteq V4 BY DEF BotInv, Bot!TypeOK
<1>4. Bot!TypeOK' BY <1>1, <1>2, <1>3 DEF BotInv, Bot!TypeOK
<1> QED BY <1>4 DEF BotInv, AddsNameable, Bot!DetectionKept, Bot!FilteredSessionsWoken

(* A session begins unfiltered, and looks at the filter when it is told. *)
LEMMA BotSession ==
  ASSUME BotInv, NEW a \in Addrs, Bot!Connect(a) \/ Bot!Close(a) \/ Bot!Wake(a)
  PROVE  BotInv'
<1> USE DEF Bot!bots, Bot!disk, Bot!tasks, Bot!bounds, Bot!Connect, Bot!Close, Bot!Wake
<1>1. Bot!TypeOK'
  <2>1. (a \notin filter /\ ~Bot!Banned(a)) \in BOOLEAN OBVIOUS
  <2>2. session' \in [Addrs -> BOOLEAN] /\ woken' \in [Addrs -> BOOLEAN]
    BY <2>1, Zenon DEF BotInv, Bot!TypeOK
  <2> QED BY <2>2 DEF BotInv, Bot!TypeOK, Bot!Loaders, Bot!Tasks
<1>2. filter' = filter /\ (session'[a] => a \notin filter)
  BY Zenon DEF BotInv, Bot!TypeOK
<1>3. \A b \in Addrs \ {a} : session'[b] = session[b] /\ woken'[b] = woken[b]
  <2>1. session \in [Addrs -> BOOLEAN] /\ woken \in [Addrs -> BOOLEAN] BY DEF BotInv, Bot!TypeOK
  <2> QED BY <2>1, ZenonT(60)
<1>4. Bot!FilteredSessionsWoken' BY <1>2, <1>3 DEF BotInv, Bot!FilteredSessionsWoken
<1> QED BY <1>1, <1>4 DEF BotInv, AddsNameable, Bot!DetectionKept

LEMMA BotStep ==
  ASSUME BotInv, BotBounds, Bot!Next \/ UNCHANGED Bot!vars
  PROVE  BotInv'
<1>1. ASSUME NEW a \in Addrs, Bot!RecordQuery(a) \/ Bot!RecordSources(a) PROVE BotInv'
  BY <1>1, BotFlagged DEF Bot!RecordQuery, Bot!RecordSources
<1>2. CASE UNCHANGED Bot!vars
  BY <1>2
  DEF BotInv, AddsNameable, Bot!TypeOK, Bot!DetectionKept, Bot!FilteredSessionsWoken, Bot!vars,
      Bot!bots, Bot!disk, Bot!tasks, Bot!tcp, Bot!bounds
<1> QED
  BY <1>1, <1>2, BotDropped, BotEnds, BotSwept, BotAdded, BotLoading, BotReplaced, BotRestarted, BotSession
  DEF Bot!Next

-----------------------------------------------------------------------------
(* Whoever is banned or throttled has a detection that counts what it sends, *)
(* and a session whose address the filter blocks has been told so, however   *)
(* detections, sweeps, loads, replacements and restarts interleave.          *)
THEOREM BotsAlwaysKnown ==
  ASSUME BotBounds
  PROVE  Bot!Spec => []BotsKnown
<1>1. Bot!Init => BotInv BY BotInit
<1>2. BotInv /\ (Bot!Next \/ UNCHANGED Bot!vars) => BotInv' BY BotStep
<1>3. BotInv => BotsKnown BY DEF BotInv, BotsKnown, Bot!BotsKnown
<1> QED BY <1>1, <1>2, <1>3, PTL DEF Bot!Spec

-----------------------------------------------------------------------------
(* A certificate of the server's own outlives the days in which it is       *)
(* renewed, and no configuration asks for the name of a missing note.       *)
TlsBounds ==
  /\ RenewDays \in Nat \ {0} /\ LeafDays \in Nat /\ LeafDays > RenewDays
  /\ MaxDay \in Nat /\ MaxPairs \in Nat \ {0} /\ MaxCrashes \in Nat
  /\ "none" \notin NameLists

(* The numbers of the pairs made so far go up to this. *)
PairsMade == Len(lastDays)

Process == [stage : {"down", "up", "cert", "note", "stat", "load", "loadKey", "settle"}, boot : BOOLEAN,
            cert : Nat, stamp : [cert : Nat, key : Nat]]

ConfTypes ==
  /\ tlsMode \in {"self-signed", "files"} /\ wanted \in NameLists /\ before \subseteq NameLists
  /\ day \in Nat /\ day <= MaxDay /\ tlsCrashes \in Nat /\ tlsCrashes <= MaxCrashes
  /\ misses \in Nat /\ misses < RenewDays

DiskTypes ==
  /\ lastDays \in Seq(Nat) /\ PairsMade <= MaxPairs
  /\ keyFile \in Nat /\ keyFile <= PairsMade /\ certFile \in Nat /\ certFile <= PairsMade
  /\ made.names \in NameLists \cup {"none"} /\ made.until \in Nat

ProcTypes ==
  /\ proc \in Process /\ proc.cert <= PairsMade
  /\ proc.stage = "down" => proc.boot
  /\ proc.stage = "up" => ~proc.boot
  /\ proc.stage = "settle" => proc.boot
  /\ proc.stage \in {"cert", "note"} => tlsMode = "self-signed"

ResolverTypes ==
  /\ resolver.cert \in Nat /\ resolver.cert <= PairsMade
  /\ stamp \in [cert : Nat, key : Nat] /\ overlooked \in [cert : Nat, key : Nat]

TlsTypes == ConfTypes /\ checked \in BOOLEAN /\ DiskTypes /\ ProcTypes /\ ResolverTypes

(* The note is not one that keeps the pair: for other names, or too old.    *)
NoteStale == made.names # wanted \/ made.until <= day + RenewDays

(* What the note and the files say of each other. *)
NoteInv ==
  /\ \A i \in 1 .. PairsMade : lastDays[i] <= day + LeafDays
  /\ certFile = 0 => made = Tls!Nothing
  /\ certFile # 0 => keyFile # 0 /\ made.until <= lastDays[certFile]
  /\ made.names \in before \cup {wanted, "none"}
  /\ certFile # keyFile => wanted \in before \/ NoteStale

(* A pair that is being made: the key, then the certificate. *)
MakingInv ==
  /\ proc.stage \in {"cert", "note"} =>
       NoteStale /\ keyFile # 0 /\ lastDays[keyFile] = day + LeafDays
  /\ proc.stage = "note" => certFile = keyFile
  /\ proc.stage \in {"stat", "load", "loadKey"} =>
       /\ certFile # 0 /\ lastDays[certFile] > day + RenewDays
       /\ wanted \in before \/ certFile = keyFile
  /\ proc.stage = "loadKey" => proc.cert = certFile
  /\ proc.stage = "settle" =>
       /\ resolver.cert = certFile /\ certFile # 0 /\ lastDays[certFile] > day + RenewDays
       /\ wanted \in before \/ resolver.cert = resolver.key

(* What is served while the next pair is made: each day on which the check  *)
(* fails is one of those kept for that.                                     *)
Serves == proc.stage # "down" /\ ~proc.boot
InTime ==
  /\ lastDays[resolver.cert] + misses >= day + RenewDays
  /\ checked /\ proc.stage = "up" => lastDays[resolver.cert] + misses > day + RenewDays
  /\ resolver.cert # certFile => NoteStale \/ proc.stage \in {"stat", "load", "loadKey"}
ServedInv ==
  Serves =>
    /\ resolver.cert # 0
    /\ wanted \in before \/ resolver.cert = resolver.key
    /\ overlooked = Tls!NoPair => InTime

OwnInv == tlsMode = "self-signed" => NoteInv /\ MakingInv /\ ServedInv
TlsInv == TlsTypes /\ OwnInv

-----------------------------------------------------------------------------
LEMMA TlsInit ==
  ASSUME TlsBounds, Tls!Init
  PROVE  TlsInv
<1> USE DEF TlsBounds, Tls!Init
<1>1. lastDays \in Seq(Nat) /\ PairsMade \in Nat /\ PairsMade <= 1 BY DEF PairsMade
<1>2. DiskTypes BY <1>1 DEF DiskTypes, Tls!Nothing, PairsMade
<1>3. ConfTypes BY DEF ConfTypes
<1>4. proc \in Process /\ proc.cert = 0 /\ proc.boot /\ proc.stage = "down"
  BY DEF Process, Tls!Down, Tls!NoPair
<1>5. ProcTypes BY <1>1, <1>4 DEF ProcTypes
<1>6. ResolverTypes BY <1>1 DEF ResolverTypes, Tls!NoPair
<1>7. ASSUME tlsMode = "self-signed" PROVE NoteInv BY <1>7 DEF NoteInv, Tls!Nothing, PairsMade
<1> QED
  BY <1>2, <1>3, <1>4, <1>5, <1>6, <1>7 DEF TlsInv, TlsTypes, OwnInv, MakingInv, ServedInv, Serves

(* The numbers in it are numbers. *)
LEMMA TlsNumbers ==
  ASSUME TlsBounds, TlsInv
  PROVE  /\ day \in Nat /\ misses \in Nat /\ misses <= RenewDays - 1
         /\ PairsMade \in Nat /\ \A i \in 1 .. PairsMade : lastDays[i] \in Nat
         /\ keyFile \in Nat /\ keyFile <= PairsMade /\ certFile \in Nat /\ certFile <= PairsMade
         /\ made.until \in Nat /\ proc.cert \in Nat /\ proc.cert <= PairsMade
         /\ resolver.cert \in Nat /\ resolver.cert <= PairsMade
         /\ Tls!OnDisk \in [cert : Nat, key : Nat]
<1>1. lastDays \in Seq(Nat) BY DEF TlsInv, TlsTypes, DiskTypes
<1>2. PairsMade \in Nat /\ \A i \in 1 .. PairsMade : lastDays[i] \in Nat BY <1>1 DEF PairsMade
<1>3. proc.cert \in Nat BY DEF TlsInv, TlsTypes, ProcTypes, Process
<1> QED
  BY <1>2, <1>3
  DEF TlsInv, TlsTypes, ConfTypes, DiskTypes, ProcTypes, ResolverTypes, Tls!OnDisk, TlsBounds

(* One more pair: the numbers so far keep their days. *)
LEMMA OneMorePair ==
  ASSUME TlsBounds, TlsInv, lastDays' = Append(lastDays, day + LeafDays)
  PROVE  /\ lastDays' \in Seq(Nat) /\ PairsMade' = PairsMade + 1
         /\ lastDays'[PairsMade + 1] = day + LeafDays
         /\ \A i \in 1 .. PairsMade : lastDays'[i] = lastDays[i]
<1>1. lastDays \in Seq(Nat) /\ day + LeafDays \in Nat
  BY DEF TlsBounds, TlsInv, TlsTypes, ConfTypes, DiskTypes
<1> QED BY <1>1 DEF PairsMade

(* The start, and the check: what is fresh is kept. *)
LEMMA TlsBegin ==
  ASSUME TlsBounds, TlsInv, Tls!Begin
  PROVE  TlsInv'
<1> USE DEF TlsBounds, Tls!conf, Tls!disk
<1>1. CASE tlsMode = "files"
  <2>1. UNCHANGED <<keyFile, certFile, made, lastDays, PairsMade, resolver, stamp, overlooked, misses, checked>>
        /\ UNCHANGED <<day, tlsMode, wanted, before, tlsCrashes>>
    BY <1>1 DEF Tls!Begin, PairsMade
  <2>2. proc' = proc \/ (proc.boot /\ proc' = [proc EXCEPT !.stage = "load"])
                     \/ (~proc.boot /\ proc' = [proc EXCEPT !.stage = "stat"])
    BY <1>1 DEF Tls!Begin, Tls!Loads, Tls!Goes
  <2>3. /\ proc' \in Process /\ proc'.cert = proc.cert
        /\ (proc'.stage = "up" => ~proc'.boot) /\ (proc'.stage = "down" => proc'.boot)
        /\ (proc'.stage = "settle" => proc'.boot)
        /\ proc'.stage \notin {"cert", "note"}
    BY <1>1, <2>2, TlsNumbers DEF TlsInv, TlsTypes, ProcTypes, Process
  <2>4. TlsTypes'
    <3>1. ConfTypes' BY <2>1, <2>3, TlsNumbers DEF TlsInv, TlsTypes, ConfTypes
    <3>2. DiskTypes' BY <2>1, <2>3, TlsNumbers DEF TlsInv, TlsTypes, DiskTypes
    <3>3. ProcTypes' BY <2>1, <2>3, TlsNumbers DEF TlsInv, TlsTypes, ProcTypes
    <3>4. ResolverTypes' BY <2>1, <2>3, TlsNumbers DEF TlsInv, TlsTypes, ResolverTypes
    <3>5. checked' \in BOOLEAN BY <2>1, <2>3 DEF TlsInv, TlsTypes
    <3> QED BY <3>1, <3>2, <3>3, <3>4, <3>5 DEF TlsTypes
  <2> QED BY <2>1, <2>4, <1>1 DEF TlsInv, OwnInv
<1>2. CASE tlsMode = "self-signed" /\ Tls!Fresh
  <2>1. UNCHANGED <<keyFile, certFile, made, lastDays, PairsMade, resolver, stamp, overlooked>>
        /\ UNCHANGED <<day, tlsMode, wanted, before, tlsCrashes>>
    BY <1>2 DEF Tls!Begin, PairsMade
  <2>2. lastDays[certFile] > day + RenewDays /\ ~NoteStale
    BY <1>2, TlsNumbers DEF TlsInv, OwnInv, NoteInv, Tls!Fresh, NoteStale
  <2>3. CASE proc.stage = "down"
    <3>0. proc.boot BY <2>3 DEF TlsInv, TlsTypes, ProcTypes
    <3>1. proc' = [proc EXCEPT !.stage = "load"] /\ misses' = misses /\ checked' = checked
      BY <1>2, <2>3, <3>0 DEF Tls!Begin, Tls!Loads, Tls!Goes
    <3>2. proc' \in Process /\ proc'.cert = proc.cert /\ proc'.stage = "load" /\ proc'.boot = proc.boot
      BY <3>1, TlsNumbers DEF TlsInv, TlsTypes, ProcTypes, Process
    <3>3. TlsTypes'
      <4>1. ConfTypes' BY <2>1, <3>1, <3>2, TlsNumbers DEF TlsInv, TlsTypes, ConfTypes
      <4>2. DiskTypes' BY <2>1, <3>1, <3>2, TlsNumbers DEF TlsInv, TlsTypes, DiskTypes
      <4>3. ProcTypes' BY <2>1, <3>1, <3>2, TlsNumbers DEF TlsInv, TlsTypes, ProcTypes
      <4>4. ResolverTypes' BY <2>1, <3>1, <3>2, TlsNumbers DEF TlsInv, TlsTypes, ResolverTypes
      <4>5. checked' \in BOOLEAN BY <2>1, <3>1, <3>2 DEF TlsInv, TlsTypes
      <4> QED BY <4>1, <4>2, <4>3, <4>4, <4>5 DEF TlsTypes
    <3>4. NoteInv' BY <1>2, <2>1 DEF TlsInv, OwnInv, NoteInv, NoteStale
    <3>5. MakingInv' BY <1>2, <2>1, <2>2, <3>2 DEF TlsInv, OwnInv, NoteInv, MakingInv, Tls!Fresh
    <3>6. ~Serves' BY <2>3, <3>2 DEF TlsInv, TlsTypes, ProcTypes, Serves
    <3> QED BY <3>3, <3>4, <3>5, <3>6 DEF TlsInv, OwnInv, ServedInv
  <2>4. CASE proc.stage = "up" /\ ~checked
    <3>1. proc' = proc /\ misses' = 0 /\ checked' = TRUE
      BY <1>2, <2>4 DEF Tls!Begin
    <3>2. TlsTypes'
      <4>1. ConfTypes' BY <2>1, <3>1, TlsNumbers DEF TlsInv, TlsTypes, ConfTypes
      <4>2. DiskTypes' BY <2>1, <3>1, TlsNumbers DEF TlsInv, TlsTypes, DiskTypes
      <4>3. ProcTypes' BY <2>1, <3>1, TlsNumbers DEF TlsInv, TlsTypes, ProcTypes
      <4>4. ResolverTypes' BY <2>1, <3>1, TlsNumbers DEF TlsInv, TlsTypes, ResolverTypes
      <4>5. checked' \in BOOLEAN BY <2>1, <3>1 DEF TlsInv, TlsTypes
      <4> QED BY <4>1, <4>2, <4>3, <4>4, <4>5 DEF TlsTypes
    <3>3. NoteInv' BY <1>2, <2>1 DEF TlsInv, OwnInv, NoteInv, NoteStale
    <3>4. MakingInv' BY <2>4, <3>1 DEF MakingInv
    <3>5. Serves => ServedInv'
      BY <1>2, <2>1, <2>2, <2>4, <3>1, TlsNumbers DEF TlsInv, OwnInv, ServedInv, InTime, NoteStale
    <3> QED BY <3>1, <3>2, <3>3, <3>4, <3>5 DEF TlsInv, OwnInv, ServedInv, Serves
  <2> QED BY <1>2, <2>3, <2>4 DEF Tls!Begin
<1>3. CASE tlsMode = "self-signed" /\ ~Tls!Fresh
  <2>1. /\ UNCHANGED <<certFile, made, resolver, stamp, overlooked, misses>>
        /\ UNCHANGED <<day, tlsMode, wanted, before, tlsCrashes>>
        /\ PairsMade < MaxPairs /\ proc' = [proc EXCEPT !.stage = "cert"]
    BY <1>3 DEF Tls!Begin, Tls!NewPair, Tls!Goes, PairsMade
  <2>2. NoteStale
    <3>1. TlsTypes /\ NoteInv BY <1>3 DEF TlsInv, OwnInv
    <3>2. ASSUME certFile = 0 \/ keyFile = 0 PROVE made.names # wanted
      BY <3>1, <3>2 DEF TlsTypes, ConfTypes, NoteInv, Tls!Nothing
    <3> QED BY <1>3, <3>2, TlsNumbers DEF Tls!Fresh, NoteStale
  <2>3. lastDays' = Append(lastDays, day + LeafDays) /\ keyFile' = Len(lastDays')
    BY <1>3 DEF Tls!Begin, Tls!NewPair
  <2>4. /\ lastDays' \in Seq(Nat) /\ PairsMade' = PairsMade + 1 /\ keyFile' = PairsMade + 1
        /\ lastDays'[PairsMade + 1] = day + LeafDays
        /\ \A i \in 1 .. PairsMade : lastDays'[i] = lastDays[i]
    BY <2>3, OneMorePair DEF PairsMade
  <2>5. proc' \in Process /\ proc'.cert = proc.cert /\ proc'.stage = "cert" /\ proc'.boot = proc.boot
    BY <2>1 DEF TlsInv, TlsTypes, ProcTypes, Process
  <2>6. checked' \in BOOLEAN BY <1>3 DEF Tls!Begin, TlsInv, TlsTypes
  <2>7. TlsTypes'
    <3>1. ConfTypes' BY <2>1 DEF TlsInv, TlsTypes, ConfTypes
    <3>2. DiskTypes'
      <4>1. PairsMade \in Nat /\ PairsMade' = PairsMade + 1 /\ keyFile' = PairsMade + 1 /\ PairsMade < MaxPairs
        BY <2>1, <2>4, TlsNumbers
      <4>2. PairsMade' <= MaxPairs /\ keyFile' \in Nat /\ keyFile' <= PairsMade' BY ONLY <4>1, MaxPairs \in Nat
      <4>3. certFile' \in Nat /\ certFile' <= PairsMade'
        <5>1. certFile' = certFile /\ certFile \in Nat /\ certFile <= PairsMade BY <2>1, TlsNumbers
        <5> QED BY <4>1, <5>1
      <4>4. made' = made /\ lastDays' \in Seq(Nat) BY <2>1, <2>4
      <4>5. made.names \in NameLists \cup {"none"} /\ made.until \in Nat BY DEF TlsInv, TlsTypes, DiskTypes
      <4> QED BY <4>2, <4>3, <4>4, <4>5 DEF DiskTypes
    <3>3. ProcTypes'
      <4>1. proc.cert \in Nat /\ proc.cert <= PairsMade /\ PairsMade \in Nat BY TlsNumbers
      <4>2. proc'.cert = proc.cert /\ PairsMade' = PairsMade + 1 BY <2>4, <2>5
      <4>3. proc'.cert <= PairsMade' BY <4>1, <4>2
      <4>4. proc' \in Process /\ proc'.stage = "cert" BY <2>5
      <4> QED BY <1>3, <2>1, <4>3, <4>4 DEF ProcTypes
    <3>4. ResolverTypes'
      <4>1. resolver.cert \in Nat /\ resolver.cert <= PairsMade /\ PairsMade \in Nat BY TlsNumbers
      <4>2. UNCHANGED <<resolver, stamp, overlooked>> /\ PairsMade' = PairsMade + 1 BY <2>1, <2>4
      <4>3. stamp \in [cert : Nat, key : Nat] /\ overlooked \in [cert : Nat, key : Nat]
        BY DEF TlsInv, TlsTypes, ResolverTypes
      <4> QED BY <4>1, <4>2, <4>3 DEF ResolverTypes
    <3> QED BY <2>6, <3>1, <3>2, <3>3, <3>4 DEF TlsTypes
  <2>8. NoteInv'
    <3>1. \A i \in 1 .. PairsMade + 1 : i = PairsMade + 1 \/ i \in 1 .. PairsMade BY TlsNumbers
    <3>2. \A i \in 1 .. PairsMade' : lastDays'[i] <= day' + LeafDays
      <4> SUFFICES ASSUME NEW i \in 1 .. PairsMade + 1 PROVE lastDays'[i] <= day + LeafDays
        BY <2>1, <2>4
      <4>1. CASE i = PairsMade + 1 BY <4>1, <2>4, TlsNumbers
      <4>2. CASE i \in 1 .. PairsMade BY <1>3, <4>2, <2>4 DEF TlsInv, OwnInv, NoteInv
      <4> QED BY <3>1, <4>1, <4>2
    <3>3. certFile # 0 => certFile \in 1 .. PairsMade BY TlsNumbers
    <3>4. NoteStale' BY <2>1, <2>2 DEF NoteStale
    <3>5. PairsMade \in Nat /\ keyFile' = PairsMade + 1 => keyFile' # 0 OBVIOUS
    <3>6. certFile # 0 => keyFile' # 0 /\ made.until <= lastDays'[certFile]
      <4>1. certFile # 0 => lastDays'[certFile] = lastDays[certFile] BY <2>4, <3>3
      <4> QED BY <1>3, <2>4, <3>5, <4>1, TlsNumbers DEF TlsInv, OwnInv, NoteInv
    <3> QED BY <1>3, <2>1, <3>2, <3>4, <3>6 DEF TlsInv, OwnInv, NoteInv
  <2>9. MakingInv'
    BY <1>3, <2>1, <2>2, <2>4, <2>5, TlsNumbers DEF MakingInv, NoteStale
  <2>10. ServedInv'
    <3>1. resolver.cert # 0 => resolver.cert \in 1 .. PairsMade BY TlsNumbers
    <3>2. proc.stage \in {"down", "up"} BY <1>3 DEF Tls!Begin
    <3>3. proc'.stage # "up" /\ (Serves' => Serves)
      BY <2>5, <3>2 DEF Serves, TlsInv, TlsTypes, ProcTypes
    <3> QED
      BY <1>3, <2>1, <2>2, <2>4, <3>1, <3>3 DEF TlsInv, OwnInv, ServedInv, InTime, NoteStale
  <2> QED BY <2>7, <2>8, <2>9, <2>10 DEF TlsInv, OwnInv
<1>4. tlsMode \in {"files", "self-signed"} BY DEF TlsInv, TlsTypes, ConfTypes
<1> QED BY <1>1, <1>2, <1>3, <1>4

(* The certificate after the key, and the note after both. *)
LEMMA TlsWritten ==
  ASSUME TlsBounds, TlsInv, Tls!WriteCert \/ Tls!WriteNote
  PROVE  TlsInv'
<1> USE DEF TlsBounds, Tls!conf
<1>1. CASE Tls!WriteCert
  <2>1. /\ UNCHANGED <<keyFile, made, lastDays, PairsMade, resolver, stamp, overlooked, misses, checked>>
        /\ UNCHANGED <<day, tlsMode, wanted, before, tlsCrashes>>
        /\ certFile' = keyFile /\ proc' = [proc EXCEPT !.stage = "note"] /\ proc.stage = "cert"
    BY <1>1 DEF Tls!WriteCert, Tls!Goes, PairsMade
  <2>2. proc' \in Process /\ proc'.cert = proc.cert /\ proc'.stage = "note" /\ proc'.boot = proc.boot
    BY <2>1 DEF TlsInv, TlsTypes, ProcTypes, Process
  <2>3. TlsTypes'
    <3>1. ConfTypes' BY <2>1, <2>2, TlsNumbers DEF TlsInv, TlsTypes, ConfTypes
    <3>2. DiskTypes' BY <2>1, <2>2, TlsNumbers DEF TlsInv, TlsTypes, DiskTypes
    <3>3. ProcTypes' BY <2>1, <2>2, TlsNumbers DEF TlsInv, TlsTypes, ProcTypes
    <3>4. ResolverTypes' BY <2>1, <2>2, TlsNumbers DEF TlsInv, TlsTypes, ResolverTypes
    <3>5. checked' \in BOOLEAN BY <2>1, <2>2 DEF TlsInv, TlsTypes
    <3> QED BY <3>1, <3>2, <3>3, <3>4, <3>5 DEF TlsTypes
  <2>4. tlsMode' = "self-signed" => NoteInv' /\ MakingInv'
    BY <2>1, <2>2, TlsNumbers
    DEF TlsInv, OwnInv, NoteInv, MakingInv, NoteStale, Tls!Nothing
  <2>5. tlsMode' = "self-signed" => ServedInv'
    BY <2>1, <2>2, TlsNumbers
    DEF TlsInv, OwnInv, MakingInv, ServedInv, InTime, Serves, NoteStale
  <2> QED BY <2>3, <2>4, <2>5 DEF TlsInv, OwnInv
<1>2. CASE Tls!WriteNote
  <2>1. /\ UNCHANGED <<keyFile, certFile, lastDays, PairsMade, resolver, stamp, overlooked, misses, checked>>
        /\ UNCHANGED <<day, tlsMode, wanted, before, tlsCrashes>>
        /\ made' = [names |-> wanted, until |-> lastDays[certFile]] /\ proc.stage = "note"
        /\ tlsMode = "self-signed"
        /\ proc' = [proc EXCEPT !.stage = IF proc.boot THEN "load" ELSE "stat"]
    BY <1>2 DEF Tls!WriteNote, Tls!Loads, Tls!Goes, PairsMade, TlsInv, TlsTypes, ProcTypes
  <2>2. proc' \in Process /\ proc'.cert = proc.cert /\ proc'.stage \in {"load", "stat"} /\ proc'.boot = proc.boot
    BY <2>1, TlsNumbers DEF TlsInv, TlsTypes, ProcTypes, Process
  <2>3. TlsTypes'
    <3>1. ConfTypes' BY <2>1, <2>2, TlsNumbers DEF TlsInv, TlsTypes, ConfTypes
    <3>2. DiskTypes'
      <4>1. certFile \in 1 .. PairsMade BY <2>1, TlsNumbers DEF TlsInv, OwnInv, MakingInv
      <4>2. lastDays[certFile] \in Nat BY <4>1, TlsNumbers
      <4> QED BY <2>1, <4>2 DEF TlsInv, TlsTypes, ConfTypes, DiskTypes
    <3>3. ProcTypes' BY <2>1, <2>2, TlsNumbers DEF TlsInv, TlsTypes, ProcTypes
    <3>4. ResolverTypes' BY <2>1, <2>2, TlsNumbers DEF TlsInv, TlsTypes, ResolverTypes
    <3>5. checked' \in BOOLEAN BY <2>1, <2>2 DEF TlsInv, TlsTypes
    <3> QED BY <3>1, <3>2, <3>3, <3>4, <3>5 DEF TlsTypes
  <2>4. tlsMode' = "self-signed" => NoteInv' /\ MakingInv'
    BY <2>1, <2>2, TlsNumbers
    DEF TlsInv, OwnInv, NoteInv, MakingInv, NoteStale, Tls!Nothing
  <2>5. tlsMode' = "self-signed" => ServedInv'
    BY <2>1, <2>2, TlsNumbers
    DEF TlsInv, OwnInv, MakingInv, ServedInv, InTime, Serves, NoteStale
  <2> QED BY <2>3, <2>4, <2>5 DEF TlsInv, OwnInv
<1> QED BY <1>1, <1>2

(* A file that could not be written: the start ends, the check is tried     *)
(* again on another day.                                                    *)
LEMMA TlsFails ==
  ASSUME TlsBounds, TlsInv, Tls!WriteFails
  PROVE  TlsInv'
<1> USE DEF TlsBounds, Tls!conf, Tls!disk
<1>1. /\ UNCHANGED <<keyFile, certFile, made, lastDays, PairsMade, resolver, stamp, overlooked>>
      /\ UNCHANGED <<day, tlsMode, wanted, before, tlsCrashes>>
      /\ proc.stage \in {"cert", "note", "up"}
  BY DEF Tls!WriteFails, PairsMade
<1>2. CASE proc.boot
  <2>1. proc' = Tls!Down /\ misses' = misses /\ checked' = checked BY <1>2 DEF Tls!WriteFails, Tls!Refused
  <2>2. proc' \in Process /\ proc'.cert = 0 /\ proc'.stage = "down" /\ proc'.boot
    BY <2>1 DEF Tls!Down, Tls!NoPair, Process
  <2>3. TlsTypes'
    <3>1. ConfTypes' BY <1>1, <2>1, <2>2, TlsNumbers DEF TlsInv, TlsTypes, ConfTypes
    <3>2. DiskTypes' BY <1>1, <2>1, <2>2, TlsNumbers DEF TlsInv, TlsTypes, DiskTypes
    <3>3. ProcTypes' BY <1>1, <2>1, <2>2, TlsNumbers DEF TlsInv, TlsTypes, ProcTypes
    <3>4. ResolverTypes' BY <1>1, <2>1, <2>2, TlsNumbers DEF TlsInv, TlsTypes, ResolverTypes
    <3>5. checked' \in BOOLEAN BY <1>1, <2>1, <2>2 DEF TlsInv, TlsTypes
    <3> QED BY <3>1, <3>2, <3>3, <3>4, <3>5 DEF TlsTypes
  <2>4. OwnInv' BY <1>1, <2>2 DEF TlsInv, OwnInv, NoteInv, MakingInv, ServedInv, InTime, Serves, NoteStale
  <2> QED BY <2>3, <2>4 DEF TlsInv
<1>3. CASE ~proc.boot
  <2>1. proc' = Tls!Up /\ misses' = misses + 1 /\ checked' = TRUE /\ misses < RenewDays - 1
    BY <1>3 DEF Tls!WriteFails, Tls!Refused
  <2>2. proc' \in Process /\ proc'.cert = 0 /\ proc'.stage = "up" /\ proc'.boot = FALSE
    BY <2>1 DEF Tls!Up, Tls!Down, Tls!NoPair, Process
  <2>3. TlsTypes'
    <3>1. ConfTypes' BY <1>1, <2>1, <2>2, TlsNumbers DEF TlsInv, TlsTypes, ConfTypes
    <3>2. DiskTypes' BY <1>1, <2>1, <2>2, TlsNumbers DEF TlsInv, TlsTypes, DiskTypes
    <3>3. ProcTypes' BY <1>1, <2>1, <2>2, TlsNumbers DEF TlsInv, TlsTypes, ProcTypes
    <3>4. ResolverTypes' BY <1>1, <2>1, <2>2, TlsNumbers DEF TlsInv, TlsTypes, ResolverTypes
    <3>5. checked' \in BOOLEAN BY <1>1, <2>1, <2>2 DEF TlsInv, TlsTypes
    <3> QED BY <3>1, <3>2, <3>3, <3>4, <3>5 DEF TlsTypes
  <2>4. proc.stage = "up" /\ tlsMode = "self-signed" => ~checked
    BY <1>1 DEF Tls!WriteFails
  <2>5. tlsMode' = "self-signed" => NoteInv' /\ MakingInv'
    BY <1>1, <2>2 DEF TlsInv, OwnInv, NoteInv, MakingInv, NoteStale
  <2>6. misses' = misses + 1 BY <2>1
  <2>7. ASSUME tlsMode = "self-signed" PROVE ServedInv'
    <3>1. Serves BY <1>1, <1>3 DEF Serves
    <3>2. ServedInv /\ MakingInv BY <2>7 DEF TlsInv, OwnInv
    <3>3. resolver.cert \in 1 .. PairsMade BY <3>1, <3>2, TlsNumbers DEF ServedInv
    <3>4. ASSUME overlooked = Tls!NoPair PROVE InTime'
      <4>1. InTime BY <3>1, <3>2, <3>4 DEF ServedInv
      <4>2. lastDays[resolver.cert] + misses' > day + RenewDays
        BY <2>6, <3>3, <4>1, TlsNumbers DEF InTime
      <4>3. resolver.cert # certFile => NoteStale BY <1>1, <4>1 DEF InTime
      <4>4. lastDays[resolver.cert] + misses' >= day + RenewDays BY <2>6, <3>3, <4>2, TlsNumbers
      <4> QED BY <1>1, <4>2, <4>3, <4>4 DEF InTime, NoteStale
    <3> QED BY <1>1, <3>1, <3>2, <3>4 DEF ServedInv
  <2> QED BY <1>1, <2>3, <2>5, <2>7 DEF TlsInv, OwnInv
<1> QED BY <1>2, <1>3

(* The mtimes of the check, then the certificate, then the key. *)
LEMMA TlsLoading ==
  ASSUME TlsBounds, TlsInv, Tls!Stat \/ Tls!LoadCert
  PROVE  TlsInv'
<1> USE DEF TlsBounds, Tls!conf, Tls!disk
<1>1. CASE Tls!Stat
  <2>1. /\ UNCHANGED <<keyFile, certFile, made, lastDays, PairsMade, resolver, stamp, overlooked, misses, checked>>
        /\ UNCHANGED <<day, tlsMode, wanted, before, tlsCrashes>>
        /\ proc.stage = "stat" /\ proc' = [proc EXCEPT !.stage = "load", !.stamp = Tls!OnDisk]
    BY <1>1 DEF Tls!Stat, PairsMade
  <2>2. proc' \in Process /\ proc'.cert = proc.cert /\ proc'.stage = "load" /\ proc'.boot = proc.boot
    BY <2>1, TlsNumbers DEF TlsInv, TlsTypes, ProcTypes, Process
  <2>3. TlsTypes'
    <3>1. ConfTypes' BY <2>1, <2>2, TlsNumbers DEF TlsInv, TlsTypes, ConfTypes
    <3>2. DiskTypes' BY <2>1, <2>2, TlsNumbers DEF TlsInv, TlsTypes, DiskTypes
    <3>3. ProcTypes' BY <2>1, <2>2, TlsNumbers DEF TlsInv, TlsTypes, ProcTypes
    <3>4. ResolverTypes' BY <2>1, <2>2, TlsNumbers DEF TlsInv, TlsTypes, ResolverTypes, Tls!NoPair
    <3>5. checked' \in BOOLEAN BY <2>1, <2>2 DEF TlsInv, TlsTypes
    <3> QED BY <3>1, <3>2, <3>3, <3>4, <3>5 DEF TlsTypes
  <2>4. OwnInv'
    BY <2>1, <2>2 DEF TlsInv, OwnInv, NoteInv, MakingInv, ServedInv, InTime, Serves, NoteStale
  <2> QED BY <2>3, <2>4 DEF TlsInv
<1>2. CASE Tls!LoadCert
  <2>1. /\ UNCHANGED <<keyFile, certFile, made, lastDays, PairsMade, resolver, stamp, overlooked, misses, checked>>
        /\ UNCHANGED <<day, tlsMode, wanted, before, tlsCrashes>>
        /\ proc.stage = "load" /\ proc' = [proc EXCEPT !.stage = "loadKey", !.cert = certFile]
    BY <1>2 DEF Tls!LoadCert, PairsMade
  <2>2. proc' \in Process /\ proc'.cert = certFile /\ proc'.stage = "loadKey" /\ proc'.boot = proc.boot
    BY <2>1, TlsNumbers DEF TlsInv, TlsTypes, ProcTypes, Process
  <2>3. TlsTypes'
    <3>1. ConfTypes' BY <2>1, <2>2, TlsNumbers DEF TlsInv, TlsTypes, ConfTypes
    <3>2. DiskTypes' BY <2>1, <2>2, TlsNumbers DEF TlsInv, TlsTypes, DiskTypes
    <3>3. ProcTypes' BY <2>1, <2>2, TlsNumbers DEF TlsInv, TlsTypes, ProcTypes
    <3>4. ResolverTypes' BY <2>1, <2>2, TlsNumbers DEF TlsInv, TlsTypes, ResolverTypes, Tls!NoPair
    <3>5. checked' \in BOOLEAN BY <2>1, <2>2 DEF TlsInv, TlsTypes
    <3> QED BY <3>1, <3>2, <3>3, <3>4, <3>5 DEF TlsTypes
  <2>4. OwnInv'
    BY <2>1, <2>2 DEF TlsInv, OwnInv, NoteInv, MakingInv, ServedInv, InTime, Serves, NoteStale
  <2> QED BY <2>3, <2>4 DEF TlsInv
<1> QED BY <1>1, <1>2

(* What the check has read is served at once; the start still settles.      *)
LEMMA TlsLoaded ==
  ASSUME TlsBounds, TlsInv, Tls!LoadKey
  PROVE  TlsInv'
<1> USE DEF TlsBounds, Tls!conf, Tls!disk
<1>1. /\ UNCHANGED <<keyFile, certFile, made, lastDays, PairsMade, checked>>
      /\ UNCHANGED <<day, tlsMode, wanted, before, tlsCrashes>>
      /\ proc.stage = "loadKey" /\ misses' = 0 /\ overlooked' = Tls!NoPair
      /\ resolver' = [cert |-> proc.cert, key |-> keyFile]
  BY DEF Tls!LoadKey, PairsMade
<1>2. CASE proc.boot
  <2>1. /\ UNCHANGED <<keyFile, certFile, made, lastDays, PairsMade, checked, stamp>>
        /\ UNCHANGED <<day, tlsMode, wanted, before, tlsCrashes>>
        /\ misses' = 0 /\ overlooked' = Tls!NoPair
        /\ resolver' = [cert |-> proc.cert, key |-> keyFile]
        /\ proc' = [proc EXCEPT !.stage = "settle"]
    BY <1>1, <1>2 DEF Tls!LoadKey, Tls!Goes
  <2>2. proc' \in Process /\ proc'.cert = proc.cert /\ proc'.stage = "settle" /\ proc'.boot
    BY <1>2, <2>1 DEF TlsInv, TlsTypes, ProcTypes, Process
  <2>3. TlsTypes'
    <3>1. ConfTypes' BY <2>1, <2>2, TlsNumbers DEF TlsInv, TlsTypes, ConfTypes
    <3>2. DiskTypes' BY <2>1, <2>2, TlsNumbers DEF TlsInv, TlsTypes, DiskTypes
    <3>3. ProcTypes' BY <2>1, <2>2, TlsNumbers DEF TlsInv, TlsTypes, ProcTypes
    <3>4. ResolverTypes' BY <2>1, <2>2, TlsNumbers DEF TlsInv, TlsTypes, ResolverTypes, Tls!NoPair
    <3>5. checked' \in BOOLEAN BY <2>1, <2>2 DEF TlsInv, TlsTypes
    <3> QED BY <3>1, <3>2, <3>3, <3>4, <3>5 DEF TlsTypes
  <2>4. tlsMode' = "self-signed" => NoteInv' /\ MakingInv'
    BY <1>1, <2>1, <2>2, TlsNumbers DEF TlsInv, OwnInv, NoteInv, MakingInv, NoteStale, Tls!Nothing
  <2>5. ServedInv' BY <2>2 DEF ServedInv, Serves
  <2> QED BY <2>3, <2>4, <2>5 DEF TlsInv, OwnInv
<1>3. CASE ~proc.boot
  <2>1. /\ UNCHANGED <<keyFile, certFile, made, lastDays, PairsMade, checked>>
        /\ UNCHANGED <<day, tlsMode, wanted, before, tlsCrashes>>
        /\ proc' = Tls!Up /\ misses' = 0 /\ overlooked' = Tls!NoPair
        /\ resolver' = [cert |-> proc.cert, key |-> keyFile]
        /\ stamp' = proc.stamp /\ proc.stamp \in [cert : Nat, key : Nat]
    BY <1>1, <1>3 DEF Tls!LoadKey, TlsInv, TlsTypes, ProcTypes, Process
  <2>2. proc' \in Process /\ proc'.cert = 0 /\ proc'.stage = "up" /\ proc'.boot = FALSE
    BY <2>1 DEF Tls!Up, Tls!Down, Tls!NoPair, Process
  <2>3. TlsTypes'
    <3>1. ConfTypes' BY <2>1, <2>2, TlsNumbers DEF TlsInv, TlsTypes, ConfTypes
    <3>2. DiskTypes' BY <2>1, <2>2, TlsNumbers DEF TlsInv, TlsTypes, DiskTypes
    <3>3. ProcTypes' BY <2>1, <2>2, TlsNumbers DEF TlsInv, TlsTypes, ProcTypes
    <3>4. ResolverTypes' BY <2>1, <2>2, TlsNumbers DEF TlsInv, TlsTypes, ResolverTypes, Tls!NoPair
    <3>5. checked' \in BOOLEAN BY <2>1, <2>2 DEF TlsInv, TlsTypes
    <3> QED BY <3>1, <3>2, <3>3, <3>4, <3>5 DEF TlsTypes
  <2>4. tlsMode' = "self-signed" => NoteInv' /\ MakingInv'
    BY <1>1, <2>1, <2>2, TlsNumbers DEF TlsInv, OwnInv, NoteInv, MakingInv, NoteStale, Tls!Nothing
  <2>5. ASSUME tlsMode = "self-signed" PROVE ServedInv'
    <3>1. /\ certFile # 0 /\ lastDays[certFile] > day + RenewDays
          /\ wanted \in before \/ certFile = keyFile
          /\ resolver'.cert = certFile /\ resolver'.key = keyFile
      BY <1>1, <2>5 DEF TlsInv, OwnInv, MakingInv
    <3>2. lastDays[certFile] \in Nat BY <3>1, TlsNumbers
    <3>3. InTime' BY <2>1, <3>1, <3>2, TlsNumbers DEF InTime
    <3> QED BY <2>1, <3>1, <3>3 DEF ServedInv
  <2> QED BY <2>1, <2>3, <2>4, <2>5 DEF TlsInv, OwnInv
<1> QED BY <1>2, <1>3

(* The start takes the mtimes and is done.                                  *)
LEMMA TlsSettled ==
  ASSUME TlsBounds, TlsInv, Tls!Settle
  PROVE  TlsInv'
<1> USE DEF TlsBounds, Tls!conf, Tls!disk
<1>1. /\ UNCHANGED <<keyFile, certFile, made, lastDays, PairsMade, resolver, misses, checked>>
      /\ UNCHANGED <<day, tlsMode, wanted, before, tlsCrashes>>
      /\ proc.stage = "settle" /\ proc' = Tls!Up
      /\ stamp' \in [cert : Nat, key : Nat] /\ overlooked' \in [cert : Nat, key : Nat]
  BY TlsNumbers DEF Tls!Settle, PairsMade, Tls!NoPair
<1>2. proc' \in Process /\ proc'.cert = 0 /\ proc'.stage = "up" /\ proc'.boot = FALSE
  BY <1>1 DEF Tls!Up, Tls!Down, Tls!NoPair, Process
<1>3. TlsTypes'
  <2>1. ConfTypes' BY <1>1, <1>2, TlsNumbers DEF TlsInv, TlsTypes, ConfTypes
  <2>2. DiskTypes' BY <1>1, <1>2, TlsNumbers DEF TlsInv, TlsTypes, DiskTypes
  <2>3. ProcTypes' BY <1>1, <1>2, TlsNumbers DEF TlsInv, TlsTypes, ProcTypes
  <2>4. ResolverTypes' BY <1>1, <1>2, TlsNumbers DEF TlsInv, TlsTypes, ResolverTypes
  <2>5. checked' \in BOOLEAN BY <1>1, <1>2 DEF TlsInv, TlsTypes
  <2> QED BY <2>1, <2>2, <2>3, <2>4, <2>5 DEF TlsTypes
<1>4. ASSUME tlsMode = "self-signed" PROVE NoteInv' /\ MakingInv' /\ ServedInv'
  <2>1. NoteInv' /\ MakingInv'
    BY <1>1, <1>2, <1>4 DEF TlsInv, OwnInv, NoteInv, MakingInv, NoteStale
  <2>2. /\ resolver.cert = certFile /\ certFile # 0 /\ lastDays[certFile] > day + RenewDays
        /\ wanted \in before \/ resolver.cert = resolver.key
    BY <1>1, <1>4 DEF TlsInv, OwnInv, MakingInv
  <2>3. lastDays[certFile] \in Nat BY <2>2, TlsNumbers
  <2>4. InTime' BY <1>1, <2>2, <2>3, TlsNumbers DEF InTime
  <2> QED BY <1>1, <2>1, <2>2, <2>4 DEF ServedInv
<1> QED BY <1>1, <1>3, <1>4 DEF TlsInv, OwnInv

(* A load that fails: the start ends, the check keeps what it serves.       *)
LEMMA TlsLoadFails ==
  ASSUME TlsBounds, TlsInv, Tls!LoadFails
  PROVE  TlsInv'
<1> USE DEF TlsBounds, Tls!conf, Tls!disk
<1>1. /\ UNCHANGED <<keyFile, certFile, made, lastDays, PairsMade, resolver, stamp, misses, checked>>
      /\ UNCHANGED <<day, tlsMode, wanted, before, tlsCrashes>>
      /\ proc.stage \in {"load", "loadKey"} /\ proc' = IF proc.boot THEN Tls!Down ELSE Tls!Up
      /\ overlooked' = IF ~proc.boot /\ tlsMode = "self-signed" THEN Tls!OnDisk ELSE overlooked
  BY DEF Tls!LoadFails, Tls!Refused, PairsMade
<1>2. /\ proc' \in Process /\ proc'.cert = 0 /\ proc'.stage \in {"down", "up"}
      /\ proc'.boot = proc.boot /\ (proc'.stage = "down" <=> proc.boot)
  BY <1>1 DEF Tls!Up, Tls!Down, Tls!NoPair, Process, TlsInv, TlsTypes, ProcTypes
<1>3. TlsTypes'
  <2>1. ConfTypes' BY <1>1, <1>2, TlsNumbers DEF TlsInv, TlsTypes, ConfTypes
  <2>2. DiskTypes' BY <1>1, <1>2, TlsNumbers DEF TlsInv, TlsTypes, DiskTypes
  <2>3. ProcTypes' BY <1>1, <1>2, TlsNumbers DEF TlsInv, TlsTypes, ProcTypes
  <2>4. ResolverTypes' BY <1>1, <1>2, TlsNumbers DEF TlsInv, TlsTypes, ResolverTypes
  <2>5. checked' \in BOOLEAN BY <1>1, <1>2 DEF TlsInv, TlsTypes
  <2> QED BY <2>1, <2>2, <2>3, <2>4, <2>5 DEF TlsTypes
<1>4. ASSUME tlsMode = "self-signed" PROVE NoteInv' /\ MakingInv' /\ ServedInv'
  <2>1. NoteInv' /\ MakingInv'
    BY <1>1, <1>2, <1>4 DEF TlsInv, OwnInv, NoteInv, MakingInv, NoteStale
  <2>2. certFile # 0 /\ ServedInv BY <1>1, <1>4 DEF TlsInv, OwnInv, MakingInv
  <2>3. ASSUME Serves' PROVE Serves /\ overlooked'.cert # 0
    BY <1>1, <1>2, <1>4, <2>2, <2>3 DEF Serves, Tls!OnDisk
  <2>4. Tls!NoPair.cert = 0 BY DEF Tls!NoPair
  <2> QED BY <1>1, <2>1, <2>2, <2>3, <2>4 DEF ServedInv
<1> QED BY <1>1, <1>3, <1>4 DEF TlsInv, OwnInv

(* The external tool is there in files mode only. *)
LEMMA TlsReplaced ==
  ASSUME TlsBounds, TlsInv, Tls!ReplaceCert \/ Tls!ReplaceKey
  PROVE  TlsInv'
<1> USE DEF TlsBounds, Tls!conf
<1>1. /\ UNCHANGED <<made, proc, resolver, stamp, overlooked, misses, checked>>
      /\ UNCHANGED <<day, tlsMode, wanted, before, tlsCrashes>>
      /\ tlsMode = "files"
  BY DEF Tls!ReplaceCert, Tls!ReplaceKey
<1>2. CASE keyFile < certFile /\ keyFile' = certFile /\ UNCHANGED <<certFile, lastDays>>
  <2>0. PairsMade' = PairsMade BY <1>2 DEF PairsMade
  <2>1. TlsTypes'
    <3>1. ConfTypes' BY <1>1, <1>2, <2>0, TlsNumbers DEF TlsInv, TlsTypes, ConfTypes
    <3>2. DiskTypes' BY <1>1, <1>2, <2>0, TlsNumbers DEF TlsInv, TlsTypes, DiskTypes
    <3>3. ProcTypes' BY <1>1, <1>2, <2>0, TlsNumbers DEF TlsInv, TlsTypes, ProcTypes
    <3>4. ResolverTypes' BY <1>1, <1>2, <2>0, TlsNumbers DEF TlsInv, TlsTypes, ResolverTypes
    <3>5. checked' \in BOOLEAN BY <1>1, <1>2 DEF TlsInv, TlsTypes
    <3> QED BY <3>1, <3>2, <3>3, <3>4, <3>5 DEF TlsTypes
  <2> QED BY <1>1, <2>1 DEF TlsInv, OwnInv
<1>3. CASE /\ certFile = keyFile /\ Len(lastDays) < MaxPairs
           /\ lastDays' = Append(lastDays, day + LeafDays) /\ certFile' = Len(lastDays') /\ UNCHANGED keyFile
  <2>1. /\ lastDays' \in Seq(Nat) /\ PairsMade' = PairsMade + 1 /\ certFile' = PairsMade + 1
        /\ PairsMade < MaxPairs /\ keyFile' = keyFile
    BY <1>3, OneMorePair DEF PairsMade
  <2>2. TlsTypes'
    <3>1. ConfTypes' BY <1>1, <2>1, TlsNumbers DEF TlsInv, TlsTypes, ConfTypes
    <3>2. DiskTypes'
      <4>1. PairsMade \in Nat /\ PairsMade' = PairsMade + 1 /\ PairsMade < MaxPairs /\ MaxPairs \in Nat
        BY <2>1, TlsNumbers DEF TlsBounds
      <4>2. PairsMade' <= MaxPairs /\ certFile' \in Nat /\ certFile' <= PairsMade' BY <2>1, <4>1
      <4>3. keyFile' \in Nat /\ keyFile' <= PairsMade' BY <2>1, <4>1, TlsNumbers
      <4>4. made' = made BY <1>1
      <4>5. made.names \in NameLists \cup {"none"} /\ made.until \in Nat BY DEF TlsInv, TlsTypes, DiskTypes
      <4> QED BY <2>1, <4>2, <4>3, <4>4, <4>5 DEF DiskTypes
    <3>3. ProcTypes' BY <1>1, <2>1, TlsNumbers DEF TlsInv, TlsTypes, ProcTypes
    <3>4. ResolverTypes'
      <4>1. resolver.cert \in Nat /\ resolver.cert <= PairsMade /\ PairsMade \in Nat BY TlsNumbers
      <4>2. UNCHANGED <<resolver, stamp, overlooked>> /\ PairsMade' = PairsMade + 1 BY <1>1, <2>1
      <4>3. stamp \in [cert : Nat, key : Nat] /\ overlooked \in [cert : Nat, key : Nat]
        BY DEF TlsInv, TlsTypes, ResolverTypes
      <4> QED BY <4>1, <4>2, <4>3 DEF ResolverTypes
    <3>5. checked' \in BOOLEAN BY <1>1, <1>3, <2>1 DEF TlsInv, TlsTypes
    <3> QED BY <3>1, <3>2, <3>3, <3>4, <3>5 DEF TlsTypes
  <2> QED BY <1>1, <2>2 DEF TlsInv, OwnInv
<1> QED BY <1>2, <1>3 DEF Tls!ReplaceCert, Tls!ReplaceKey

(* A day passes; the check has run, so one of the days kept for it is used  *)
(* at most.                                                                 *)
LEMMA TlsDay ==
  ASSUME TlsBounds, TlsInv, Tls!NextDay
  PROVE  TlsInv'
<1> USE DEF TlsBounds, Tls!conf, Tls!disk
<1>1. /\ UNCHANGED <<keyFile, certFile, made, lastDays, PairsMade, resolver, stamp, overlooked, misses, proc>>
      /\ UNCHANGED <<tlsMode, wanted, before, tlsCrashes>>
      /\ day < MaxDay /\ day' = day + 1
      /\ tlsMode = "self-signed" /\ proc.stage = "up" /\ checked /\ checked' = FALSE
  BY DEF Tls!NextDay, PairsMade
<1>2. day' \in Nat /\ day' <= MaxDay BY <1>1, TlsNumbers
<1>3. TlsTypes'
  <2>1. ConfTypes' BY <1>1, <1>2, TlsNumbers DEF TlsInv, TlsTypes, ConfTypes
  <2>2. DiskTypes' BY <1>1, <1>2, TlsNumbers DEF TlsInv, TlsTypes, DiskTypes
  <2>3. ProcTypes' BY <1>1, <1>2, TlsNumbers DEF TlsInv, TlsTypes, ProcTypes
  <2>4. ResolverTypes' BY <1>1, <1>2, TlsNumbers DEF TlsInv, TlsTypes, ResolverTypes
  <2>5. checked' \in BOOLEAN BY <1>1, <1>2 DEF TlsInv, TlsTypes
  <2> QED BY <2>1, <2>2, <2>3, <2>4, <2>5 DEF TlsTypes
<1>4. day' = day + 1 /\ UNCHANGED <<lastDays, PairsMade, misses, resolver, certFile, keyFile, made, wanted, before, proc>>
  BY <1>1 DEF PairsMade
<1>5. NoteInv'
  <2>1. NoteInv BY <1>1 DEF TlsInv, OwnInv
  <2>2. \A i \in 1 .. PairsMade' : lastDays'[i] <= day' + LeafDays
    BY <1>4, <2>1, TlsNumbers DEF NoteInv
  <2>3. NoteStale => NoteStale' BY <1>4, TlsNumbers DEF NoteStale
  <2> QED BY <1>4, <2>1, <2>2, <2>3 DEF NoteInv
<1>6. MakingInv' BY <1>1 DEF MakingInv
<1>7. ServedInv'
  <2>1. ServedInv BY <1>1 DEF TlsInv, OwnInv
  <2>2. Serves' => Serves BY <1>4 DEF Serves
  <2>3. NoteStale => NoteStale' BY <1>4, TlsNumbers DEF NoteStale
  <2>4. ASSUME Serves, overlooked = Tls!NoPair PROVE InTime'
    <3>0. InTime BY <2>1, <2>4 DEF ServedInv
    <3>1. lastDays[resolver.cert] + misses > day + RenewDays BY <1>1, <3>0 DEF InTime
    <3>2. resolver.cert \in 1 .. PairsMade BY <2>1, <2>4, TlsNumbers DEF ServedInv
    <3>3. lastDays'[resolver'.cert] + misses' >= day' + RenewDays BY <1>4, <3>1, <3>2, TlsNumbers
    <3> QED BY <1>1, <2>3, <3>0, <3>3 DEF InTime
  <2> QED BY <1>1, <2>1, <2>2, <2>4 DEF ServedInv
<1> QED BY <1>3, <1>5, <1>6, <1>7 DEF TlsInv, OwnInv

(* A crash leaves the files as they are. *)
LEMMA TlsCrash ==
  ASSUME TlsBounds, TlsInv, Tls!Crash
  PROVE  TlsInv'
<1> USE DEF TlsBounds, Tls!conf, Tls!disk
<1>1. /\ UNCHANGED <<keyFile, certFile, made, lastDays, PairsMade, stamp, checked>>
      /\ UNCHANGED <<day, tlsMode, wanted, before>>
      /\ tlsCrashes < MaxCrashes /\ tlsCrashes' = tlsCrashes + 1
      /\ proc' = Tls!Down /\ resolver' = Tls!NoPair /\ overlooked' = Tls!NoPair /\ misses' = 0
  BY DEF Tls!Crash, PairsMade
<1>2. proc' \in Process /\ proc'.cert = 0 /\ proc'.stage = "down" /\ proc'.boot
  BY <1>1 DEF Tls!Down, Tls!NoPair, Process
<1>3. TlsTypes'
  <2>1. ConfTypes' BY <1>1, <1>2, TlsNumbers DEF TlsInv, TlsTypes, ConfTypes
  <2>2. DiskTypes' BY <1>1, <1>2, TlsNumbers DEF TlsInv, TlsTypes, DiskTypes, Tls!NoPair
  <2>3. ProcTypes' BY <1>1, <1>2, TlsNumbers DEF TlsInv, TlsTypes, ProcTypes, Tls!NoPair
  <2>4. ResolverTypes' BY <1>1, <1>2, TlsNumbers DEF TlsInv, TlsTypes, ResolverTypes, Tls!NoPair
  <2>5. checked' \in BOOLEAN BY <1>1, <1>2 DEF TlsInv, TlsTypes
  <2> QED BY <2>1, <2>2, <2>3, <2>4, <2>5 DEF TlsTypes
<1>4. OwnInv' BY <1>1, <1>2 DEF TlsInv, OwnInv, NoteInv, MakingInv, ServedInv, InTime, Serves, NoteStale
<1> QED BY <1>3, <1>4 DEF TlsInv

(* A note that fits the new names was written under an earlier              *)
(* configuration that wanted them.                                          *)
LEMMA TlsReconfigured ==
  ASSUME TlsBounds, TlsInv, NEW names \in NameLists, Tls!Reconfigure(names)
  PROVE  TlsInv'
<1> USE DEF TlsBounds, Tls!disk
<1>1. /\ UNCHANGED <<keyFile, certFile, made, lastDays, PairsMade, resolver, stamp, overlooked, misses, checked, proc>>
      /\ UNCHANGED <<day, tlsMode, tlsCrashes>>
      /\ proc.stage = "down" /\ names # wanted /\ before' = before \cup {wanted} /\ wanted' = names
  BY DEF Tls!Reconfigure, PairsMade
<1>2. TlsTypes'
  <2>1. ConfTypes' BY <1>1, TlsNumbers DEF TlsInv, TlsTypes, ConfTypes
  <2>2. DiskTypes' BY <1>1, TlsNumbers DEF TlsInv, TlsTypes, DiskTypes
  <2>3. ProcTypes' BY <1>1, TlsNumbers DEF TlsInv, TlsTypes, ProcTypes
  <2>4. ResolverTypes' BY <1>1, TlsNumbers DEF TlsInv, TlsTypes, ResolverTypes
  <2>5. checked' \in BOOLEAN BY <1>1 DEF TlsInv, TlsTypes
  <2> QED BY <2>1, <2>2, <2>3, <2>4, <2>5 DEF TlsTypes
<1>3. OwnInv' BY <1>1 DEF TlsInv, OwnInv, NoteInv, MakingInv, ServedInv, InTime, Serves, NoteStale
<1> QED BY <1>2, <1>3 DEF TlsInv

LEMMA TlsStep ==
  ASSUME TlsBounds, TlsInv, Tls!Next \/ UNCHANGED Tls!vars
  PROVE  TlsInv'
<1>1. CASE UNCHANGED Tls!vars
  <2>0. PairsMade' = PairsMade BY <1>1 DEF PairsMade, Tls!vars
  <2>1. TlsTypes'
    <3>1. ConfTypes' BY <1>1 DEF TlsInv, TlsTypes, ConfTypes, Tls!vars
    <3>2. DiskTypes' BY <1>1, <2>0, TlsNumbers DEF TlsInv, TlsTypes, DiskTypes, Tls!vars
    <3>3. ProcTypes' BY <1>1, <2>0, TlsNumbers DEF TlsInv, TlsTypes, ProcTypes, Tls!vars
    <3>4. ResolverTypes' BY <1>1, <2>0, TlsNumbers DEF TlsInv, TlsTypes, ResolverTypes, Tls!vars
    <3>5. checked' \in BOOLEAN BY <1>1 DEF TlsInv, TlsTypes, Tls!vars
    <3> QED BY <3>1, <3>2, <3>3, <3>4, <3>5 DEF TlsTypes
  <2>2. OwnInv'
    BY <1>1, <2>0 DEF TlsInv, OwnInv, NoteInv, MakingInv, ServedInv, InTime, Serves, NoteStale, Tls!vars
  <2> QED BY <2>1, <2>2 DEF TlsInv
<1> QED
  BY <1>1, TlsBegin, TlsWritten, TlsFails, TlsLoading, TlsLoaded, TlsSettled, TlsLoadFails, TlsReplaced, TlsDay, TlsCrash, TlsReconfigured
  DEF Tls!Next

(* A pair that is served for days of its own is good. *)
LEMMA TlsImplied ==
  ASSUME TlsBounds, TlsInv
  PROVE  OwnPairGood
<1>1. proc.stage = "up" => Serves BY DEF TlsInv, TlsTypes, ProcTypes, Serves
<1>2. Tls!PairBelongsTogether BY <1>1 DEF TlsInv, OwnInv, ServedInv, Tls!PairBelongsTogether
<1>3. ASSUME proc.stage = "up", tlsMode = "self-signed", overlooked = Tls!NoPair
      PROVE  lastDays[resolver.cert] > day
  <2>1. lastDays[resolver.cert] \in Nat BY <1>1, <1>3, TlsNumbers DEF TlsInv, OwnInv, ServedInv
  <2> QED BY <1>1, <1>3, <2>1, TlsNumbers DEF TlsInv, OwnInv, ServedInv, InTime, TlsBounds
<1>4. Tls!TypeOK
  <2>1. keyFile \in 0 .. MaxPairs /\ certFile \in 0 .. MaxPairs
    BY TlsNumbers DEF TlsInv, TlsTypes, DiskTypes, TlsBounds
  <2>2. day \in 0 .. MaxDay /\ misses \in 0 .. RenewDays - 1 /\ tlsCrashes \in 0 .. MaxCrashes
    BY DEF TlsInv, TlsTypes, ConfTypes, TlsBounds
  <2> QED BY <2>1, <2>2 DEF TlsInv, TlsTypes, ConfTypes, ProcTypes, Process, Tls!TypeOK
<1> QED BY <1>2, <1>3, <1>4 DEF Tls!NeverEnded, OwnPairGood, Tls!OwnPairGood

(* Whatever crashes, full disks, new names and days come in between, the     *)
(* certificate the server made itself is served with its own key, is for the *)
(* names wanted, and has not ended - as long as the check fails on fewer     *)
(* days in a row than are kept for it, and what it makes can be loaded.      *)
THEOREM OwnPairAlwaysGood ==
  ASSUME TlsBounds
  PROVE  Tls!Spec => []OwnPairGood
<1>1. Tls!Init => TlsInv BY TlsInit
<1>2. TlsInv /\ (Tls!Next \/ UNCHANGED Tls!vars) => TlsInv' BY TlsStep
<1>3. TlsInv => OwnPairGood BY TlsImplied
<1> QED BY <1>1, <1>2, <1>3, PTL DEF Tls!Spec

(***************************************************************************)
(* Updates.                                                                *)
(***************************************************************************)
(* Induction over the numbers, as a fact about a set of them. *)
LEMMA NatSetInduction ==
  ASSUME NEW G, 0 \in G, \A n \in Nat : n \in G => n + 1 \in G
  PROVE  Nat \subseteq G
<1> DEFINE T == Nat \ G
           R == OpToRel(<, Nat)
<1>1. SUFFICES ASSUME T # {} PROVE FALSE
  OBVIOUS
<1>2. IsWellFoundedOn(R, Nat)
  BY NatLessThanWellFounded
<1>3. PICK x \in T : \A y \in T : ~(<<y, x>> \in R)
  <2> HIDE DEF R
  <2> QED BY <1>1, <1>2, WFMin
<1>4. \A y \in T : ~(y < x)
  <2> SUFFICES ASSUME NEW y \in T, y < x PROVE FALSE
    OBVIOUS
  <2>1. <<y, x>> \in R
    BY Zenon DEF OpToRel
  <2> QED BY <2>1, <1>3
<1> HIDE DEF R
<1>5. x # 0 /\ x - 1 \in Nat
  BY SMT
<1>6. x - 1 \notin T
  BY <1>4, <1>5
<1>7. x - 1 \in G BY <1>5, <1>6
<1>8. x \in Nat /\ (x - 1) + 1 = x /\ x \notin G OBVIOUS
<1> QED BY <1>5, <1>7, <1>8

(* The members of a sequence that are in a set, of its first i: how Picked   *)
(* computes them one by one.                                               *)
Picked1(s, S, k, i) == IF s[i] \in S THEN Append(k, s[i]) ELSE k
PicksRun(f, s, S, n) == f = [i \in 0 .. n |-> IF i = 0 THEN <<>> ELSE Picked1(s, S, f[i - 1], i)]

LEMMA PickRunExists ==
  ASSUME NEW s, NEW S, NEW n \in Nat
  PROVE  \E f : PicksRun(f, s, S, n)
<1> DEFINE G == {m \in Nat : \E f : PicksRun(f, s, S, m)}
<1>1. 0 \in G
  <2> DEFINE f == [k \in 0 .. 0 |-> <<>>]
  <2>1. PicksRun(f, s, S, 0) BY DEF PicksRun
  <2> QED BY <2>1
<1>2. ASSUME NEW m \in Nat, m \in G PROVE m + 1 \in G
  <2>1. PICK f : PicksRun(f, s, S, m) BY <1>2
  <2> DEFINE g == [k \in 0 .. m + 1 |-> IF k = m + 1 THEN Picked1(s, S, f[m], m + 1) ELSE f[k]]
  <2>2. \A k \in 0 .. m : g[k] = f[k] OBVIOUS
  <2>3. \A k \in 0 .. m : f[k] = IF k = 0 THEN <<>> ELSE Picked1(s, S, f[k - 1], k)
    BY <2>1 DEF PicksRun
  <2>4. ASSUME NEW k \in 0 .. m + 1
        PROVE  g[k] = IF k = 0 THEN <<>> ELSE Picked1(s, S, g[k - 1], k)
    <3>1. CASE k = m + 1
      <4>1. k # 0 /\ k - 1 = m /\ m \in 0 .. m BY <3>1
      <4>2. g[k - 1] = f[m] BY <2>2, <4>1
      <4>3. g[k] = Picked1(s, S, f[m], m + 1) BY <3>1
      <4> QED BY <3>1, <4>1, <4>2, <4>3
    <3>2. CASE k # m + 1
      <4>1. k \in 0 .. m /\ (k # 0 => k - 1 \in 0 .. m) BY <3>2
      <4>2. g[k] = f[k] /\ (k # 0 => g[k - 1] = f[k - 1]) BY <2>2, <4>1
      <4> HIDE DEF g
      <4> QED BY <2>3, <4>1, <4>2
    <3> QED BY <3>1, <3>2
  <2>5. g = [k \in 0 .. m + 1 |-> g[k]] OBVIOUS
  <2> HIDE DEF g
  <2>6. [k \in 0 .. m + 1 |-> g[k]]
          = [k \in 0 .. m + 1 |-> IF k = 0 THEN <<>> ELSE Picked1(s, S, g[k - 1], k)]
    BY <2>4
  <2>7. PicksRun(g, s, S, m + 1) BY <2>5, <2>6 DEF PicksRun
  <2> QED BY <2>7
<1> HIDE DEF G
<1>3. Nat \subseteq G BY <1>1, <1>2, NatSetInduction
<1> QED BY <1>3 DEF G

LEMMA PickedIsRun ==
  ASSUME NEW s, NEW S, Len(s) \in Nat
  PROVE  \E f : PicksRun(f, s, S, Len(s)) /\ Update!Picked(s, S) = f[Len(s)]
<1> DEFINE f == CHOOSE picked : picked = [i \in 0 .. Len(s) |->
                  IF i = 0 THEN <<>> ELSE IF s[i] \in S THEN Append(picked[i - 1], s[i]) ELSE picked[i - 1]]
<1>1. PICK g : PicksRun(g, s, S, Len(s)) BY PickRunExists
<1>2. g = [i \in 0 .. Len(s) |->
             IF i = 0 THEN <<>> ELSE IF s[i] \in S THEN Append(g[i - 1], s[i]) ELSE g[i - 1]]
  BY <1>1 DEF PicksRun, Picked1
<1>3. f = [i \in 0 .. Len(s) |->
             IF i = 0 THEN <<>> ELSE IF s[i] \in S THEN Append(f[i - 1], s[i]) ELSE f[i - 1]]
  BY <1>2
<1>4. Update!Picked(s, S) = f[Len(s)] BY DEF Update!Picked
<1>5. PicksRun(f, s, S, Len(s))
  <2> HIDE DEF f
  <2> QED BY <1>3 DEF PicksRun, Picked1
<1> QED BY <1>4, <1>5

(* A selection: which places of s its members come from, in order. *)
PickPlaces(g, k, s, S, n) ==
  /\ g \in [1 .. Len(k) -> 1 .. n]
  /\ \A i \in 1 .. Len(k) : k[i] = s[g[i]] /\ s[g[i]] \in S
  /\ \A i, j \in 1 .. Len(k) : i < j => g[i] < g[j]
  /\ \A m \in 1 .. n : s[m] \in S => \E i \in 1 .. Len(k) : g[i] = m

LEMMA PickedPlaces ==
  ASSUME NEW T, NEW s \in Seq(T), NEW S
  PROVE  /\ Update!Picked(s, S) \in Seq(T)
         /\ \E g : PickPlaces(g, Update!Picked(s, S), s, S, Len(s))
<1>1. Len(s) \in Nat /\ \A m \in 1 .. Len(s) : s[m] \in T BY LenProperties, ElementOfSeq
<1>2. PICK f : PicksRun(f, s, S, Len(s)) /\ Update!Picked(s, S) = f[Len(s)] BY <1>1, PickedIsRun
<1>3. \A n \in 0 .. Len(s) : f[n] = IF n = 0 THEN <<>> ELSE Picked1(s, S, f[n - 1], n)
  BY <1>2 DEF PicksRun
<1> DEFINE G == {n \in Nat : n <= Len(s) => f[n] \in Seq(T) /\ \E g : PickPlaces(g, f[n], s, S, n)}
<1>4. 0 \in G
  <2>1. f[0] = <<>> BY <1>1, <1>3
  <2>2. <<>> \in Seq(T) /\ Len(<<>>) = 0 BY EmptySeq
  <2>3. PickPlaces(<<>>, <<>>, s, S, 0)
    <3>1. 1 .. 0 = {} /\ <<>> \in [1 .. 0 -> 1 .. 0] OBVIOUS
    <3> QED BY <2>2, <3>1 DEF PickPlaces
  <2> QED BY <2>1, <2>2, <2>3
<1>5. ASSUME NEW n \in Nat, n \in G PROVE n + 1 \in G
  <2> SUFFICES ASSUME n + 1 <= Len(s)
               PROVE  f[n + 1] \in Seq(T) /\ \E g : PickPlaces(g, f[n + 1], s, S, n + 1)
    OBVIOUS
  <2>1. n + 1 \in 0 .. Len(s) /\ n + 1 # 0 /\ (n + 1) - 1 = n /\ n <= Len(s) /\ n + 1 \in 1 .. Len(s)
    BY <1>1
  <2> DEFINE k == f[n]
             e == s[n + 1]
  <2>2. k \in Seq(T) BY <1>5, <2>1
  <2>3. PICK g : PickPlaces(g, k, s, S, n) BY <1>5, <2>1
  <2>4. f[n + 1] = Picked1(s, S, k, n + 1) /\ e \in T BY <1>1, <1>3, <2>1
  <2>5. Len(k) \in Nat BY <2>2, LenProperties
  <2>6. CASE e \in S
    <3> DEFINE h == [i \in 1 .. Len(k) + 1 |-> IF i <= Len(k) THEN g[i] ELSE n + 1]
               a == Append(k, e)
    <3>1. f[n + 1] = a BY <2>4, <2>6 DEF Picked1
    <3>2. /\ a \in Seq(T) /\ Len(a) = Len(k) + 1 /\ \A i \in 1 .. Len(k) : a[i] = k[i]
          /\ a[Len(k) + 1] = e
      BY <2>2, <2>4, AppendProperties
    <3> HIDE DEF a, k
    <3>3. /\ \A i \in 1 .. Len(k) : g[i] \in 1 .. n /\ h[i] = g[i]
          /\ h[Len(k) + 1] = n + 1
      BY <2>3, <2>5 DEF PickPlaces
    <3>4. h \in [1 .. Len(a) -> 1 .. n + 1]
      <4>1. ASSUME NEW i \in 1 .. Len(k) + 1
            PROVE  (IF i <= Len(k) THEN g[i] ELSE n + 1) \in 1 .. n + 1
        <5>1. i <= Len(k) => i \in 1 .. Len(k) BY <2>5
        <5>2. \A j \in 1 .. Len(k) : g[j] \in 1 .. n BY <2>3 DEF PickPlaces
        <5>3. i <= Len(k) => g[i] \in 1 .. n BY Zenon, <5>1, <5>2
        <5>4. 1 .. n \subseteq 1 .. n + 1 OBVIOUS
        <5>5. n + 1 \in 1 .. n + 1 OBVIOUS
        <5> QED BY Zenon, <5>3, <5>4, <5>5
      <4>2. h \in [1 .. Len(k) + 1 -> 1 .. n + 1] BY <4>1
      <4> QED BY <3>2, <4>2
    <3> HIDE DEF h
    <3>5. \A i \in 1 .. Len(a) : i \in 1 .. Len(k) \/ i = Len(k) + 1 BY <2>5, <3>2
    <3>6. \A i \in 1 .. Len(a) : a[i] = s[h[i]] /\ s[h[i]] \in S
      BY <2>3, <2>6, <3>2, <3>3, <3>5 DEF PickPlaces
    <3>7. ASSUME NEW i \in 1 .. Len(a), NEW j \in 1 .. Len(a), i < j PROVE h[i] < h[j]
      <4>1. i \in 1 .. Len(k) BY <2>5, <3>2, <3>7
      <4>2. CASE j \in 1 .. Len(k) BY <2>3, <3>3, <3>7, <4>1, <4>2 DEF PickPlaces
      <4>3. CASE j = Len(k) + 1 BY <3>3, <4>1, <4>3
      <4> QED BY <3>5, <4>2, <4>3
    <3>8. ASSUME NEW m \in 1 .. n + 1, s[m] \in S PROVE \E i \in 1 .. Len(a) : h[i] = m
      <4>1. CASE m \in 1 .. n
        <5>1. PICK i \in 1 .. Len(k) : g[i] = m BY <2>3, <3>8, <4>1 DEF PickPlaces
        <5>2. i \in 1 .. Len(a) BY <2>5, <3>2
        <5> QED BY <3>3, <5>1, <5>2
      <4>2. CASE m = n + 1
        <5>1. Len(k) + 1 \in 1 .. Len(a) BY <2>5, <3>2
        <5> QED BY <3>3, <4>2, <5>1
      <4> QED BY <4>1, <4>2
    <3>9. PickPlaces(h, a, s, S, n + 1) BY <3>4, <3>6, <3>7, <3>8 DEF PickPlaces
    <3> QED BY <3>1, <3>2, <3>9
  <2>7. CASE e \notin S
    <3>1. f[n + 1] = k BY <2>4, <2>7 DEF Picked1
    <3>2. g \in [1 .. Len(k) -> 1 .. n + 1]
      <4>1. g \in [1 .. Len(k) -> 1 .. n] BY <2>3 DEF PickPlaces
      <4>2. 1 .. n \subseteq 1 .. n + 1 OBVIOUS
      <4> QED BY <4>1, <4>2
    <3>3. \A m \in 1 .. n + 1 : s[m] \in S => m \in 1 .. n BY <2>7
    <3>4. PickPlaces(g, k, s, S, n + 1) BY <2>3, <3>2, <3>3 DEF PickPlaces
    <3> QED BY <2>2, <3>1, <3>4
  <2> QED BY <2>6, <2>7
<1> HIDE DEF G
<1>6. Len(s) \in G BY <1>1, <1>4, <1>5, NatSetInduction
<1> QED BY <1>1, <1>2, <1>6 DEF G


-----------------------------------------------------------------------------
(* The lines of a list, whatever its hashes. *)
LinesOf(H) == [h : H, note : BOOLEAN]

(* What was picked is there, and a line of it comes from one place. *)
LEMMA PickedFacts ==
  ASSUME NEW T, NEW s \in Seq(T), NEW S
  PROVE  LET k == Update!Picked(s, S)
         IN /\ k \in Seq(T) /\ Len(k) \in Nat /\ Len(s) \in Nat
            /\ \A i \in 1 .. Len(k) : k[i] \in S
            /\ \A m \in 1 .. Len(s) : s[m] \in S => \E i \in 1 .. Len(k) : k[i] = s[m]
            /\ \A i, j \in 1 .. Len(k) : i < j =>
                 \E m, n \in 1 .. Len(s) : m < n /\ s[m] = k[i] /\ s[n] = k[j]
            /\ (\A m \in 1 .. Len(s) : s[m] \notin S) => k = <<>>
<1> DEFINE k == Update!Picked(s, S)
<1>1. k \in Seq(T) BY PickedPlaces
<1>2. PICK g : PickPlaces(g, k, s, S, Len(s)) BY PickedPlaces
<1> HIDE DEF k
<1>3. Len(k) \in Nat /\ Len(s) \in Nat BY <1>1, LenProperties
<1>4. /\ \A i \in 1 .. Len(k) : g[i] \in 1 .. Len(s) /\ k[i] = s[g[i]] /\ k[i] \in S
      /\ \A i, j \in 1 .. Len(k) : i < j => g[i] < g[j]
      /\ \A m \in 1 .. Len(s) : s[m] \in S => \E i \in 1 .. Len(k) : g[i] = m
  BY <1>2 DEF PickPlaces
<1>5. \A m \in 1 .. Len(s) : s[m] \in S => \E i \in 1 .. Len(k) : k[i] = s[m] BY <1>4
<1>6. \A i, j \in 1 .. Len(k) : i < j => \E m, n \in 1 .. Len(s) : m < n /\ s[m] = k[i] /\ s[n] = k[j]
  BY <1>4
<1>7. ASSUME \A m \in 1 .. Len(s) : s[m] \notin S PROVE k = <<>>
  <2>1. ~(1 \in 1 .. Len(k)) BY <1>4, <1>7
  <2>2. Len(k) = 0 BY <1>3, <2>1
  <2> QED BY <1>1, <2>2, EmptySeq
<1> QED BY <1>1, <1>3, <1>4, <1>5, <1>6, <1>7 DEF k

(* Something has the least of some numbers. *)
LEMMA LeastExists ==
  ASSUME NEW S, S # {}, NEW f, \A x \in S : f[x] \in Nat
  PROVE  \E x \in S : \A y \in S : f[x] <= f[y]
<1> DEFINE R == OpToRel(<, Nat)
           T == {f[x] : x \in S}
<1>1. IsWellFoundedOn(R, Nat) BY NatLessThanWellFounded
<1>2. T \subseteq Nat /\ T # {} OBVIOUS
<1>3. PICK m \in T : \A n \in T : ~(<<n, m>> \in R)
  <2> HIDE DEF R, T
  <2> QED BY <1>1, <1>2, WFMin
<1>4. ASSUME NEW n \in T PROVE ~(n < m)
  <2>1. n < m => <<n, m>> \in R BY <1>2, Zenon DEF OpToRel
  <2> QED BY <1>3, <2>1
<1> HIDE DEF R
<1>5. PICK x \in S : f[x] = m OBVIOUS
<1>6. ASSUME NEW y \in S PROVE f[x] <= f[y]
  <2>1. f[y] \in T OBVIOUS
  <2>2. ~(f[y] < m) BY <1>4, <2>1
  <2> HIDE DEF T
  <2>3. f[x] \in Nat /\ f[y] \in Nat OBVIOUS
  <2> QED BY <1>5, <2>2, <2>3
<1> QED BY <1>6

(* A hash of a list is first somewhere. *)
LEMMA FirstIs ==
  ASSUME NEW H, NEW c \in Seq(LinesOf(H)), NEW i \in 1 .. Len(c)
  PROVE  LET f == Update!FirstAt(c, c[i].h)
         IN /\ f \in 1 .. Len(c) /\ c[f].h = c[i].h
            /\ \A j \in 1 .. f - 1 : c[j].h # c[i].h
<1> DEFINE P(f) == c[f].h = c[i].h /\ \A j \in 1 .. f - 1 : c[j].h # c[i].h
           S == {j \in 1 .. Len(c) : c[j].h = c[i].h}
<1>1. Len(c) \in Nat BY LenProperties
<1>2. \E f \in 1 .. Len(c) : P(f)
  <2> DEFINE id == [j \in S |-> j]
  <2>1. S # {} /\ \A j \in S : id[j] \in Nat BY <1>1
  <2>2. \A j \in S : id[j] = j OBVIOUS
  <2> HIDE DEF id
  <2>3. PICK f \in S : \A j \in S : id[f] <= id[j]
    <3> HIDE DEF S
    <3> QED BY <2>1, LeastExists
  <2>4. \A j \in S : f <= j BY <2>2, <2>3
  <2>5. \A j \in 1 .. f - 1 : j \in 1 .. Len(c) /\ ~(f <= j) BY <1>1
  <2>6. \A j \in 1 .. f - 1 : c[j].h # c[i].h BY <2>4, <2>5
  <2> QED BY <2>6
<1>3. Update!FirstAt(c, c[i].h) = CHOOSE f \in 1 .. Len(c) : P(f) BY DEF Update!FirstAt
<1> HIDE DEF P
<1>4. Update!FirstAt(c, c[i].h) \in 1 .. Len(c) /\ P(Update!FirstAt(c, c[i].h)) BY <1>2, <1>3
<1> QED BY <1>4 DEF P

LEMMA WithNote ==
  ASSUME NEW H, NEW x \in LinesOf(H), NEW b \in BOOLEAN
  PROVE  LET y == [x EXCEPT !.note = b]
         IN y \in LinesOf(H) /\ y.h = x.h /\ y.note = b /\ (x.note = b => y = x)
BY Zenon DEF LinesOf

(* A sequence is given by its members. *)
LEMMA IsSequence ==
  ASSUME NEW T, NEW n \in Nat, NEW f \in [1 .. n -> T]
  PROVE  f \in Seq(T) /\ Len(f) = n
<1>1. f \in Seq(T) BY IsASeq
<1>2. DOMAIN f = 1 .. Len(f) /\ DOMAIN f = 1 .. n /\ Len(f) \in Nat BY <1>1, LenProperties
<1>3. n = 0 \/ n \in 1 .. Len(f) BY <1>2
<1>4. Len(f) = 0 \/ Len(f) \in 1 .. n BY <1>2
<1> QED BY <1>1, <1>2, <1>3, <1>4

(* The lines an upgrade gives a note. *)
Bare(old, new, i) ==
  Update!IsHash(old[i]) /\ Update!FirstAt(old, old[i].h) = i /\ Update!NotedIn(new, old[i].h)

LEMMA UpgradedFacts ==
  ASSUME NEW H, NEW old \in Seq(LinesOf(H)), NEW new
  PROVE  LET u == Update!Upgraded(old, new)
         IN /\ u \in Seq(LinesOf(H)) /\ Len(u) = Len(old)
            /\ \A i \in 1 .. Len(old) :
                 /\ u[i].h = old[i].h /\ (old[i].note => u[i].note)
                 /\ Bare(old, new, i) => u[i].note
            /\ (\A i \in 1 .. Len(old) : Bare(old, new, i) => old[i].note) => u = old
<1> DEFINE u == Update!Upgraded(old, new)
           L == LinesOf(H)
           yes == TRUE
<1>1. Len(old) \in Nat /\ old \in [1 .. Len(old) -> L] BY LenProperties
<1>2. u = [i \in 1 .. Len(old) |-> IF Bare(old, new, i) THEN [old[i] EXCEPT !.note = yes] ELSE old[i]]
  BY DEF Update!Upgraded, Bare
<1>3. yes \in BOOLEAN /\ yes OBVIOUS
<1> HIDE DEF u, yes
<1>4. ASSUME NEW i \in 1 .. Len(old)
      PROVE  LET y == [old[i] EXCEPT !.note = yes]
             IN old[i] \in L /\ y \in L /\ y.h = old[i].h /\ y.note = yes /\ (old[i].note = yes => y = old[i])
  <2>1. old[i] \in L BY <1>1
  <2> HIDE DEF L
  <2> QED BY <1>3, <2>1, WithNote DEF L
<1>5. ASSUME NEW i \in 1 .. Len(old)
      PROVE  u[i] \in L /\ u[i].h = old[i].h /\ (old[i].note => u[i].note) /\ (Bare(old, new, i) => u[i].note)
  <2>1. u[i] = IF Bare(old, new, i) THEN [old[i] EXCEPT !.note = yes] ELSE old[i] BY <1>2
  <2> HIDE DEF L
  <2>2. CASE Bare(old, new, i) BY <1>3, <1>4, <2>1, <2>2, Zenon
  <2>3. CASE ~Bare(old, new, i) BY <1>4, <2>1, <2>3, Zenon
  <2> QED BY <2>2, <2>3
<1>6. u \in [1 .. Len(old) -> L]
  <2>1. u = [i \in 1 .. Len(old) |-> u[i]] BY <1>2
  <2> HIDE DEF L
  <2> QED BY <1>5, <2>1
<1>7. u \in Seq(L) /\ Len(u) = Len(old)
  <2> HIDE DEF L
  <2> QED BY <1>1, <1>6, IsSequence
<1>8. ASSUME \A i \in 1 .. Len(old) : Bare(old, new, i) => old[i].note PROVE u = old
  <2>1. ASSUME NEW i \in 1 .. Len(old) PROVE u[i] = old[i]
    <3>1. u[i] = IF Bare(old, new, i) THEN [old[i] EXCEPT !.note = yes] ELSE old[i] BY <1>2
    <3>2. old[i] \in L /\ (old[i].note = yes => [old[i] EXCEPT !.note = yes] = old[i]) BY <1>4
    <3>3. old[i].note \in BOOLEAN BY <3>2, Zenon DEF LinesOf
    <3>4. CASE Bare(old, new, i)
      <4>1. old[i].note BY <1>8, <3>4
      <4>2. old[i].note = yes BY <1>3, <3>3, <4>1, Zenon
      <4> QED BY <3>1, <3>2, <3>4, <4>2, Zenon
    <3>5. CASE ~Bare(old, new, i) BY <3>1, <3>5, Zenon
    <3> QED BY <3>4, <3>5
  <2> QED BY <1>1, <1>6, <2>1
<1> QED BY <1>5, <1>7, <1>8 DEF u

(* Two sequences, one after the other. *)
LEMMA Joined2 ==
  ASSUME NEW T, NEW s \in Seq(T), NEW t \in Seq(T)
  PROVE  LET c == s \o t
         IN /\ c \in Seq(T) /\ Len(c) = Len(s) + Len(t)
            /\ \A i \in 1 .. Len(s) : c[i] = s[i]
            /\ \A i \in 1 .. Len(t) : c[Len(s) + i] = t[i]
<1> DEFINE c == s \o t
<1>1. Len(s) \in Nat /\ Len(t) \in Nat BY LenProperties
<1>2. /\ c \in Seq(T) /\ Len(c) = Len(s) + Len(t)
      /\ \A i \in 1 .. Len(s) + Len(t) : c[i] = IF i <= Len(s) THEN s[i] ELSE t[i - Len(s)]
  BY ConcatProperties
<1> HIDE DEF c
<1>3. ASSUME NEW i \in 1 .. Len(s) PROVE c[i] = s[i]
  <2>1. i \in 1 .. Len(s) + Len(t) /\ i <= Len(s) BY <1>1
  <2> QED BY <1>2, <2>1
<1>4. ASSUME NEW i \in 1 .. Len(t) PROVE c[Len(s) + i] = t[i]
  <2>1. Len(s) + i \in 1 .. Len(s) + Len(t) /\ ~(Len(s) + i <= Len(s)) /\ (Len(s) + i) - Len(s) = i BY <1>1
  <2> QED BY <1>2, <2>1
<1> QED BY <1>2, <1>3, <1>4 DEF c

(* What is appended: markers, then the added lines. *)
MergeShape(old, a, u, m) ==
  \E d \in Nat :
    /\ Len(m) = Len(old) + d + Len(a)
    /\ \A i \in 1 .. Len(old) : m[i] = u[i]
    /\ \A i \in 1 .. d : m[Len(old) + i].h = "#"
    /\ \A i \in 1 .. Len(a) : m[Len(old) + d + i] = a[i]

LEMMA MergeIs ==
  ASSUME NEW H, "#" \in H, NEW old \in Seq(LinesOf(H)), NEW new \in Seq(LinesOf(H)),
         NEW a, a = Update!Added(old, new), NEW u, u = Update!Upgraded(old, new),
         NEW m, m = Update!Merge(old, new)
  PROVE  /\ m \in Seq(LinesOf(H)) /\ a \in Seq(LinesOf(H))
         /\ a = <<>> => m = u
         /\ MergeShape(old, a, u, m)
<1> DEFINE L == LinesOf(H)
           no == FALSE
           mark == [h |-> "#", note |-> no]
<1>1. a \in Seq(L) /\ Len(a) \in Nat BY PickedFacts, LenProperties DEF Update!Added
<1>2. u \in Seq(L) /\ Len(u) = Len(old) BY UpgradedFacts
<1>3. mark \in L /\ mark.h = "#" BY Zenon DEF LinesOf
<1>4. Update!Marked = <<mark>> BY DEF Update!Marked
<1>5. m = u \o (IF a = <<>> THEN <<>> ELSE (IF old # <<>> THEN <<mark>> ELSE <<>>) \o <<mark>> \o a)
  BY <1>4 DEF Update!Merge
<1>6. Len(old) \in Nat BY LenProperties
<1> HIDE DEF L, mark
<1>7. CASE a = <<>>
  <2>1. m = u BY <1>2, <1>5, <1>7
  <2>2. Len(a) = 0 BY <1>7
  <2>3. Len(m) = Len(old) + 0 + Len(a) /\ 0 \in Nat BY <1>2, <1>6, <2>1, <2>2
  <2> QED BY <1>1, <1>2, <2>1, <2>2, <2>3 DEF L, MergeShape
<1>8. CASE a # <<>> /\ old # <<>>
  <2> DEFINE t == <<mark>> \o <<mark>>
             r == t \o a
  <2>1. t \in Seq(L) /\ Len(t) = 2 /\ t[1] = mark /\ t[2] = mark BY <1>3
  <2>2. m = u \o r BY <1>5, <1>8
  <2> HIDE DEF t
  <2>3. /\ r \in Seq(L) /\ Len(r) = 2 + Len(a)
        /\ \A i \in 1 .. 2 : r[i] = t[i]
        /\ \A i \in 1 .. Len(a) : r[2 + i] = a[i]
    <3>1. r = t \o a OBVIOUS
    <3> HIDE DEF r
    <3>2. /\ r \in Seq(L) /\ Len(r) = Len(t) + Len(a)
          /\ \A i \in 1 .. Len(t) : r[i] = t[i]
          /\ \A i \in 1 .. Len(a) : r[Len(t) + i] = a[i]
      <4>1. t \in Seq(L) /\ a \in Seq(L) BY <1>1, <2>1
      <4> QED BY <3>1, <4>1, Joined2
    <3> QED BY <2>1, <3>2
  <2> HIDE DEF r
  <2>4. /\ m \in Seq(L) /\ Len(m) = Len(old) + (2 + Len(a))
        /\ \A i \in 1 .. Len(old) : m[i] = u[i]
        /\ \A i \in 1 .. 2 + Len(a) : m[Len(old) + i] = r[i]
    <3>1. /\ m \in Seq(L) /\ Len(m) = Len(u) + Len(r)
          /\ \A i \in 1 .. Len(u) : m[i] = u[i]
          /\ \A i \in 1 .. Len(r) : m[Len(u) + i] = r[i]
      <4>1. u \in Seq(L) /\ r \in Seq(L) BY <1>2, <2>3
      <4> QED BY <2>2, <4>1, Joined2
    <3> QED BY <1>2, <2>3, <3>1
  <2>5. \A i \in 1 .. 2 : m[Len(old) + i].h = "#"
    <3> TAKE i \in 1 .. 2
    <3>1. i \in 1 .. 2 + Len(a) /\ (i = 1 \/ i = 2) BY <1>1
    <3> QED BY <1>3, <2>1, <2>3, <2>4, <3>1
  <2>6. \A i \in 1 .. Len(a) : m[Len(old) + 2 + i] = a[i]
    <3> TAKE i \in 1 .. Len(a)
    <3>1. 2 + i \in 1 .. 2 + Len(a) /\ Len(old) + (2 + i) = Len(old) + 2 + i BY <1>1, <1>6
    <3> QED BY <2>3, <2>4, <3>1
  <2>7. Len(m) = Len(old) + 2 + Len(a) /\ 2 \in Nat BY <1>1, <1>6, <2>4
  <2> QED BY <1>1, <1>8, <2>4, <2>5, <2>6, <2>7 DEF L, MergeShape
<1>9. CASE a # <<>> /\ old = <<>>
  <2> DEFINE t == <<>> \o <<mark>>
             r == t \o a
  <2>1. t \in Seq(L) /\ Len(t) = 1 /\ t[1] = mark BY <1>3
  <2>2. m = u \o r BY <1>5, <1>9
  <2> HIDE DEF t
  <2>3. /\ r \in Seq(L) /\ Len(r) = 1 + Len(a)
        /\ \A i \in 1 .. 1 : r[i] = t[i]
        /\ \A i \in 1 .. Len(a) : r[1 + i] = a[i]
    <3>1. r = t \o a OBVIOUS
    <3> HIDE DEF r
    <3>2. /\ r \in Seq(L) /\ Len(r) = Len(t) + Len(a)
          /\ \A i \in 1 .. Len(t) : r[i] = t[i]
          /\ \A i \in 1 .. Len(a) : r[Len(t) + i] = a[i]
      <4>1. t \in Seq(L) /\ a \in Seq(L) BY <1>1, <2>1
      <4> QED BY <3>1, <4>1, Joined2
    <3> QED BY <2>1, <3>2
  <2> HIDE DEF r
  <2>4. /\ m \in Seq(L) /\ Len(m) = Len(old) + (1 + Len(a))
        /\ \A i \in 1 .. Len(old) : m[i] = u[i]
        /\ \A i \in 1 .. 1 + Len(a) : m[Len(old) + i] = r[i]
    <3>1. /\ m \in Seq(L) /\ Len(m) = Len(u) + Len(r)
          /\ \A i \in 1 .. Len(u) : m[i] = u[i]
          /\ \A i \in 1 .. Len(r) : m[Len(u) + i] = r[i]
      <4>1. u \in Seq(L) /\ r \in Seq(L) BY <1>2, <2>3
      <4> QED BY <2>2, <4>1, Joined2
    <3> QED BY <1>2, <2>3, <3>1
  <2>5. \A i \in 1 .. 1 : m[Len(old) + i].h = "#"
    <3> TAKE i \in 1 .. 1
    <3>1. i \in 1 .. 1 + Len(a) /\ i = 1 BY <1>1
    <3> QED BY <1>3, <2>1, <2>3, <2>4, <3>1
  <2>6. \A i \in 1 .. Len(a) : m[Len(old) + 1 + i] = a[i]
    <3> TAKE i \in 1 .. Len(a)
    <3>1. 1 + i \in 1 .. 1 + Len(a) /\ Len(old) + (1 + i) = Len(old) + 1 + i BY <1>1, <1>6
    <3> QED BY <2>3, <2>4, <3>1
  <2>7. Len(m) = Len(old) + 1 + Len(a) /\ 1 \in Nat BY <1>1, <1>6, <2>4
  <2> QED BY <1>1, <1>9, <2>4, <2>5, <2>6, <2>7 DEF L, MergeShape
<1> QED BY <1>7, <1>8, <1>9

(* What a merge adds: each hash the old list lacks, from its one line. *)
LEMMA AddedFacts ==
  ASSUME NEW H, NEW old \in Seq(LinesOf(H)), NEW new \in Seq(LinesOf(H)), ~Update!MergePanics(old, new)
  PROVE  LET a == Update!Added(old, new)
         IN /\ a \in Seq(LinesOf(H)) /\ Len(a) \in Nat
            /\ \A i \in 1 .. Len(a) :
                 /\ Update!IsHash(a[i]) /\ ~Update!Has(old, a[i].h)
                 /\ \E m \in 1 .. Len(new) : new[m] = a[i]
                 /\ Update!NotedIn(new, a[i].h) => a[i].note
            /\ \A m \in 1 .. Len(new) :
                 Update!IsHash(new[m]) /\ ~Update!Has(old, new[m].h) => \E i \in 1 .. Len(a) : a[i] = new[m]
            /\ \A i, j \in 1 .. Len(a) : i # j => a[i].h # a[j].h
<1> DEFINE S == {l \in Update!Range(new) : Update!IsHash(l) /\ ~Update!Has(old, l.h)}
           a == Update!Added(old, new)
<1>1. a = Update!Picked(new, S) BY DEF Update!Added
<1>2. Len(new) \in Nat /\ DOMAIN new = 1 .. Len(new) BY LenProperties
<1>3. Update!Range(new) = {new[m] : m \in 1 .. Len(new)} BY <1>2 DEF Update!Range
<1> HIDE DEF a, S
<1>4. /\ a \in Seq(LinesOf(H)) /\ Len(a) \in Nat
      /\ \A i \in 1 .. Len(a) : a[i] \in S
      /\ \A m \in 1 .. Len(new) : new[m] \in S => \E i \in 1 .. Len(a) : a[i] = new[m]
      /\ \A i, j \in 1 .. Len(a) : i < j =>
           \E m, n \in 1 .. Len(new) : m < n /\ new[m] = a[i] /\ new[n] = a[j]
  <2> DEFINE k == Update!Picked(new, S)
  <2>1. /\ k \in Seq(LinesOf(H)) /\ Len(k) \in Nat
        /\ \A i \in 1 .. Len(k) : k[i] \in S
        /\ \A m \in 1 .. Len(new) : new[m] \in S => \E i \in 1 .. Len(k) : k[i] = new[m]
        /\ \A i, j \in 1 .. Len(k) : i < j =>
             \E m, n \in 1 .. Len(new) : m < n /\ new[m] = k[i] /\ new[n] = k[j]
    BY PickedFacts
  <2>2. a = k BY <1>1
  <2> HIDE DEF k
  <2> QED BY <2>1, <2>2
<1>5. ASSUME NEW m \in 1 .. Len(new), NEW n \in 1 .. Len(new), new[m].h = new[n].h,
             Update!IsHash(new[m]), ~Update!Has(old, new[m].h)
      PROVE  m = n
  <2>1. Update!IsHash(new[n]) /\ ~Update!Has(old, new[n].h) BY <1>5 DEF Update!IsHash
  <2>2. ~(m < n) BY <1>5 DEF Update!MergePanics
  <2>3. ~(n < m) BY <1>5, <2>1 DEF Update!MergePanics
  <2> QED BY <1>2, <2>2, <2>3
<1>6. ASSUME NEW i \in 1 .. Len(a)
      PROVE  /\ Update!IsHash(a[i]) /\ ~Update!Has(old, a[i].h)
             /\ \E m \in 1 .. Len(new) : new[m] = a[i]
             /\ Update!NotedIn(new, a[i].h) => a[i].note
  <2>1. a[i] \in S BY <1>4
  <2>2. Update!IsHash(a[i]) /\ ~Update!Has(old, a[i].h) /\ a[i] \in Update!Range(new) BY <2>1, Zenon DEF S
  <2>3. PICK m \in 1 .. Len(new) : new[m] = a[i] BY <1>3, <2>2
  <2>4. ASSUME Update!NotedIn(new, a[i].h) PROVE a[i].note
    <3>1. PICK n \in 1 .. Len(new) : new[n].h = a[i].h /\ new[n].note BY <2>4, Zenon DEF Update!NotedIn
    <3>2. m = n BY <1>5, <2>2, <2>3, <3>1
    <3> QED BY <2>3, <3>1, <3>2, Zenon
  <2> QED BY <2>2, <2>3, <2>4
<1>7. ASSUME NEW m \in 1 .. Len(new), Update!IsHash(new[m]), ~Update!Has(old, new[m].h)
      PROVE  \E i \in 1 .. Len(a) : a[i] = new[m]
  <2>1. new[m] \in Update!Range(new) BY <1>3
  <2>2. new[m] \in S BY <1>7, <2>1, Zenon DEF S
  <2> QED BY <1>4, <2>2
<1>8. ASSUME NEW i \in 1 .. Len(a), NEW j \in 1 .. Len(a), i < j PROVE a[i].h # a[j].h
  <2>1. PICK m \in 1 .. Len(new), n \in 1 .. Len(new) : m < n /\ new[m] = a[i] /\ new[n] = a[j]
    BY <1>4, <1>8
  <2>2. Update!IsHash(new[m]) /\ ~Update!Has(old, new[m].h) BY <1>6, <2>1
  <2>3. m # n BY <1>2, <2>1
  <2> QED BY <1>5, <2>1, <2>2, <2>3
<1>9. ASSUME NEW i \in 1 .. Len(a), NEW j \in 1 .. Len(a), i # j PROVE a[i].h # a[j].h
  <2>1. i < j \/ j < i BY <1>4, <1>9
  <2> QED BY <1>8, <2>1
<1> HIDE DEF S
<1> QED BY <1>4, <1>6, <1>7, <1>9 DEF a

(* A merge keeps the old lines in place and their notes, has each hash of   *)
(* the new list with its note, the added ones once, and merged again        *)
(* changes nothing.                                                         *)
MergeGood(old, new) ==
  LET merged == Update!Merge(old, new)
  IN /\ \A i \in 1 .. Len(old) : merged[i].h = old[i].h /\ (old[i].note => merged[i].note)
     /\ \A l \in Update!Range(Update!Hashes(new)) :
          Update!Has(merged, l.h) /\ (Update!NotedIn(new, l.h) => Update!NotedIn(merged, l.h))
     /\ \A i, j \in Len(old) + 1 .. Len(merged) :
          i # j /\ Update!IsHash(merged[i]) => merged[i].h # merged[j].h
     /\ Update!Merge(merged, new) = merged

LEMMA MergeFacts ==
  ASSUME NEW H, "#" \in H, NEW old \in Seq(LinesOf(H)), NEW new \in Seq(LinesOf(H)),
         ~Update!MergePanics(old, new)
  PROVE  MergeGood(old, new)
<1> DEFINE a == Update!Added(old, new)
           u == Update!Upgraded(old, new)
           m == Update!Merge(old, new)
<1>1. /\ u \in Seq(LinesOf(H)) /\ Len(u) = Len(old)
      /\ \A i \in 1 .. Len(old) :
           u[i].h = old[i].h /\ (old[i].note => u[i].note) /\ (Bare(old, new, i) => u[i].note)
  BY UpgradedFacts
<1>2. /\ Len(a) \in Nat
      /\ \A i \in 1 .. Len(a) :
           /\ Update!IsHash(a[i]) /\ ~Update!Has(old, a[i].h)
           /\ Update!NotedIn(new, a[i].h) => a[i].note
      /\ \A n \in 1 .. Len(new) :
           Update!IsHash(new[n]) /\ ~Update!Has(old, new[n].h) => \E i \in 1 .. Len(a) : a[i] = new[n]
      /\ \A i, j \in 1 .. Len(a) : i # j => a[i].h # a[j].h
  BY AddedFacts
<1>3. a = Update!Added(old, new) /\ u = Update!Upgraded(old, new) /\ m = Update!Merge(old, new) OBVIOUS
<1> HIDE DEF a, u, m
<1>0. m \in Seq(LinesOf(H)) BY <1>3, MergeIs
<1>4. PICK d \in Nat :
        /\ Len(m) = Len(old) + d + Len(a)
        /\ \A i \in 1 .. Len(old) : m[i] = u[i]
        /\ \A i \in 1 .. d : m[Len(old) + i].h = "#"
        /\ \A i \in 1 .. Len(a) : m[Len(old) + d + i] = a[i]
  <2>1. MergeShape(old, a, u, m) BY <1>3, MergeIs
  <2> QED BY <2>1 DEF MergeShape
<1>5. Len(old) \in Nat /\ Len(new) \in Nat BY LenProperties
<1>6. ASSUME NEW i \in 1 .. Len(m)
      PROVE  \/ i \in 1 .. Len(old) \/ \E k \in 1 .. d : i = Len(old) + k
             \/ \E k \in 1 .. Len(a) : i = Len(old) + d + k
  <2>1. CASE i <= Len(old) BY <1>5, <2>1
  <2>2. CASE Len(old) < i /\ i <= Len(old) + d
    <3>1. i - Len(old) \in 1 .. d /\ i = Len(old) + (i - Len(old)) BY <1>5, <2>2
    <3> QED BY <3>1
  <2>3. CASE Len(old) + d < i
    <3>1. i - (Len(old) + d) \in 1 .. Len(a) /\ i = Len(old) + d + (i - (Len(old) + d))
      BY <1>2, <1>4, <1>5, <2>3
    <3> QED BY <3>1
  <2> QED BY <1>5, <2>1, <2>2, <2>3
<1>7. \A k \in 1 .. Len(a) : Len(old) + d + k \in 1 .. Len(m) BY <1>2, <1>4, <1>5
<1>8. \A i \in 1 .. Len(old) : i \in 1 .. Len(m) BY <1>2, <1>4, <1>5
<1>9. \A i \in 1 .. Len(old) :
        m[i].h = old[i].h /\ (old[i].note => m[i].note) /\ (Bare(old, new, i) => m[i].note)
  BY <1>1, <1>4, Zenon
<1>10. ASSUME NEW n \in 1 .. Len(new), Update!IsHash(new[n])
       PROVE  /\ Update!Has(m, new[n].h)
              /\ Update!NotedIn(new, new[n].h) => Update!NotedIn(m, new[n].h)
  <2>1. CASE Update!Has(old, new[n].h)
    <3>1. PICK i \in 1 .. Len(old) : old[i].h = new[n].h BY <2>1 DEF Update!Has
    <3> DEFINE f == Update!FirstAt(old, old[i].h)
    <3>2. f \in 1 .. Len(old) /\ old[f].h = old[i].h BY FirstIs
    <3>3. Update!NotedIn(new, new[n].h) => Bare(old, new, f)
      BY <1>10, <3>1, <3>2 DEF Bare, Update!IsHash
    <3> HIDE DEF f
    <3>4. f \in 1 .. Len(m) /\ m[f].h = new[n].h BY <1>8, <1>9, <3>1, <3>2
    <3>5. Update!NotedIn(new, new[n].h) => m[f].note BY <1>9, <3>2, <3>3, Zenon
    <3> QED BY <3>4, <3>5, Zenon DEF Update!Has, Update!NotedIn
  <2>2. CASE ~Update!Has(old, new[n].h)
    <3>1. PICK k \in 1 .. Len(a) : a[k] = new[n] BY <1>2, <1>10, <2>2
    <3>2. Len(old) + d + k \in 1 .. Len(m) /\ m[Len(old) + d + k] = new[n] BY <1>4, <1>7, <3>1
    <3>3. Update!NotedIn(new, new[n].h) => new[n].note BY <1>2, <3>1, Zenon
    <3> QED BY <3>2, <3>3, Zenon DEF Update!Has, Update!NotedIn
  <2> QED BY <2>1, <2>2
<1>11. ASSUME NEW l \in Update!Range(Update!Hashes(new))
       PROVE  \E n \in 1 .. Len(new) : new[n] = l /\ Update!IsHash(l)
  <2> DEFINE S == {x \in Update!Range(new) : Update!IsHash(x)}
             k == Update!Picked(new, S)
  <2>1. Update!Hashes(new) = k BY DEF Update!Hashes
  <2>2. DOMAIN new = 1 .. Len(new) BY LenProperties
  <2>3. k \in Seq(LinesOf(H)) /\ \A i \in 1 .. Len(k) : k[i] \in S
    <3> HIDE DEF S
    <3> QED BY PickedFacts
  <2> HIDE DEF k
  <2>4. DOMAIN k = 1 .. Len(k) BY <2>3, LenProperties
  <2>5. PICK i \in 1 .. Len(k) : l = k[i] BY <2>1, <2>4 DEF Update!Range
  <2>6. l \in Update!Range(new) /\ Update!IsHash(l) BY <2>3, <2>5, Zenon
  <2> QED BY <2>2, <2>6 DEF Update!Range
<1>12. \A l \in Update!Range(Update!Hashes(new)) :
         Update!Has(m, l.h) /\ (Update!NotedIn(new, l.h) => Update!NotedIn(m, l.h))
  BY <1>10, <1>11, Zenon
<1>13. ASSUME NEW i \in Len(old) + 1 .. Len(m), NEW j \in Len(old) + 1 .. Len(m), i # j, Update!IsHash(m[i])
       PROVE  m[i].h # m[j].h
  <2>1. i \in 1 .. Len(m) /\ j \in 1 .. Len(m) /\ i \notin 1 .. Len(old) /\ j \notin 1 .. Len(old) BY <1>5
  <2>2. m[i].h # "#" BY <1>13 DEF Update!IsHash
  <2>3. PICK k \in 1 .. Len(a) : i = Len(old) + d + k BY <1>4, <1>6, <2>1, <2>2
  <2>4. CASE \E n \in 1 .. d : j = Len(old) + n BY <1>4, <2>2, <2>4
  <2>5. CASE \E n \in 1 .. Len(a) : j = Len(old) + d + n
    <3>1. PICK n \in 1 .. Len(a) : j = Len(old) + d + n BY <2>5
    <3>2. k # n BY <1>13, <2>3, <3>1
    <3>3. m[i] = a[k] /\ m[j] = a[n] BY <1>4, <2>3, <3>1
    <3> QED BY <1>2, <3>2, <3>3
  <2> QED BY <1>6, <2>1, <2>4, <2>5
<1>14. Update!Merge(m, new) = m
  <2>1. Update!Added(m, new) = <<>>
    <3> DEFINE S == {l \in Update!Range(new) : Update!IsHash(l) /\ ~Update!Has(m, l.h)}
    <3>1. \A n \in 1 .. Len(new) : new[n] \notin S BY <1>10, Zenon
    <3>2. Update!Added(m, new) = Update!Picked(new, S) BY DEF Update!Added
    <3> HIDE DEF S
    <3> QED BY <3>1, <3>2, PickedFacts
  <2>2. Update!Merge(m, new) = Update!Upgraded(m, new)
    <3>1. Update!Added(m, new) = <<>> => Update!Merge(m, new) = Update!Upgraded(m, new) BY <1>0, MergeIs
    <3> QED BY <2>1, <3>1
  <2>3. ASSUME NEW i \in 1 .. Len(m), Bare(m, new, i) PROVE m[i].note
    <3>1. Update!IsHash(m[i]) /\ Update!FirstAt(m, m[i].h) = i /\ Update!NotedIn(new, m[i].h)
      BY <2>3, Zenon DEF Bare
    <3>2. CASE i \in 1 .. Len(old)
      <4> DEFINE f == Update!FirstAt(old, old[i].h)
      <4>1. f \in 1 .. Len(old) /\ old[f].h = old[i].h /\ \A j \in 1 .. f - 1 : old[j].h # old[i].h
        BY <3>2, FirstIs
      <4>2. \A j \in 1 .. i - 1 : m[j].h # m[i].h BY <1>0, <3>1, FirstIs
      <4> HIDE DEF f
      <4>3. m[i].h = old[i].h /\ m[f].h = old[i].h BY <1>9, <3>2, <4>1
      <4>4. ~(f < i)
        <5>1. f < i => f \in 1 .. i - 1 BY <1>5, <3>2, <4>1
        <5> QED BY <4>2, <4>3, <5>1
      <4>5. ~(i < f)
        <5>1. i < f => i \in 1 .. f - 1 BY <1>5, <3>2, <4>1
        <5> QED BY <4>1, <5>1
      <4>6. f = i BY <1>5, <3>2, <4>1, <4>4, <4>5
      <4>7. Bare(old, new, i) BY <3>1, <4>3, <4>6 DEF Bare, Update!IsHash, f
      <4> QED BY <1>9, <3>2, <4>7, Zenon
    <3>3. CASE \E k \in 1 .. d : i = Len(old) + k BY <1>4, <3>1, <3>3 DEF Update!IsHash
    <3>4. CASE \E k \in 1 .. Len(a) : i = Len(old) + d + k
      <4>1. PICK k \in 1 .. Len(a) : i = Len(old) + d + k BY <3>4
      <4>2. m[i] = a[k] BY <1>4, <4>1
      <4> QED BY <1>2, <3>1, <4>2, Zenon
    <3> QED BY <1>6, <3>2, <3>3, <3>4
  <2>4. Update!Upgraded(m, new) = m BY <1>0, <2>3, UpgradedFacts
  <2> QED BY <2>2, <2>4
<1> QED BY <1>9, <1>12, <1>13, <1>14, Zenon DEF MergeGood, m

-----------------------------------------------------------------------------
(* The publisher's and the operator's lists hold hashes of H; one update at *)
(* a time.                                                                  *)
UpdateBounds(H) ==
  /\ "#" \in H /\ "torn" \notin H /\ "none" \notin H
  /\ Published \in Seq(Seq(LinesOf(H))) /\ Published # <<>> /\ HandMade \subseteq Seq(LinesOf(H))
  /\ Keep \in Nat /\ MaxStops \in Nat /\ MaxOwnEdits \in Nat
  /\ \E r : Runs = {r}

UpdStages == {"idle", "sig", "compare", "shift", "copy", "create", "write", "rename"}
RunsOf(H) ==
  [stage : UpdStages, mode : {"replace", "merge"}, got : Seq(LinesOf(H)), version : Nat,
   final : Seq(LinesOf(H)), handle : Nat]
Contents(H) == Seq(LinesOf(H)) \cup {Update!Torn}

(* The name points at a whole file, the temporary name at another one. *)
DiskGood(H, ino, p, tmp) ==
  /\ ino \in [1 .. 4 -> Contents(H)] /\ p \in 0 .. 4 /\ tmp \in 0 .. 4
  /\ p # 0 => p # tmp /\ ino[p] # Update!Torn

(* An update holds what was fetched of one list, or, once checked, a list;  *)
(* it writes to the temporary file and renames it when it is whole.         *)
RunGood(H, x, ino, tmp) ==
  /\ x \in RunsOf(H)
  /\ x.version \in 0 .. Len(Published) /\ (x.version # 0 => x.got = Published[x.version])
  /\ x.stage \notin {"idle", "sig"} => \E v \in 1 .. Len(Published) : x.got = Published[v]
  /\ x.stage \in {"write", "rename"} => x.handle = tmp /\ tmp # 0
  /\ x.stage = "rename" => ino[tmp] # Update!Torn

UpdateInv(H) ==
  /\ target \in {"banlist", "whitelist", "terms"}
  /\ up \in 1 .. Len(Published) /\ sigUp \in 1 .. up
  /\ stops \in 0 .. MaxStops /\ ownEdits \in 0 .. MaxOwnEdits
  /\ backup \in [1 .. Keep -> Contents(H) \cup {Update!None}]
  /\ DiskGood(H, inode, path, tmpName)
  /\ run \in [Runs -> RunsOf(H)]
  /\ \A r \in Runs : RunGood(H, run[r], inode, tmpName)

-----------------------------------------------------------------------------
LEMMA UpdateCardinality == \A S : Update!Cardinality(S) = Cardinality(S)
BY DEF Update!Cardinality, Cardinality

LEMMA FourInodes ==
  ASSUME NEW H, UpdateBounds(H)
  PROVE  Update!Inodes = 1 .. 4
<1>1. PICK r : Runs = {r} BY DEF UpdateBounds
<1>2. Update!Cardinality(Runs) = 1 BY <1>1, UpdateCardinality, FS_Singleton
<1> QED BY <1>2 DEF Update!Inodes

(* No list is the mark of an unfinished or a missing file. *)
LEMMA ListsWhole ==
  ASSUME NEW H, UpdateBounds(H), NEW c \in Seq(LinesOf(H))
  PROVE  c # Update!Torn /\ c # Update!None
<1> DEFINE no == FALSE
           t == [h |-> "torn", note |-> no]
           n == [h |-> "none", note |-> no]
<1>1. Update!Torn = <<t>> /\ Update!None = <<n>> BY DEF Update!Torn, Update!None
<1>2. t.h = "torn" /\ n.h = "none" OBVIOUS
<1> HIDE DEF t, n
<1>3. \A i \in 1 .. Len(c) : c[i].h \in H
  <2> TAKE i \in 1 .. Len(c)
  <2>1. c[i] \in LinesOf(H) BY ElementOfSeq
  <2> QED BY <2>1, Zenon DEF LinesOf
<1>4. \A x : Len(<<x>>) = 1 /\ <<x>>[1] = x OBVIOUS
<1>5. ASSUME NEW x, c = <<x>> PROVE x.h \in H
  <2>1. Len(c) = 1 /\ c[1] = x BY <1>4, <1>5
  <2> QED BY <1>3, <2>1
<1> QED BY <1>1, <1>2, <1>5, Zenon DEF UpdateBounds

(* There is a file neither name nor handle points at. *)
LEMMA FreeInode ==
  ASSUME NEW H, UpdateBounds(H), UpdateInv(H)
  PROVE  Update!Free \in 1 .. 4 /\ Update!Free # path /\ Update!Free # tmpName
<1>1. PICK r : Runs = {r} BY DEF UpdateBounds
<1> DEFINE S == {path, tmpName} \cup {run[q].handle : q \in Runs}
<1>2. S = {path, tmpName, run[r].handle} BY <1>1
<1>3. \E i \in 1 .. 4 : i \notin S
  <2>1. \E i \in 1 .. 4 : i # path /\ i # tmpName /\ i # run[r].handle
    <3> DEFINE a == path
               b == tmpName
               c == run[r].handle
    <3> HIDE DEF a, b, c
    <3>1. \E i \in 1 .. 4 : i # a /\ i # b /\ i # c
      <4>1. 1 \in 1 .. 4 /\ 2 \in 1 .. 4 /\ 3 \in 1 .. 4 /\ 4 \in 1 .. 4 OBVIOUS
      <4> QED BY <4>1
    <3> QED BY <3>1 DEF a, b, c
  <2> QED BY <1>2, <2>1
<1> HIDE DEF S
<1>4. Update!Free = CHOOSE i \in 1 .. 4 : i \notin S BY FourInodes DEF Update!Free, S
<1>5. Update!Free \in 1 .. 4 /\ Update!Free \notin S BY <1>3, <1>4
<1> QED BY <1>2, <1>5

LEMMA IdleGood ==
  ASSUME NEW H, UpdateBounds(H), NEW ino, NEW tmp
  PROVE  RunGood(H, Update!Idle, ino, tmp) /\ Update!Idle.stage = "idle" /\ Update!Idle.got = <<>>
<1>1. <<>> \in Seq(LinesOf(H)) /\ Len(Published) \in Nat BY EmptySeq, LenProperties DEF UpdateBounds
<1> QED BY <1>1 DEF RunGood, RunsOf, Update!Idle, UpdStages

LEMMA UpdateInitially ==
  ASSUME NEW H, UpdateBounds(H), Update!Init
  PROVE  UpdateInv(H)
<1>1. Len(Published) \in Nat /\ Len(Published) # 0 BY LenProperties, EmptySeq DEF UpdateBounds
<1>2. up \in 1 .. Len(Published) /\ sigUp \in 1 .. up BY <1>1 DEF Update!Init
<1>3. PICK c \in HandMade : inode = [i \in 1 .. 4 |-> c] BY FourInodes DEF Update!Init
<1>4. c \in Seq(LinesOf(H)) /\ c # Update!Torn BY ListsWhole DEF UpdateBounds
<1>5. DiskGood(H, inode, path, tmpName)
  <2>1. path \in {0, 1} /\ tmpName = 0 BY DEF Update!Init
  <2> QED BY <1>3, <1>4, <2>1 DEF DiskGood, Contents
<1>6. \A r \in Runs : run[r] = Update!Idle BY DEF Update!Init
<1>7. run = [r \in Runs |-> Update!Idle] BY DEF Update!Init
<1>8. RunGood(H, Update!Idle, inode, tmpName) BY IdleGood
<1>9. Update!Idle \in RunsOf(H) BY <1>8 DEF RunGood
<1>10. backup \in [1 .. Keep -> Contents(H) \cup {Update!None}] BY DEF Update!Init
<1>11. stops \in 0 .. MaxStops /\ ownEdits \in 0 .. MaxOwnEdits BY DEF Update!Init, UpdateBounds
<1>12. target \in {"banlist", "whitelist", "terms"} BY DEF Update!Init
<1>13. run \in [Runs -> RunsOf(H)] BY <1>7, <1>9
<1> QED BY <1>2, <1>5, <1>6, <1>8, <1>10, <1>11, <1>12, <1>13 DEF UpdateInv

(* The one update moves on, whatever else stays. *)
LEMMA RunMoves ==
  ASSUME NEW H, UpdateBounds(H), UpdateInv(H), NEW r \in Runs, NEW x,
         Update!Goes(r, x), UNCHANGED Update!others,
         DiskGood(H, inode, path, tmpName)', backup' \in [1 .. Keep -> Contents(H) \cup {Update!None}],
         RunGood(H, x, inode', tmpName')
  PROVE  UpdateInv(H)'
<1>1. run' = [run EXCEPT ![r] = x] BY DEF Update!Goes
<1>2. x \in RunsOf(H) BY DEF RunGood
<1>3. \A q \in Runs : q = r BY DEF UpdateBounds
<1>4. run \in [Runs -> RunsOf(H)] BY DEF UpdateInv
<1>5. run' \in [Runs -> RunsOf(H)] /\ run'[r] = x BY <1>1, <1>2, <1>4
<1>6. \A q \in Runs : RunGood(H, run'[q], inode', tmpName') BY <1>3, <1>5
<1> QED BY <1>5, <1>6 DEF UpdateInv, Update!others

LEMMA UpdateFetches ==
  ASSUME NEW H, UpdateBounds(H), UpdateInv(H), NEW r \in Runs, NEW mode \in {"replace", "merge"},
         Update!Fetch(r, mode)
  PROVE  UpdateInv(H)'
<1>1. PICK n \in 1 .. Len(Published[up]) :
        Update!Goes(r, [Update!Idle EXCEPT !.stage = "sig", !.mode = mode,
                          !.got = SubSeq(Published[up], 1, n),
                          !.version = IF n = Len(Published[up]) THEN up ELSE 0])
  BY DEF Update!Fetch
<1>2. up \in 1 .. Len(Published) /\ Len(Published) \in Nat BY LenProperties DEF UpdateInv, UpdateBounds
<1>3. Published[up] \in Seq(LinesOf(H)) BY <1>2, ElementOfSeq DEF UpdateBounds
<1> DEFINE g == SubSeq(Published[up], 1, n)
           v == IF n = Len(Published[up]) THEN up ELSE 0
<1>4. g \in Seq(LinesOf(H)) /\ (n = Len(Published[up]) => g = Published[up])
  <2>1. \A c \in Seq(LinesOf(H)) : \A k \in 1 .. Len(c) :
          SubSeq(c, 1, k) \in Seq(LinesOf(H)) /\ (k = Len(c) => SubSeq(c, 1, k) = c)
    <3> TAKE c \in Seq(LinesOf(H))
    <3> TAKE k \in 1 .. Len(c)
    <3>1. Len(c) \in Nat BY LenProperties
    <3>2. SubSeq(c, 1, k) \in Seq(LinesOf(H)) /\ Len(SubSeq(c, 1, k)) = k
          /\ \A i \in 1 .. k : SubSeq(c, 1, k)[i] = c[i]
      BY <3>1, SubSeqProperties
    <3>3. k = Len(c) => SubSeq(c, 1, k) = c BY <3>2, SeqEqual
    <3> QED BY <3>2, <3>3
  <2> QED BY <1>3, <2>1
<1>5. v \in 0 .. Len(Published) /\ v \in Nat /\ (v # 0 => g = Published[v]) BY <1>2, <1>4
<1> HIDE DEF g, v
<1> DEFINE x == [Update!Idle EXCEPT !.stage = "sig", !.mode = mode, !.got = g, !.version = v]
<1>6. Update!Goes(r, x) BY <1>1 DEF g, v
<1>7. /\ Update!Idle \in RunsOf(H)
  BY IdleGood DEF RunGood
<1>8. x \in RunsOf(H) /\ x.stage = "sig" /\ x.got = g /\ x.version = v
  BY <1>4, <1>5, <1>7 DEF RunsOf, UpdStages
<1> HIDE DEF x
<1>9. RunGood(H, x, inode', tmpName') BY <1>5, <1>8 DEF RunGood
<1>10. UNCHANGED Update!others /\ UNCHANGED Update!fs BY DEF Update!Fetch
<1>11. DiskGood(H, inode, path, tmpName)' /\ backup' \in [1 .. Keep -> Contents(H) \cup {Update!None}]
  BY <1>10 DEF UpdateInv, Update!fs
<1> QED BY <1>6, <1>9, <1>10, <1>11, RunMoves

LEMMA UpdateFails ==
  ASSUME NEW H, UpdateBounds(H), UpdateInv(H), NEW r \in Runs, Update!Fails(r),
         UNCHANGED Update!others, DiskGood(H, inode, path, tmpName)', backup' = backup
  PROVE  UpdateInv(H)'
<1>1. Update!Goes(r, Update!Idle) BY DEF Update!Fails
<1>2. RunGood(H, Update!Idle, inode', tmpName') BY IdleGood
<1>3. backup' \in [1 .. Keep -> Contents(H) \cup {Update!None}] BY DEF UpdateInv
<1> QED BY <1>1, <1>2, <1>3, RunMoves

LEMMA UpdateChecks ==
  ASSUME NEW H, UpdateBounds(H), UpdateInv(H), NEW r \in Runs, Update!Check(r)
  PROVE  UpdateInv(H)'
<1>1. UNCHANGED Update!others /\ UNCHANGED Update!fs /\ run[r].stage = "sig" BY DEF Update!Check
<1>2. DiskGood(H, inode, path, tmpName)' /\ backup' \in [1 .. Keep -> Contents(H) \cup {Update!None}]
      /\ backup' = backup
  BY <1>1 DEF UpdateInv, Update!fs
<1>3. CASE Update!Fails(r) BY <1>1, <1>2, <1>3, UpdateFails
<1>4. CASE Update!Signed(r) /\ Update!Goes(r, [run[r] EXCEPT !.stage = "compare"])
  <2> DEFINE y == run[r]
             x == [y EXCEPT !.stage = "compare"]
  <2>1. RunGood(H, y, inode, tmpName) BY DEF UpdateInv
  <2>2. y.version = sigUp /\ sigUp \in 1 .. up /\ up \in 1 .. Len(Published)
    BY <1>4 DEF Update!Signed, UpdateInv
  <2>3. y \in RunsOf(H) BY <2>1 DEF RunGood
  <2>4. Update!Goes(r, x) BY <1>4
  <2> HIDE DEF y
  <2>5. x \in RunsOf(H) /\ x.stage = "compare" /\ x.got = y.got /\ x.version = y.version
    BY <2>3 DEF RunsOf, UpdStages
  <2> HIDE DEF x
  <2>6. Len(Published) \in Nat BY LenProperties DEF UpdateBounds
  <2>7. y.version \in 1 .. Len(Published) /\ y.version # 0 BY <2>2, <2>6
  <2>8. RunGood(H, x, inode', tmpName') BY <2>1, <2>5, <2>7 DEF RunGood
  <2> QED BY <1>1, <1>2, <2>4, <2>8, RunMoves
<1> QED BY <1>3, <1>4 DEF Update!Check

LEMMA UpdateCompares ==
  ASSUME NEW H, UpdateBounds(H), UpdateInv(H), NEW r \in Runs, Update!Compare(r)
  PROVE  UpdateInv(H)'
<1> DEFINE y == run[r]
           old == IF Update!OnDisk = Update!None THEN <<>> ELSE Update!OnDisk
           final == IF y.mode = "merge" THEN Update!Merge(old, y.got) ELSE y.got
           x == [y EXCEPT !.stage = "shift", !.final = final]
<1>1. UNCHANGED Update!others /\ UNCHANGED Update!fs /\ y.stage = "compare" BY DEF Update!Compare
<1>2. DiskGood(H, inode, path, tmpName)' /\ backup' \in [1 .. Keep -> Contents(H) \cup {Update!None}]
      /\ backup' = backup
  BY <1>1 DEF UpdateInv, Update!fs
<1>3. Update!Fails(r) \/ (Update!OnDisk # Update!Torn /\ Update!Goes(r, x)) BY DEF Update!Compare
<1>4. CASE Update!Fails(r) BY <1>1, <1>2, <1>4, UpdateFails
<1>5. CASE Update!OnDisk # Update!Torn /\ Update!Goes(r, x)
  <2>1. RunGood(H, y, inode, tmpName) BY DEF UpdateInv
  <2>2. y \in RunsOf(H) BY <2>1 DEF RunGood
  <2>3. y.got \in Seq(LinesOf(H)) BY <2>2 DEF RunsOf
  <2>4. old \in Seq(LinesOf(H))
    <3>1. path # 0 => inode[path] \in Contents(H) BY DEF UpdateInv, DiskGood
    <3>2. <<>> \in Seq(LinesOf(H)) BY EmptySeq
    <3> QED BY <1>5, <3>1, <3>2 DEF Update!OnDisk, Contents
  <2> HIDE DEF old, y
  <2>5. Update!Merge(old, y.got) \in Seq(LinesOf(H)) BY <2>3, <2>4, MergeIs DEF UpdateBounds
  <2>6. final \in Seq(LinesOf(H)) BY <2>3, <2>5
  <2> HIDE DEF final
  <2>7. x \in RunsOf(H) /\ x.stage = "shift" /\ x.got = y.got /\ x.version = y.version
    BY <2>2, <2>6 DEF RunsOf, UpdStages
  <2> HIDE DEF x
  <2>8. RunGood(H, x, inode', tmpName') BY <1>1, <2>1, <2>7 DEF RunGood
  <2> QED BY <1>1, <1>2, <1>5, <2>8, RunMoves
<1> QED BY <1>3, <1>4, <1>5

(* A stage whose only trace on the update is its name. *)
LEMMA StageGood ==
  ASSUME NEW H, NEW y, NEW ino, NEW tmp, RunGood(H, y, ino, tmp), y.stage \notin {"idle", "sig"},
         NEW s \in {"copy", "create"}, NEW ino2, NEW tmp2
  PROVE  RunGood(H, [y EXCEPT !.stage = s], ino2, tmp2)
<1> DEFINE x == [y EXCEPT !.stage = s]
<1>1. y \in RunsOf(H) BY DEF RunGood
<1>2. x \in RunsOf(H) /\ x.stage = s /\ x.got = y.got /\ x.version = y.version
  BY <1>1 DEF RunsOf, UpdStages
<1> HIDE DEF x
<1>3. RunGood(H, x, ino2, tmp2) BY <1>2 DEF RunGood
<1> QED BY <1>3 DEF x

LEMMA UpdateBacksUp ==
  ASSUME NEW H, UpdateBounds(H), UpdateInv(H), NEW r \in Runs, Update!Shift(r) \/ Update!CopyBackup(r)
  PROVE  UpdateInv(H)'
<1>1. UNCHANGED Update!others /\ UNCHANGED <<inode, path, tmpName>> BY DEF Update!Shift, Update!CopyBackup
<1>2. DiskGood(H, inode, path, tmpName)' BY <1>1 DEF UpdateInv
<1>3. backup \in [1 .. Keep -> Contents(H) \cup {Update!None}] BY DEF UpdateInv
<1>4. RunGood(H, run[r], inode, tmpName) BY DEF UpdateInv
<1>5. Keep \in Nat BY DEF UpdateBounds
<1>6. CASE Update!Shift(r)
  <2> DEFINE s == IF Keep = 0 \/ path = 0 THEN "create" ELSE "copy"
  <2>1. run[r].stage = "shift" /\ Update!Goes(r, [run[r] EXCEPT !.stage = s]) BY <1>6 DEF Update!Shift
  <2>2. RunGood(H, [run[r] EXCEPT !.stage = s], inode', tmpName')
    <3>1. s \in {"copy", "create"} OBVIOUS
    <3> HIDE DEF s
    <3> QED BY <1>4, <2>1, <3>1, StageGood
  <2>3. backup' \in [1 .. Keep -> Contents(H) \cup {Update!None}]
    <3>1. ASSUME NEW n \in 1 .. Keep
          PROVE  (IF n = 1 THEN Update!None ELSE backup[n - 1]) \in Contents(H) \cup {Update!None}
      <4>1. n # 1 => n - 1 \in 1 .. Keep BY <1>5
      <4> QED BY <1>3, <4>1
    <3>2. backup' = backup \/ backup' = [n \in 1 .. Keep |-> IF n = 1 THEN Update!None ELSE backup[n - 1]]
      BY <1>6 DEF Update!Shift
    <3> QED BY <1>3, <3>1, <3>2
  <2> QED BY <1>1, <1>2, <2>1, <2>2, <2>3, RunMoves
<1>7. CASE Update!CopyBackup(r)
  <2>1. run[r].stage = "copy" /\ Update!Goes(r, [run[r] EXCEPT !.stage = "create"])
        /\ backup' = [backup EXCEPT ![1] = Update!OnDisk]
    BY <1>7 DEF Update!CopyBackup
  <2>2. RunGood(H, [run[r] EXCEPT !.stage = "create"], inode', tmpName') BY <1>4, <2>1, StageGood
  <2>3. Update!OnDisk \in Contents(H) \cup {Update!None} BY DEF Update!OnDisk, UpdateInv, DiskGood
  <2>4. backup' \in [1 .. Keep -> Contents(H) \cup {Update!None}] BY <1>3, <2>1, <2>3
  <2> QED BY <1>1, <1>2, <2>1, <2>2, <2>4, RunMoves
<1> QED BY <1>6, <1>7

LEMMA UpdateCreates ==
  ASSUME NEW H, UpdateBounds(H), UpdateInv(H), NEW r \in Runs, Update!CreateTmp(r)
  PROVE  UpdateInv(H)'
<1> DEFINE y == run[r]
<1>1. PICK i : i = (IF tmpName # 0 THEN tmpName ELSE Update!Free) OBVIOUS
<1>2. /\ y.stage = "create" /\ inode' = [inode EXCEPT ![i] = Update!Torn] /\ tmpName' = i
      /\ Update!Goes(r, [y EXCEPT !.stage = "write", !.handle = i])
      /\ UNCHANGED Update!others /\ path' = path /\ backup' = backup
  BY <1>1 DEF Update!CreateTmp
<1>3. DiskGood(H, inode, path, tmpName) BY DEF UpdateInv
<1>4. i \in 1 .. 4 /\ (path # 0 => i # path) BY <1>1, <1>3, FreeInode DEF DiskGood
<1>5. DiskGood(H, inode, path, tmpName)'
  <2>1. inode' \in [1 .. 4 -> Contents(H)] BY <1>2, <1>3, <1>4 DEF DiskGood, Contents
  <2>2. path # 0 => inode'[path] = inode[path] BY <1>2, <1>3, <1>4 DEF DiskGood
  <2> QED BY <1>2, <1>3, <1>4, <2>1, <2>2 DEF DiskGood
<1>6. RunGood(H, y, inode, tmpName) BY DEF UpdateInv
<1>7. y \in RunsOf(H) BY <1>6 DEF RunGood
<1>8. Update!Goes(r, [y EXCEPT !.stage = "write", !.handle = i]) BY <1>2
<1> HIDE DEF y
<1> DEFINE x == [y EXCEPT !.stage = "write", !.handle = i]
<1>9. x \in RunsOf(H) /\ x.stage = "write" /\ x.got = y.got /\ x.version = y.version /\ x.handle = i
  <2>1. i \in Nat BY <1>4
  <2> QED BY <1>7, <2>1 DEF RunsOf, UpdStages
<1> HIDE DEF x
<1>10. RunGood(H, x, inode', tmpName') BY <1>2, <1>4, <1>6, <1>9 DEF RunGood
<1>11. Update!Goes(r, x) BY <1>8 DEF x
<1>12. backup' \in [1 .. Keep -> Contents(H) \cup {Update!None}] BY <1>2 DEF UpdateInv
<1> QED BY <1>2, <1>5, <1>10, <1>11, <1>12, RunMoves

LEMMA UpdateWrites ==
  ASSUME NEW H, UpdateBounds(H), UpdateInv(H), NEW r \in Runs, Update!WriteTmp(r)
  PROVE  UpdateInv(H)'
<1> DEFINE y == run[r]
<1>1. /\ y.stage = "write" /\ inode' = [inode EXCEPT ![y.handle] = y.final]
      /\ Update!Goes(r, [y EXCEPT !.stage = "rename"])
      /\ UNCHANGED Update!others /\ path' = path /\ tmpName' = tmpName /\ backup' = backup
  BY DEF Update!WriteTmp
<1>2. DiskGood(H, inode, path, tmpName) BY DEF UpdateInv
<1>3. RunGood(H, y, inode, tmpName) BY DEF UpdateInv
<1>4. y \in RunsOf(H) /\ y.handle = tmpName /\ tmpName # 0 BY <1>1, <1>3 DEF RunGood
<1> HIDE DEF y
<1>5. y.final \in Seq(LinesOf(H)) BY <1>4 DEF RunsOf
<1>6. y.final # Update!Torn BY <1>5, ListsWhole
<1>7. tmpName \in 1 .. 4 BY <1>2, <1>4 DEF DiskGood
<1>8. inode' \in [1 .. 4 -> Contents(H)] /\ inode'[tmpName] = y.final
  BY <1>1, <1>2, <1>4, <1>5, <1>7 DEF DiskGood, Contents
<1>9. path # 0 => inode'[path] = inode[path] BY <1>1, <1>2, <1>4 DEF DiskGood
<1>10. DiskGood(H, inode, path, tmpName)' BY <1>1, <1>2, <1>8, <1>9 DEF DiskGood
<1> DEFINE x == [y EXCEPT !.stage = "rename"]
<1>11. x \in RunsOf(H) /\ x.stage = "rename" /\ x.got = y.got /\ x.version = y.version /\ x.handle = y.handle
  BY <1>4 DEF RunsOf, UpdStages
<1>12. Update!Goes(r, x) BY <1>1
<1> HIDE DEF x
<1>13. RunGood(H, x, inode', tmpName') BY <1>1, <1>3, <1>4, <1>6, <1>8, <1>11 DEF RunGood
<1>14. backup' \in [1 .. Keep -> Contents(H) \cup {Update!None}] BY <1>1 DEF UpdateInv
<1> QED BY <1>1, <1>10, <1>12, <1>13, <1>14, RunMoves

LEMMA UpdateRenames ==
  ASSUME NEW H, UpdateBounds(H), UpdateInv(H), NEW r \in Runs, Update!Rename(r)
  PROVE  UpdateInv(H)'
<1>1. /\ run[r].stage = "rename" /\ Update!Fails(r) /\ tmpName' = 0 /\ UNCHANGED Update!others
      /\ inode' = inode /\ backup' = backup
      /\ path' = IF tmpName = 0 THEN path ELSE tmpName
  BY DEF Update!Rename
<1>2. DiskGood(H, inode, path, tmpName) BY DEF UpdateInv
<1>3. RunGood(H, run[r], inode, tmpName) BY DEF UpdateInv
<1>4. tmpName # 0 /\ inode[tmpName] # Update!Torn BY <1>1, <1>3 DEF RunGood
<1>5. DiskGood(H, inode, path, tmpName)' BY <1>1, <1>2, <1>4 DEF DiskGood
<1> QED BY <1>1, <1>5, UpdateFails

(* Those outside: the publisher, the operator's editor, a crash. *)
LEMMA UpdateOthers ==
  ASSUME NEW H, UpdateBounds(H), UpdateInv(H),
         Update!Publish \/ (\E c \in HandMade : Update!Edit(c)) \/ Update!Crash
  PROVE  UpdateInv(H)'
<1>1. CASE Update!Publish
  <2>1. up' \in 1 .. Len(Published) /\ sigUp' \in 1 .. up'
    <3>1. Len(Published) \in Nat BY LenProperties DEF UpdateBounds
    <3> QED BY <1>1, <3>1 DEF Update!Publish, UpdateInv
  <2>2. UNCHANGED <<target, inode, path, tmpName, backup, run, stops, ownEdits>>
    BY <1>1 DEF Update!Publish, Update!fs
  <2> QED BY <2>1, <2>2 DEF UpdateInv, DiskGood
<1>2. ASSUME NEW c \in HandMade, Update!Edit(c) PROVE UpdateInv(H)'
  <2>1. PICK i : i = Update!Free OBVIOUS
  <2>2. i \in 1 .. 4 /\ i # path /\ i # tmpName BY <2>1, FreeInode
  <2>3. inode' = [inode EXCEPT ![i] = c] /\ path' = i BY <1>2, <2>1 DEF Update!Edit
  <2>4. UNCHANGED <<target, up, sigUp, stops, tmpName, backup, run>> BY <1>2 DEF Update!Edit
  <2>5. ownEdits' \in 0 .. MaxOwnEdits BY <1>2 DEF Update!Edit, UpdateInv, UpdateBounds
  <2>6. c \in Seq(LinesOf(H)) /\ c # Update!Torn BY ListsWhole DEF UpdateBounds
  <2>7. DiskGood(H, inode, path, tmpName) BY DEF UpdateInv
  <2>8. inode' \in [1 .. 4 -> Contents(H)] /\ inode'[i] = c /\ \A j \in 1 .. 4 : j # i => inode'[j] = inode[j]
    BY <2>2, <2>3, <2>6, <2>7 DEF DiskGood, Contents
  <2>9. DiskGood(H, inode, path, tmpName)' BY <2>2, <2>3, <2>4, <2>6, <2>7, <2>8 DEF DiskGood
  <2>10. tmpName # 0 => inode'[tmpName] = inode[tmpName] BY <2>2, <2>7, <2>8 DEF DiskGood
  <2>11. ASSUME NEW r \in Runs PROVE RunGood(H, run'[r], inode', tmpName')
    <3>1. RunGood(H, run[r], inode, tmpName) BY DEF UpdateInv
    <3> QED BY <2>4, <2>10, <3>1 DEF RunGood
  <2> QED BY <2>4, <2>5, <2>9, <2>11 DEF UpdateInv
<1>3. CASE Update!Crash
  <2>1. run' = [r \in Runs |-> Update!Idle] BY <1>3 DEF Update!Crash
  <2>2. UNCHANGED <<target, up, sigUp, inode, path, tmpName, backup, ownEdits>>
    BY <1>3 DEF Update!Crash, Update!fs
  <2>3. stops' \in 0 .. MaxStops BY <1>3 DEF Update!Crash, UpdateInv, UpdateBounds
  <2>4. RunGood(H, Update!Idle, inode', tmpName') BY IdleGood
  <2>5. Update!Idle \in RunsOf(H) BY <2>4 DEF RunGood
  <2>6. run' \in [Runs -> RunsOf(H)] /\ \A r \in Runs : run'[r] = Update!Idle BY <2>1, <2>5
  <2> QED BY <2>2, <2>3, <2>4, <2>6 DEF UpdateInv, DiskGood
<1> QED BY <1>1, <1>2, <1>3

LEMMA UpdateStep ==
  ASSUME NEW H, UpdateBounds(H), UpdateInv(H), [Update!Next]_(Update!vars)
  PROVE  UpdateInv(H)'
<1>1. CASE UNCHANGED Update!vars BY <1>1 DEF Update!vars, UpdateInv, DiskGood
<1>2. ASSUME NEW r \in Runs, Update!WriteFails(r) PROVE UpdateInv(H)'
  <2>1. Update!Fails(r) /\ UNCHANGED Update!others /\ UNCHANGED Update!fs BY <1>2 DEF Update!WriteFails
  <2>2. DiskGood(H, inode, path, tmpName)' /\ backup' = backup BY <2>1 DEF UpdateInv, Update!fs
  <2> QED BY <2>1, <2>2, UpdateFails
<1>3. ASSUME NEW r \in Runs,
             \/ \E mode \in {"replace", "merge"} : Update!Fetch(r, mode)
             \/ Update!Check(r) \/ Update!Compare(r) \/ Update!Shift(r) \/ Update!CopyBackup(r)
             \/ Update!CreateTmp(r) \/ Update!WriteTmp(r) \/ Update!Rename(r)
      PROVE  UpdateInv(H)'
  BY <1>3, UpdateFetches, UpdateChecks, UpdateCompares, UpdateBacksUp, UpdateCreates, UpdateWrites,
     UpdateRenames
<1>4. CASE Update!Next BY <1>2, <1>3, <1>4, UpdateOthers DEF Update!Next
<1> QED BY <1>1, <1>4

LEMMA UpdateImplies ==
  ASSUME NEW H, UpdateBounds(H), UpdateInv(H)
  PROVE  UpdatesSound
<1>1. Update!TypeOK
  <2>1. \A r \in Runs : run[r].stage \in UpdStages BY DEF UpdateInv, RunsOf
  <2>2. Len(backup) = Keep BY IsSequence DEF UpdateInv, UpdateBounds
  <2>3. path \in 1 .. 4 \cup {0} /\ tmpName \in 1 .. 4 \cup {0} BY DEF UpdateInv, DiskGood
  <2> QED BY <2>1, <2>2, <2>3, FourInodes DEF Update!TypeOK, UpdateInv, UpdStages
<1>2. Update!FileWhole
  <2>1. Update!None # Update!Torn
    <3> DEFINE no == FALSE
               t == [h |-> "torn", note |-> no]
               n == [h |-> "none", note |-> no]
    <3>1. Update!Torn = <<t>> /\ Update!None = <<n>> BY DEF Update!Torn, Update!None
    <3>2. t.h = "torn" /\ n.h = "none" OBVIOUS
    <3> HIDE DEF t, n
    <3>3. t # n BY <3>2
    <3>4. <<t>>[1] = t /\ <<n>>[1] = n OBVIOUS
    <3> QED BY <3>1, <3>3, <3>4
  <2> QED BY <2>1 DEF Update!FileWhole, Update!OnDisk, UpdateInv, DiskGood
<1>3. Update!OnlyVouched BY DEF Update!OnlyVouched, UpdateInv, RunGood
<1>4. Update!MergeKeeps
  <2> SUFFICES ASSUME NEW r \in Runs, Update!OnDisk # Update!Torn,
                      ~Update!MergePanics(IF Update!OnDisk = Update!None THEN <<>> ELSE Update!OnDisk, run[r].got)
               PROVE  MergeGood(IF Update!OnDisk = Update!None THEN <<>> ELSE Update!OnDisk, run[r].got)
    BY Zenon DEF Update!MergeKeeps, MergeGood
  <2>1. PICK old : old = (IF Update!OnDisk = Update!None THEN <<>> ELSE Update!OnDisk) OBVIOUS
  <2>2. PICK new : new = run[r].got OBVIOUS
  <2>3. old \in Seq(LinesOf(H))
    <3>1. path # 0 => inode[path] \in Contents(H) BY DEF UpdateInv, DiskGood
    <3>2. <<>> \in Seq(LinesOf(H)) BY EmptySeq
    <3> QED BY <2>1, <3>1, <3>2 DEF Update!OnDisk, Contents
  <2>4. new \in Seq(LinesOf(H)) BY <2>2 DEF UpdateInv, RunsOf
  <2>5. "#" \in H BY DEF UpdateBounds
  <2>6. ~Update!MergePanics(old, new) BY <2>1, <2>2
  <2>7. MergeGood(old, new) BY <2>3, <2>4, <2>5, <2>6, MergeFacts
  <2> QED BY <2>1, <2>2, <2>7, Zenon
<1> QED BY <1>1, <1>2, <1>3, <1>4 DEF UpdatesSound, Update!UpdatesSound

(* Updates: for any lists, published and the operator's own, any number of  *)
(* crashes, edits and backups, one update at a time: the file is whole,     *)
(* what is installed was in a list signed as a whole, and a merge loses no  *)
(* line and no note, adds every hash once and is idempotent.                *)
THEOREM UpdatesAlwaysSound ==
  ASSUME NEW H, UpdateBounds(H)
  PROVE  Update!Spec => []UpdatesSound
<1>1. Update!Init => UpdateInv(H) BY UpdateInitially
<1>2. UpdateInv(H) /\ [Update!Next]_(Update!vars) => UpdateInv(H)' BY UpdateStep
<1>3. UpdateInv(H) => UpdatesSound BY UpdateImplies
<1> QED BY <1>1, <1>2, <1>3, PTL DEF Update!Spec
=============================================================================
