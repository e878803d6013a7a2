------------------------------ MODULE Sessions ------------------------------
(***************************************************************************)
(* Login, replacement and end of TCP sessions: server/connection.rs, with  *)
(* the client map, the id index and the client slots they keep.            *)
(*                                                                         *)
(* A connection is one task.  With log.worker_threads = 1 (the default,    *)
(* Parallel = FALSE) the runtime has one thread: a task runs from one      *)
(* await to the next with no other task in between; only OFFERFILES jobs   *)
(* on the blocking pool run beside it.  With more workers every access to  *)
(* a shared map interleaves.  Both are the same actions, one per access;   *)
(* Runs below is the whole difference.                                     *)
(*                                                                         *)
(* A HighID is the client's address.  A LowID is fresh (the counter wraps  *)
(* after 2^24 logins), so the connection stands for it.  A connection that *)
(* has closed is used for a new one once nothing refers to it.             *)
(***************************************************************************)
EXTENDS Naturals, Integers, FiniteSets

CONSTANTS
  Conns,            \* connections
  Users,            \* user hashes
  Addrs, V6Addrs,   \* source keys of peers; those of IPv6 peers
  DualStack,        \* <<v4, v6>>: one host that advertised v6 at its v4 login
  SharedUsers,      \* is_shared_hash
  TakeoverFromAny,  \* limits.hash_takeover_from_any_address
  MaxClients,       \* limits.max_clients, 0 = no cap
  Parallel,         \* log.worker_threads > 1
  NoConn, NoUser, NoAddr, NoId

Ids == Addrs \cup Conns

ASSUME SessionsAssumption ==
  /\ NoConn \notin Conns /\ NoUser \notin Users
  /\ NoAddr \notin Addrs /\ NoId \notin Ids
  /\ Conns \cap Addrs = {}
  /\ IsFiniteSet(Conns)
  /\ V6Addrs \subseteq Addrs /\ SharedUsers \subseteq Users
  /\ DualStack \subseteq (Addrs \ V6Addrs) \X V6Addrs
  /\ MaxClients \in Nat
  /\ Parallel \in BOOLEAN /\ TakeoverFromAny \in BOOLEAN

VARIABLES
  pc,                    \* where each connection's task is
  user, addr, id,        \* its login: user hash, peer, assigned id
  prev,                  \* the session it probes, or has replaced
  clients,               \* user -> the session in the client map
  index,                 \* client_id_index: id -> user
  tables,                \* user -> the login that wrote its IPv6 and NAT-T
                         \* side-table entries
  slots,                 \* connections holding a ClientSlot
  lowid,                 \* lowid_count_cached
  sources,               \* user -> sessions whose files name it as a source
  probing,               \* takeover_probes: no probe, running or cooling down
  lost,                  \* takeover_lost: contenders refused lately
  shadowed               \* history: sessions whose id another user took

login == <<user, addr, id, prev>>
registry == <<clients, index, tables, lowid, shadowed>>
contest == <<probing, lost>>
vars == <<pc, login, registry, slots, sources, contest>>

AwaitPcs ==
  {"closed", "probe", "assign", "refused", "list", "ready", "paced", "job",
   "jobDone"}
LoginPcs ==
  {"probe", "reserve", "force", "try", "assign", "recheck", "refused", "index",
   "tables", "insert", "account", "list"}
EndPcs ==
  {"endSlot", "endEntry", "endTables", "endIndex", "endSources", "endOther",
   "endStale", "endTask"}
Pcs == AwaitPcs \cup LoginPcs \cup EndPcs \cup {"offer"}

TypeOK ==
  /\ pc \in [Conns -> Pcs]
  /\ user \in [Conns -> Users \cup {NoUser}]
  /\ addr \in [Conns -> Addrs \cup {NoAddr}]
  /\ id \in [Conns -> Ids \cup {NoId}]
  /\ prev \in [Conns -> Conns \cup {NoConn}]
  /\ clients \in [Users -> Conns \cup {NoConn}]
  /\ index \in [Ids -> Users \cup {NoUser}]
  /\ tables \in [Users -> Conns \cup {NoConn}]
  /\ slots \subseteq Conns
  /\ lowid \in Nat
  /\ sources \in [Users -> SUBSET Conns]
  /\ probing \in [Users -> {"none", "running", "cooling"}]
  /\ lost \subseteq Users \X Addrs
  /\ shadowed \subseteq Conns

Init ==
  /\ pc = [c \in Conns |-> "closed"]
  /\ user = [c \in Conns |-> NoUser]
  /\ addr = [c \in Conns |-> NoAddr]
  /\ id = [c \in Conns |-> NoId]
  /\ prev = [c \in Conns |-> NoConn]
  /\ clients = [u \in Users |-> NoConn]
  /\ index = [i \in Ids |-> NoUser]
  /\ tables = [u \in Users |-> NoConn]
  /\ slots = {}
  /\ lowid = 0
  /\ sources = [u \in Users |-> {}]
  /\ probing = [u \in Users |-> "none"]
  /\ lost = {}
  /\ shadowed = {}

-----------------------------------------------------------------------------
(* Scheduling. *)
Runs(c) == Parallel \/ \A d \in Conns \ {c} : pc[d] \in AwaitPcs

Goto(c, from, to) ==
  /\ pc[c] = from
  /\ Runs(c)
  /\ pc' = [pc EXCEPT ![c] = to]

(* The task returns: its receiver is dropped, so the session is not alive. *)
Close(c, from) ==
  /\ Goto(c, from, "closed")
  /\ user' = [user EXCEPT ![c] = NoUser]
  /\ addr' = [addr EXCEPT ![c] = NoAddr]
  /\ id' = [id EXCEPT ![c] = NoId]
  /\ prev' = [prev EXCEPT ![c] = NoConn]
  /\ shadowed' = shadowed \ {c}

IsAlive(c) == pc[c] # "closed"

(* same_session with the entry of the client map. *)
Current(c) == clients[user[c]] = c

LowId(c) == id[c] = c

(* A new socket: nothing left of its predecessor refers to it. *)
Unused(c) ==
  /\ index[c] = NoUser
  /\ \A u \in Users : c \notin sources[u] /\ tables[u] # c
  /\ \A d \in Conns : prev[d] # c

(* may_replace_session: may a login of user u from a replace session p? *)
MayReplace(p, u, a) ==
  \/ ~IsAlive(p)
  \/ TakeoverFromAny
  \/ u \in SharedUsers
  \/ addr[p] = a
  \/ <<addr[p], a>> \in DualStack

Contested(u, a) == clients[u] # NoConn /\ ~MayReplace(clients[u], u, a)

-----------------------------------------------------------------------------
(* LOGINREQUEST, up to the reservation.  A banned publisher, a malformed   *)
(* request and a contender in `lost` are refused with nothing changed.     *)

Begin(c, u, a) ==
  /\ Unused(c)
  /\ user' = [user EXCEPT ![c] = u]
  /\ addr' = [addr EXCEPT ![c] = a]

LoginUncontested(c, u, a) ==
  /\ ~Contested(u, a)
  /\ Goto(c, "closed", "reserve")
  /\ Begin(c, u, a)
  /\ UNCHANGED <<id, prev, registry, slots, sources, contest>>

(* old_session_gone: start a probe of the owner, or wait for a running one.*)
LoginProbes(c, u, a) ==
  /\ Contested(u, a)
  /\ <<u, a>> \notin lost
  /\ probing[u] # "cooling"
  /\ Goto(c, "closed", "probe")
  /\ Begin(c, u, a)
  /\ prev' = [prev EXCEPT ![c] = clients[u]]
  /\ probing' = [probing EXCEPT ![u] = "running"]
  /\ UNCHANGED <<id, registry, slots, sources, lost>>

(* A probe has just found the owner alive: refused without another. *)
LoginRefused(c, u, a) ==
  /\ Contested(u, a)
  /\ pc[c] = "closed" /\ Runs(c)
  /\ probing[u] = "cooling"
  /\ lost' = lost \cup {<<u, a>>}
  /\ UNCHANGED <<pc, login, registry, slots, sources, probing>>

(* The owner's task has ended within the wait. *)
ProbeGone(c) ==
  /\ Goto(c, "probe", "reserve")
  /\ ~IsAlive(prev[c])
  /\ prev' = [prev EXCEPT ![c] = NoConn]
  /\ probing' = [probing EXCEPT ![user[c]] =
                   IF @ = "running" THEN "none" ELSE @]
  /\ UNCHANGED <<user, addr, id, registry, slots, sources, lost>>

(* Mutant: the wait has no deadline. *)
ProbeWaitsForEver(c) ==
  /\ pc[c] = "probe"
  /\ ~IsAlive(prev[c])
  /\ Close(c, "probe")
  /\ UNCHANGED <<clients, index, tables, lowid, slots, sources, contest>>

(* The wait is over and the owner still there: "already connected". *)
ProbeAlive(c) ==
  /\ pc[c] = "probe"
  /\ IsAlive(prev[c])
  /\ probing[user[c]] # "running"
  /\ Close(c, "probe")
  /\ lost' = lost \cup {<<user[c], addr[c]>>}
  /\ UNCHANGED <<clients, index, tables, lowid, slots, sources, probing>>

(* Timers: the probe's wait, its cooldown, and the memory of contenders. *)
ProbeEnds(u) ==
  /\ probing[u] = "running"
  /\ probing' = [probing EXCEPT ![u] = "cooling"]
  /\ UNCHANGED <<pc, login, registry, slots, sources, lost>>

CooldownEnds(u) ==
  /\ probing[u] = "cooling"
  /\ probing' = [probing EXCEPT ![u] = "none"]
  /\ UNCHANGED <<pc, login, registry, slots, sources, lost>>

ForgetContender(u, a) ==
  /\ <<u, a>> \in lost
  /\ lost' = lost \ {<<u, a>>}
  /\ UNCHANGED <<pc, login, registry, slots, sources, probing>>

-----------------------------------------------------------------------------
(* reserve_client_slot: a user in the client map is replacing its own      *)
(* session and reserves whatever the cap; another needs a free slot.       *)

ReserveSlot(c) ==
  /\ pc[c] = "reserve"
  /\ Goto(c, "reserve", IF clients[user[c]] # NoConn THEN "force" ELSE "try")
  /\ UNCHANGED <<login, registry, slots, sources, contest>>

ForceReserve(c) ==
  /\ Goto(c, "force", "assign")
  /\ slots' = slots \cup {c}
  /\ UNCHANGED <<login, registry, sources, contest>>

(* Mutant: one client too many. *)
HasRoomOffByOne == MaxClients = 0 \/ Cardinality(slots) <= MaxClients

HasRoom == MaxClients = 0 \/ Cardinality(slots) < MaxClients

TryReserve(c) ==
  /\ HasRoom
  /\ Goto(c, "try", "assign")
  /\ slots' = slots \cup {c}
  /\ UNCHANGED <<login, registry, sources, contest>>

ServerFull(c) ==
  /\ ~HasRoom
  /\ Close(c, "try")
  /\ UNCHANGED <<clients, index, tables, lowid, slots, sources, contest>>

(* handle_login: the HighID probe is awaited. *)
AssignId(c) ==
  /\ Goto(c, "assign", "recheck")
  /\ \E i \in {c} \cup ({addr[c]} \ V6Addrs) : id' = [id EXCEPT ![c] = i]
  /\ UNCHANGED <<user, addr, prev, registry, slots, sources, contest>>

(* Mutant: the login does not look again after the HighID probe. *)
NoRecheck(c) ==
  /\ Goto(c, "recheck", "index")
  /\ UNCHANGED <<login, registry, slots, sources, contest>>

(* Another login with this hash may have come in during the probe. *)
Recheck(c) ==
  /\ Goto(c, "recheck", "index")
  /\ ~Contested(user[c], addr[c])
  /\ UNCHANGED <<login, registry, slots, sources, contest>>

RecheckRefused(c) ==
  /\ pc[c] = "recheck"
  /\ Contested(user[c], addr[c])
  /\ Goto(c, "recheck", "refused")
  /\ UNCHANGED <<login, registry, slots, sources, contest>>

(* Mutant: the refused login keeps its slot. *)
RefusedKeepsSlot(c) ==
  /\ Close(c, "refused")
  /\ UNCHANGED <<clients, index, tables, lowid, slots, sources, contest>>

(* The refusal has been sent; the slot goes with the login. *)
RefusalSent(c) ==
  /\ Close(c, "refused")
  /\ slots' = slots \ {c}
  /\ UNCHANGED <<clients, index, tables, lowid, sources, contest>>

-----------------------------------------------------------------------------
(* Registration: the id index, the side tables, then the client map. *)

IndexClientId(c) ==
  /\ Goto(c, "index", "tables")
  /\ index' = [index EXCEPT ![id[c]] = user[c]]
  /\ shadowed' = shadowed \cup
       {d \in Conns : id[d] = id[c] /\ user[d] # user[c]}
  /\ UNCHANGED <<login, clients, tables, lowid, slots, sources, contest>>

WriteTables(c) ==
  /\ Goto(c, "tables", "insert")
  /\ tables' = [tables EXCEPT ![user[c]] = c]
  /\ UNCHANGED <<login, clients, index, lowid, shadowed, slots, sources, contest>>

Low(p) == IF p # NoConn /\ LowId(p) THEN 1 ELSE 0

(* Mutant: the replaced LowID session stays counted. *)
InsertCountsTwice(c) ==
  /\ Goto(c, "insert", "account")
  /\ clients' = [clients EXCEPT ![user[c]] = c]
  /\ prev' = [prev EXCEPT ![c] = clients[user[c]]]
  /\ lowid' = lowid + Low(c)
  /\ UNCHANGED <<user, addr, id, index, tables, shadowed, slots, sources, contest>>

InsertClient(c) ==
  LET p == clients[user[c]] IN
  /\ Goto(c, "insert", "account")
  /\ clients' = [clients EXCEPT ![user[c]] = c]
  /\ prev' = [prev EXCEPT ![c] = p]
  /\ lowid' = lowid - Low(p) + Low(c)
  /\ UNCHANGED <<user, addr, id, index, tables, shadowed, slots, sources, contest>>

(* Mutant: the replaced session keeps its slot until its task ends. *)
KeepReplacedSlot(c) ==
  /\ Goto(c, "account", "list")
  /\ prev' = [prev EXCEPT ![c] = NoConn]
  /\ UNCHANGED <<user, addr, id, registry, slots, sources, contest>>

(* The replaced session gives its slot back at once. *)
ReleaseReplaced(c) ==
  /\ Goto(c, "account", "list")
  /\ slots' = slots \ {prev[c]}
  /\ prev' = [prev EXCEPT ![c] = NoConn]
  /\ UNCHANGED <<user, addr, id, registry, sources, contest>>

(* The server list's lock is awaited; then the session serves frames. *)
Welcome(c) ==
  /\ Goto(c, "list", "ready")
  /\ UNCHANGED <<login, registry, slots, sources, contest>>

-----------------------------------------------------------------------------
(* Frames.  A replaced session is fenced: its first frame closes it,       *)
(* unless the hash is a shared one.                                        *)

Admitted(c) == Current(c) \/ user[c] \in SharedUsers

FrameFenced(c) ==
  /\ pc[c] = "ready"
  /\ ~Admitted(c)
  /\ Goto(c, "ready", "endSlot")
  /\ UNCHANGED <<login, registry, slots, sources, contest>>

(* OFFERFILES; a v1 session that is ahead of its pace waits. *)
OfferFrame(c) ==
  /\ pc[c] = "ready"
  /\ Admitted(c)
  /\ Goto(c, "ready", "offer") \/ Goto(c, "ready", "paced")
  /\ UNCHANGED <<login, registry, slots, sources, contest>>

(* A session replaced while it waited drops the batch. *)
PacedResume(c) ==
  /\ pc[c] = "paced"
  /\ Goto(c, "paced", IF Current(c) THEN "offer" ELSE "ready")
  /\ UNCHANGED <<login, registry, slots, sources, contest>>

AddSources(c) == sources' = [sources EXCEPT ![user[c]] = @ \cup {c}]

OfferInline(c) ==
  /\ Goto(c, "offer", "ready")
  /\ AddSources(c)
  /\ UNCHANGED <<login, registry, slots, contest>>

(* A large batch: the blocking pool runs it, beside the runtime thread. *)
OfferSpawn(c) ==
  /\ Goto(c, "offer", "job")
  /\ UNCHANGED <<login, registry, slots, sources, contest>>

OfferJob(c) ==
  /\ pc[c] = "job"
  /\ pc' = [pc EXCEPT ![c] = "jobDone"]
  /\ AddSources(c)
  /\ UNCHANGED <<login, registry, slots, contest>>

OfferDone(c) ==
  /\ Goto(c, "jobDone", "ready")
  /\ UNCHANGED <<login, registry, slots, sources, contest>>

(* The socket closes or fails, the IP filter or a ban kicks, a limit is    *)
(* exceeded, the six-hour backstop passes.                                 *)
Disconnect(c) ==
  /\ Goto(c, "ready", "endSlot") \/ Goto(c, "paced", "endSlot")
  /\ UNCHANGED <<login, registry, slots, sources, contest>>

(* Mutant: silence closes only the current session. *)
CurrentIdle(c) ==
  /\ pc[c] = "ready"
  /\ Current(c)
  /\ Goto(c, "ready", "endSlot")
  /\ UNCHANGED <<login, registry, slots, sources, contest>>

(* A replaced session silent for replaced_idle. *)
ReplacedIdle(c) ==
  /\ pc[c] = "ready"
  /\ ~Current(c)
  /\ Goto(c, "ready", "endSlot")
  /\ UNCHANGED <<login, registry, slots, sources, contest>>

-----------------------------------------------------------------------------
(* The end of the task: release_slot, then end_session. *)

EndReleaseSlot(c) ==
  /\ Goto(c, "endSlot", "endEntry")
  /\ slots' = slots \ {c}
  /\ UNCHANGED <<login, registry, sources, contest>>

(* Mutant: a HighID session that ends is counted off too. *)
RemoveEntryCountsAll(c) ==
  /\ pc[c] = "endEntry"
  /\ Current(c)
  /\ Goto(c, "endEntry", "endTables")
  /\ clients' = [clients EXCEPT ![user[c]] = NoConn]
  /\ lowid' = lowid - 1
  /\ UNCHANGED <<login, index, tables, shadowed, slots, sources, contest>>

(* remove_if: the entry goes only if it is this session's. *)
EndRemoveEntry(c) ==
  /\ pc[c] = "endEntry"
  /\ Current(c)
  /\ Goto(c, "endEntry", "endTables")
  /\ clients' = [clients EXCEPT ![user[c]] = NoConn]
  /\ lowid' = lowid - Low(c)
  /\ UNCHANGED <<login, index, tables, shadowed, slots, sources, contest>>

EndClearTables(c) ==
  /\ Goto(c, "endTables", "endIndex")
  /\ tables' = [tables EXCEPT ![user[c]] = NoConn]
  /\ UNCHANGED <<login, clients, index, lowid, shadowed, slots, sources, contest>>

(* Mutant: whoever the id maps to. *)
UnindexAnyway(i, u) == index' = [index EXCEPT ![i] = NoUser]

(* Only if the id still maps to this user. *)
Unindex(i, u) == index' = [index EXCEPT ![i] = IF @ = u THEN NoUser ELSE @]

EndUnindex(c) ==
  /\ Goto(c, "endIndex", "endSources")
  /\ Unindex(id[c], user[c])
  /\ UNCHANGED <<login, clients, tables, lowid, shadowed, slots, sources, contest>>

EndRemoveSources(c) ==
  /\ Goto(c, "endSources", "endTask")
  /\ sources' = [sources EXCEPT ![user[c]] = {}]
  /\ UNCHANGED <<login, registry, slots, contest>>

(* Mutants: a replaced session cleans up the side tables, or the sources,  *)
(* as if it were the live one.                                             *)
EndAsIfOurs(c) ==
  /\ pc[c] = "endEntry"
  /\ ~Current(c)
  /\ Goto(c, "endEntry", "endTables")
  /\ UNCHANGED <<login, registry, slots, sources, contest>>

EndTakesSources(c) ==
  /\ pc[c] = "endEntry"
  /\ ~Current(c)
  /\ Goto(c, "endEntry", "endSources")
  /\ UNCHANGED <<login, registry, slots, sources, contest>>

(* Replaced or gone: the old id is retracted if the live session of the    *)
(* user has another.                                                       *)
EndNotOurs(c) ==
  LET live == clients[user[c]] IN
  /\ pc[c] = "endEntry"
  /\ ~Current(c)
  /\ Goto(c, "endEntry",
          IF live # NoConn /\ id[live] # id[c] THEN "endStale" ELSE "endTask")
  /\ UNCHANGED <<login, registry, slots, sources, contest>>

EndStaleId(c) ==
  /\ Goto(c, "endStale", "endTask")
  /\ Unindex(id[c], user[c])
  /\ UNCHANGED <<login, clients, tables, lowid, shadowed, slots, sources, contest>>

EndTask(c) ==
  /\ Close(c, "endTask")
  /\ UNCHANGED <<clients, index, tables, lowid, slots, sources, contest>>

-----------------------------------------------------------------------------
LoginStep(c) ==
  \/ ProbeGone(c) \/ ProbeAlive(c)
  \/ ReserveSlot(c) \/ ForceReserve(c) \/ TryReserve(c) \/ ServerFull(c)
  \/ AssignId(c) \/ Recheck(c) \/ RecheckRefused(c) \/ RefusalSent(c)
  \/ IndexClientId(c) \/ WriteTables(c) \/ InsertClient(c)
  \/ ReleaseReplaced(c) \/ Welcome(c)

OfferStep(c) ==
  PacedResume(c) \/ OfferInline(c) \/ OfferSpawn(c) \/ OfferJob(c) \/ OfferDone(c)

EndStep(c) ==
  \/ EndReleaseSlot(c) \/ EndRemoveEntry(c) \/ EndClearTables(c)
  \/ EndUnindex(c) \/ EndRemoveSources(c) \/ EndNotOurs(c) \/ EndStaleId(c)
  \/ EndTask(c)

PeerStep(c) ==
  \/ \E u \in Users, a \in Addrs :
       LoginUncontested(c, u, a) \/ LoginProbes(c, u, a) \/ LoginRefused(c, u, a)
  \/ FrameFenced(c) \/ OfferFrame(c) \/ Disconnect(c)

Timer ==
  \/ \E u \in Users : ProbeEnds(u) \/ CooldownEnds(u)
  \/ \E u \in Users, a \in Addrs : ForgetContender(u, a)

TaskStep(c) == LoginStep(c) \/ OfferStep(c) \/ EndStep(c) \/ ReplacedIdle(c)

Next ==
  \/ \E c \in Conns : TaskStep(c) \/ PeerStep(c)
  \/ Timer

Spec == Init /\ [][Next]_vars

(* A ready task is scheduled again (the runtime's queue is fair, so a step *)
(* that is possible again and again is taken), and timers fire.            *)
Fairness ==
  /\ \A c \in Conns : SF_vars(TaskStep(c))
  /\ \A u \in Users : WF_vars(ProbeEnds(u))

FairSpec == Spec /\ Fairness

-----------------------------------------------------------------------------
(* Correctness.                                                            *)

(* No task is between two awaits.                                          *)
Quiet == \A c \in Conns : pc[c] \in AwaitPcs

Online(u) == clients[u] # NoConn /\ pc[clients[u]] \notin EndPcs

(* limits.max_clients: "an atomic reservation, so concurrent logins cannot *)
(* overshoot" it, whatever replacements and probes are in progress.        *)
CapRespected ==
  MaxClients # 0 => Cardinality({u \in Users : Online(u)}) <= MaxClients

(* One user, one slot: a session in the client map holds a slot, and a     *)
(* slot is held by such a session or by a login still in progress, never   *)
(* by a replaced session or a login that was refused.                      *)
OneSlotPerUser ==
  Quiet =>
    /\ \A u \in Users : clients[u] # NoConn => clients[u] \in slots
    /\ \A c \in slots : pc[c] \in {"assign", "refused"} \/ \E u \in Users : clients[u] = c

(* The live session owns what is kept under its user hash: the side tables *)
(* are the ones its login wrote, whatever older sessions have ended since. *)
TablesOfLiveSession ==
  Quiet => \A u \in Users : tables[u] = clients[u]

(* Callback and hole-punch resolve the id of every live session to its     *)
(* user, except a HighID that another user behind the same address took.   *)
Reachable ==
  Quiet => \A u \in Users :
    LET c == clients[u] IN c # NoConn /\ c \notin shadowed => index[id[c]] = u

(* The cached LowID count is the number of LowID sessions online: repeated *)
(* replacements and late ends neither lose nor double a decrement.         *)
LowIdCount ==
  Quiet => lowid = Cardinality({u \in Users : Low(clients[u]) = 1})

(* A live session of a hash that is not shared is replaced only from its   *)
(* own address, although the HighID probe lies between check and insert.   *)
OnlyOwnerReplaces ==
  [][\A u \in Users \ SharedUsers :
       LET p == clients[u] IN
       /\ p # NoConn /\ ~TakeoverFromAny
       /\ clients'[u] \notin {p, NoConn}
       => \/ addr[p] = addr[clients'[u]]
          \/ <<addr[p], addr[clients'[u]]>> \in DualStack]_vars

(* The files a live session has published stay until it ends: the late     *)
(* end of an older session of the user does not take them.                 *)
LiveSourcesKept ==
  [][\A u \in Users : \A c \in sources[u] :
       clients[u] = c /\ clients'[u] = c => c \in sources'[u]]_vars

(* A batch indexed for a session does not outlive it: with no connection   *)
(* of the user left, no file names the user as a source.                   *)
SourcesGoWithUser ==
  Quiet => \A u \in Users :
    sources[u] # {} => \E c \in Conns : user[c] = u

(* No stale id is left mapped: an id maps to a user only while a           *)
(* connection of the user holds that id.                                   *)
StaleIdRetracted ==
  Quiet => \A i \in Ids :
    index[i] # NoUser => \E c \in Conns : user[c] = index[i] /\ id[c] = i

(* Every login is answered, whatever it waits for.                         *)
LoginAnswered ==
  \A c \in Conns : pc[c] \in LoginPcs ~> pc[c] \in {"ready", "closed"}

(* A replaced session is closed, by its next frame or by its silence; one  *)
(* of a shared hash may go on.                                             *)
ReplacedCloses ==
  \A c \in Conns :
    pc[c] = "ready" /\ ~Admitted(c) ~> pc[c] = "closed"

(* At every moment, whatever logins, replacements, probes and late ends    *)
(* are in progress: the cap and the slots are kept, and the registries     *)
(* speak of the live session.                                              *)
SessionInv ==
  /\ TypeOK
  /\ CapRespected /\ OneSlotPerUser
  /\ TablesOfLiveSession /\ LowIdCount /\ Reachable

(* What no step may do to a live session: replace it from elsewhere, or    *)
(* take its sources.                                                       *)
LiveSessionKept == OnlyOwnerReplaces /\ LiveSourcesKept

(* Logins are answered and replaced sessions closed.                       *)
SessionsSettle == LoginAnswered /\ ReplacedCloses
=============================================================================
