------------------------------ MODULE HolePunch -------------------------------
(***************************************************************************)
(* Hole punching between clients that cannot be reached: the 0x60 request, *)
(* the extension that wakes the target and waits for its 0x9F, the resends, *)
(* and the requests of clients of another server.                          *)
(*                                                                         *)
(* Handlers run to their next await, as on the runtime with one thread.    *)
(* What a 0x9F must be to be accepted is NatAddress; here it may arrive at  *)
(* any time or never.  A session's number stands for its LowID.            *)
(***************************************************************************)
EXTENDS Naturals, FiniteSets

CONSTANTS
  Peers,         \* clients
  HighPeers,     \* those given a HighID
  V4Peers,       \* those whose session is over IPv4
  Ext, Lug,      \* extension and 0x1000, 0x1000: CT_SERVER_FLAGS
  Announce,      \* those that announce a UDP port at login
  Clash,         \* pairs whose crypt settings cannot meet
  Foreign,       \* clients of another server
  MaxRetryTasks, \* admission.max_retry_tasks
  WakesPerMin,   \* FOREIGN_WAKES_PER_MIN
  Askers,        \* bound: the clients that ask
  MaxLogins      \* bound: logins

VARIABLES
  online, logins,   \* clients: the session (0: none); logins so far
  hasUdp, elsewhere, \* udp_port # 0; natt_udp_ip
  waiters,       \* natt_keepalive_waiters: tasks, those that gave up too
  coords,        \* tasks that coordinate or resend, and their retry guards
  asked,         \* a request: none, pending, or how it was answered
  wakes          \* natcb_foreign_wakes

clients == <<online, logins, hasUdp, elsewhere>>
vars == <<clients, waiters, coords, asked, wakes>>

Ids == 1 .. MaxLogins
Requesters == Askers \cup Foreign
Task == [r : Requesters, rid : 0 .. MaxLogins, t : Peers, tid : Ids,
         step : {"wait", "fired", "resend1", "resend2"}]

TypeOK ==
  /\ online \in [Peers -> 0 .. MaxLogins] /\ logins \in 0 .. MaxLogins
  /\ hasUdp \in [Peers -> BOOLEAN] /\ elsewhere \in [Peers -> BOOLEAN]
  /\ waiters \in [Peers -> SUBSET (Requesters \X Ids)]
  /\ coords \subseteq Task /\ Cardinality(coords) <= MaxRetryTasks
  /\ asked \in [Askers \X Ids -> {"no", "owed", "info", "fail"}]
  /\ wakes \in [Peers -> 0 .. WakesPerMin]

Init ==
  /\ online = [p \in Peers |-> 0] /\ logins = 0
  /\ hasUdp = [p \in Peers |-> FALSE] /\ elsewhere = [p \in Peers |-> FALSE]
  /\ waiters = [p \in Peers |-> {}] /\ coords = {}
  /\ asked = [x \in Askers \X Ids |-> "no"]
  /\ wakes = [p \in Peers |-> 0]

-----------------------------------------------------------------------------
Forget(p) == asked' = [x \in Askers \X Ids |-> IF x[1] = p THEN "no" ELSE asked[x]]

(* A login, of a client that was gone or whose session it replaces. *)
Login(p) ==
  /\ logins < MaxLogins
  /\ logins' = logins + 1
  /\ online' = [online EXCEPT ![p] = logins']
  /\ hasUdp' = [hasUdp EXCEPT ![p] = p \in Announce]
  /\ elsewhere' = [elsewhere EXCEPT ![p] = FALSE]
  /\ Forget(p)
  /\ UNCHANGED <<waiters, coords, wakes>>

Logout(p) ==
  /\ online[p] # 0
  /\ online' = [online EXCEPT ![p] = 0]
  /\ elsewhere' = [elsewhere EXCEPT ![p] = FALSE]
  /\ Forget(p)
  /\ UNCHANGED <<logins, hasUdp, waiters, coords, wakes>>

(* An accepted 0x9F, and keepalive_arrived: every coordination waiting for  *)
(* this client goes on.                                                    *)
Keepalive(p) ==
  /\ online[p] # 0
  /\ hasUdp' = [hasUdp EXCEPT ![p] = TRUE]
  /\ \E e \in IF p \in V4Peers THEN {FALSE} ELSE BOOLEAN :   \* it has its IPv4
       elsewhere' = [elsewhere EXCEPT ![p] = e]
  /\ coords' = {IF c.t = p /\ c.step = "wait" /\ <<c.r, c.tid>> \in waiters[p]
                THEN [c EXCEPT !.step = "fired"] ELSE c : c \in coords}
  /\ waiters' = [waiters EXCEPT ![p] = {}]
  /\ UNCHANGED <<online, logins, asked, wakes>>

-----------------------------------------------------------------------------
ById(id) == {p \in Peers : online[p] = id}
HasV4(p) == p \in V4Peers \/ elsewhere[p]

(* handle_holepunch_request: INFO to both sides, or FAIL to the requester. *)
Punchable(r, rid, tid) ==
  /\ tid # rid
  /\ \E t \in ById(tid) : t \notin HighPeers /\ HasV4(r) /\ HasV4(t) /\ hasUdp[t]

Answered(r, rid, tid) ==
  asked' = [asked EXCEPT ![<<r, tid>>] = IF Punchable(r, rid, tid) THEN "info" ELSE "fail"]

(* try_retry. *)
Pending(r, tid) == \E c \in coords : c.r = r /\ c.tid = tid
Room == Cardinality(coords) < MaxRetryTasks

Started(r, t, step) ==
  [r |-> r, rid |-> IF r \in Askers THEN online[r] ELSE 0, t |-> t,
   tid |-> online[t], step |-> step]

(* Listed, then woken: start_extension. *)
Wait(r, t) ==
  /\ coords' = coords \cup {Started(r, t, "wait")}
  /\ waiters' = [waiters EXCEPT ![t] = @ \cup {<<r, online[t]>>}]

(* A target that can be woken for r with the extension's 0x37. *)
Wakeable(r, t) ==
  /\ t # r /\ t \notin HighPeers /\ {r, t} \subseteq Ext
  /\ HasV4(t) /\ r \in V4Peers /\ {r, t} \notin Clash

RequestExt(r, tid) ==
  /\ online[r] # 0
  /\ \E t \in ById(tid) :
       /\ Wakeable(r, t)
       /\ \/ Pending(r, tid) /\ UNCHANGED <<coords, waiters>>
          \/ ~Pending(r, tid) /\ Room /\ Wait(r, t)
  /\ asked' = [asked EXCEPT ![<<r, tid>>] = "owed"]
  /\ hasUdp' = [hasUdp EXCEPT ![r] = TRUE]
  /\ UNCHANGED <<online, logins, elsewhere, wakes>>

(* At once, with two resends when there is room for them (those for a      *)
(* target that is not there only repeat the FAIL).                         *)
RequestPlain(r, tid) ==
  /\ online[r] # 0 /\ tid <= logins
  /\ \A t \in ById(tid) : Wakeable(r, t) => ~Pending(r, tid) /\ ~Room
  /\ hasUdp' = [hasUdp EXCEPT ![r] = TRUE]
  /\ Answered(r, online[r], tid)
  /\ coords' = IF Pending(r, tid) \/ ~Room THEN coords
               ELSE coords \cup {Started(r, t, "resend1") : t \in ById(tid)}
  /\ UNCHANGED <<online, logins, elsewhere, waiters, wakes>>

-----------------------------------------------------------------------------
(* A task goes on: at the target's 0x9F or EXT_WAIT later, then twice more. *)
NextStep(c) ==
  IF c.step = "resend2" THEN coords \ {c}
  ELSE (coords \ {c}) \cup
       {[c EXCEPT !.step = IF @ = "resend1" THEN "resend2" ELSE "resend1"]}

(* Mutant: without the 0x9F there is no punch. *)
GivesUp(c) ==
  /\ c \in coords /\ c.r \in Askers
  /\ IF online[c.r] = 0 \/ c.step = "wait" THEN coords' = coords \ {c} /\ UNCHANGED asked
     ELSE coords' = NextStep(c) /\ Answered(c.r, c.rid, c.tid)
  /\ UNCHANGED <<clients, waiters, wakes>>

Coordinate(c) ==
  /\ c \in coords /\ c.r \in Askers
  /\ IF online[c.r] = 0 THEN coords' = coords \ {c} /\ UNCHANGED asked
     ELSE coords' = NextStep(c) /\ Answered(c.r, c.rid, c.tid)
  /\ UNCHANGED <<clients, waiters, wakes>>

(* 0xA6 with requester id 0, from a client of another server. *)
ForeignRequest(f, t) ==
  /\ online[t] # 0 /\ t \notin HighPeers /\ t \in Lug /\ {f, t} \notin Clash
  /\ wakes[t] < WakesPerMin
  /\ wakes' = [wakes EXCEPT ![t] = @ + 1]
  /\ IF t \in Ext /\ ~Pending(f, online[t]) /\ Room THEN Wait(f, t)
     ELSE UNCHANGED <<coords, waiters>>
  /\ UNCHANGED <<clients, asked>>

(* The packet is built once and sent three times. *)
ForeignAnswer(c) ==
  /\ c \in coords /\ c.r \in Foreign
  /\ coords' = IF c.step \in {"wait", "fired"} /\ (online[c.t] = 0 \/ ~HasV4(c.t))
               THEN coords \ {c} ELSE NextStep(c)
  /\ UNCHANGED <<clients, waiters, asked, wakes>>

-----------------------------------------------------------------------------
(* Mutant: the waiters still waiting are dropped with the others. *)
NoWaiters(p) == {}

OpenWaiters(p) ==
  {w \in waiters[p] : \E c \in coords : <<c.r, c.tid>> = w /\ c.t = p /\ c.step = "wait"}

(* The minute sweep. *)
Sweep ==
  /\ waiters' = [p \in Peers |-> OpenWaiters(p)]
  /\ wakes' = [p \in Peers |-> 0]
  /\ UNCHANGED <<clients, coords, asked>>

Next ==
  \/ \E p \in Peers : Login(p) \/ Logout(p) \/ Keepalive(p)
  \/ \E r \in Askers, tid \in Ids : RequestExt(r, tid) \/ RequestPlain(r, tid)
  \/ \E c \in coords : Coordinate(c) \/ ForeignAnswer(c)
  \/ \E f \in Foreign, t \in Peers : ForeignRequest(f, t)
  \/ Sweep

Spec == Init /\ [][Next]_vars

(* The timers fire and the runtime runs what is ready. *)
Fairness ==
  \A r \in Askers, tid \in Ids :
    WF_vars(\E c \in coords : c.r = r /\ c.tid = tid /\ Coordinate(c))

-----------------------------------------------------------------------------
(* A coordination that waits is listed with its target, through sweeps,     *)
(* logouts, reconnects and other requests for the same target: the next     *)
(* 0x9F releases it ("Listen before waking the target, so its 0x9F cannot   *)
(* slip past").                                                             *)
WaitersListed ==
  \A c \in coords : c.step = "wait" => <<c.r, c.tid>> \in waiters[c.t]

(* A request is answered by its own coordination or by the one it was       *)
(* joined to, with the peer's endpoint while the target stays and can be    *)
(* punched to ("A lost 0x9F costs 3 s, never the punch").                   *)
PunchHappens ==
  \A r \in Askers, tid \in Ids :
    (asked[r, tid] = "owed" /\ Punchable(r, online[r], tid))
      ~> (asked[r, tid] \in {"info", "no"} \/ ~Punchable(r, online[r], tid))
=============================================================================
