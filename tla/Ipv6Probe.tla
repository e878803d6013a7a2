------------------------------ MODULE Ipv6Probe -------------------------------
(***************************************************************************)
(* The IPv6 a client is published under (client_ipv6): announced at login  *)
(* or by OP_IPV6_UPDATE, held back until the server has dialled it and the *)
(* client answered, through updates, reconnects, late answers, lost        *)
(* permits and a route that comes and goes.  One client.                   *)
(***************************************************************************)
EXTENDS Naturals

CONSTANTS
  Addrs6,
  MaxDials,     \* MAX_DIALS
  MaxChanges    \* bound: logins and updates

VARIABLES
  in6,          \* the client is logged in
  held,         \* ClientHandle.ipv6
  pub6,         \* client_ipv6
  probe,        \* ipv6_probe
  dialing,      \* dials in flight, by address
  welcome,      \* addresses of logins whose welcome batch is going out
  route,        \* ipv6_route
  onTrust,      \* history: published without a probe
  dialled,      \* history: dials of this session
  changes

vars == <<in6, held, pub6, probe, dialing, welcome, route, onTrust, dialled, changes>>

None6 == "none"
NoProbe == [addr |-> None6, verdict |-> "none", dials |-> 0]

TypeOK ==
  /\ in6 \in BOOLEAN /\ held \in Addrs6 \cup {None6} /\ pub6 \in Addrs6 \cup {None6}
  /\ probe \in [addr : Addrs6 \cup {None6}, verdict : {"none", "ok", "no"}, dials : 0 .. MaxDials]
  /\ dialing \in [Addrs6 -> Nat] /\ welcome \subseteq Addrs6 /\ route \in BOOLEAN /\ onTrust \in BOOLEAN

Init ==
  /\ in6 = FALSE /\ held = None6 /\ pub6 = None6 /\ probe = NoProbe
  /\ dialing = [a \in Addrs6 |-> 0] /\ welcome = {} /\ route \in BOOLEAN
  /\ onTrust = FALSE /\ dialled = 0 /\ changes = 0

-----------------------------------------------------------------------------
(* mark_pending: the record afterwards. *)
Pending(old, a) ==
  IF old.addr = a THEN old ELSE [addr |-> a, verdict |-> "none", dials |-> old.dials]

(* start: a dial, if the session has one left and the ceiling a permit. *)
Start(p, soFar) ==
  \E permit \in BOOLEAN :
    LET may == p.verdict = "none" /\ p.dials < MaxDials IN
    /\ probe' = IF may THEN [p EXCEPT !.dials = @ + 1] ELSE p
    /\ dialing' = IF may /\ permit THEN [dialing EXCEPT ![p.addr] = @ + 1] ELSE dialing
    /\ dialled' = IF may /\ permit THEN soFar + 1 ELSE soFar

NoDial(soFar) == dialled' = soFar /\ UNCHANGED dialing

(* Mutant: the address is published while its probe runs. *)
PublishesAtOnce(a, old) ==
  /\ held' = a /\ pub6' = a
  /\ onTrust' = (a # None6 /\ ~route)

(* A login's or an update's address. *)
Takes(a, old) ==
  /\ held' = a
  /\ pub6' = IF ~route \/ Pending(old, a).verdict = "ok" THEN a ELSE None6
  /\ onTrust' = (a # None6 /\ ~route)

Counts == changes < MaxChanges /\ changes' = changes + 1

(* A login, of a client that was gone or whose session it replaces; the     *)
(* dial starts when the welcome batch is out, whatever has come meanwhile.  *)
Login(a) ==
  /\ Counts /\ in6' = TRUE
  /\ Takes(a, NoProbe)
  /\ IF a = None6 \/ ~route THEN probe' = NoProbe /\ UNCHANGED welcome
     ELSE probe' = Pending(NoProbe, a) /\ welcome' = welcome \cup {a}
  /\ NoDial(0) /\ UNCHANGED route

Welcomed(a) ==
  /\ a \in welcome /\ welcome' = welcome \ {a}
  /\ IF probe.addr = a THEN Start(probe, dialled) ELSE UNCHANGED probe /\ NoDial(dialled)
  /\ UNCHANGED <<in6, held, pub6, route, onTrust, changes>>

Ipv6Update(a) ==
  /\ Counts /\ in6
  /\ Takes(a, probe)
  /\ IF a = None6 THEN probe' = NoProbe /\ NoDial(dialled)
     ELSE IF ~route \/ probe.addr = a THEN UNCHANGED probe /\ NoDial(dialled)
     ELSE Start(Pending(probe, a), dialled)
  /\ UNCHANGED <<in6, welcome, route>>

Logout ==
  /\ in6 /\ in6' = FALSE
  /\ held' = None6 /\ pub6' = None6 /\ probe' = NoProbe
  /\ UNCHANGED <<dialing, welcome, route, onTrust, dialled, changes>>

(* Mutant: an answer about an address the session gave up counts. *)
ConcludesAnyway(a, ok) ==
  /\ dialing[a] > 0 /\ dialing' = [dialing EXCEPT ![a] = @ - 1]
  /\ IF ~in6 THEN probe' = NoProbe /\ UNCHANGED <<pub6, onTrust>>
     ELSE /\ probe' = [probe EXCEPT !.verdict = IF ok THEN "ok" ELSE "no"]
          /\ pub6' = IF ok THEN a ELSE None6
          /\ onTrust' = FALSE
  /\ UNCHANGED <<in6, held, welcome, route, dialled, changes>>

Conclude(a, ok) ==
  /\ dialing[a] > 0 /\ dialing' = [dialing EXCEPT ![a] = @ - 1]
  /\ IF ~in6 THEN probe' = NoProbe /\ UNCHANGED <<pub6, onTrust>>
     ELSE IF held # a \/ probe.addr # a THEN UNCHANGED <<probe, pub6, onTrust>>
     ELSE /\ probe' = [probe EXCEPT !.verdict = IF ok THEN "ok" ELSE "no"]
          /\ pub6' = IF ok THEN a ELSE None6
          /\ onTrust' = FALSE
  /\ UNCHANGED <<in6, held, welcome, route, dialled, changes>>

Stalled == route' /\ probe.addr # None6 /\ probe.verdict = "none" /\ held = probe.addr

(* Mutant: the sweep does not try again. *)
SweepOnly ==
  /\ route' \in BOOLEAN
  /\ UNCHANGED <<in6, held, pub6, probe, dialing, welcome, onTrust, dialled, changes>>

Sweep ==
  /\ route' \in BOOLEAN
  /\ IF Stalled THEN Start(probe, dialled) ELSE UNCHANGED probe /\ NoDial(dialled)
  /\ UNCHANGED <<in6, held, pub6, welcome, onTrust, changes>>

Next ==
  \/ \E a \in Addrs6 \cup {None6} : Login(a) \/ Ipv6Update(a)
  \/ Logout
  \/ \E a \in Addrs6 : Welcomed(a) \/ \E ok \in BOOLEAN : Conclude(a, ok)
  \/ Sweep

Spec == Init /\ [][Next]_vars

(* Dials time out; the sweep runs each minute, and finds a route there is. *)
Fairness ==
  /\ \A a \in Addrs6 : WF_vars(\E ok \in BOOLEAN : Conclude(a, ok))
  /\ WF_vars(Sweep /\ route')

-----------------------------------------------------------------------------
(* The address handed out is the one the session holds, and while the dial-  *)
(* back is in force it answered for this client; late answers about earlier  *)
(* addresses or sessions never publish one.                                  *)
PublishedAnswered ==
  pub6 # None6 =>
    /\ in6 /\ pub6 = held
    /\ ~onTrust => probe.addr = pub6 /\ probe.verdict = "ok"

HeldBack == held # None6 /\ pub6 = None6 /\ probe.verdict = "none"

(* An address held back gets its verdict, unless the session has used its     *)
(* dials or the route is gone ("retry a probe that never ran").               *)
PendingConcluded == HeldBack ~> (~HeldBack \/ probe.dials = MaxDials \/ ~route)

(* A session is dialled at most MAX_DIALS times ("this caps how often").       *)
DialsCapped == dialled <= MaxDials
=============================================================================
