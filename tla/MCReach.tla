------------------------------- MODULE MCReach --------------------------------
(***************************************************************************)
(* Who gets in, how it is talked to and where it can be reached: accepted  *)
(* sockets, the TCP stream and obfuscated UDP, logins, the id a login is   *)
(* given, what it is told, its IPv6, its UDP mapping, hole punches, and    *)
(* the other servers.  The components share no state here; the initial     *)
(* state picks the one whose steps are taken, so one run checks each.      *)
(***************************************************************************)
EXTENDS Integers, Sequences, FiniteSets

CONSTANTS
  Addrs6, MaxDials, MaxChanges,
  Places, MaxSessions, MaxSent,
  Peers, HighPeers, V4Peers, Ext, Lug, Announce, Clash, Foreign, MaxRetryTasks,
  WakesPerMin, Askers, MaxLogins,
  Servers, Running, Me, MyPort, SeedServers, ClientIps, ListCap, Registrants, Nobody,
  Conns, Sources, Loopback, MaxPerIp, MaxOpen, MaxPending, MaxPerSource,
  Parts,        \* the components of this run
  Users, HighOf, V6, Lan, ThisIp, Odd, LowTop, MaxProbes, MaxChecks, MaxMarks,
  Downgrade, Observe, MaxAssigned,
  Seeds, MaxFailures, MaxReloads,
  MaxPad, AckRoom, MaxFrame, MaxInflated, Chunk, Threshold, Scripts, Answers,
  Addrs, NetOf, Clients, Exits, SessAt, NattOf, UdpServers, At, PingSizes, MaxPings,
  LoginConns, LoginUsers, LoginAddrs, V6Addrs, DualStack, SharedUsers, TakeoverFromAny, MaxClients, Parallel,
  NoConn, NoUser, NoAddr, NoId,
  Visitors, Settings, BoundPort, Batches, MaxEdits, MaxRelays, MaxInbox

VARIABLES
  in6, held, pub6, probe, dialing, welcome, route, onTrust, dialled, changes,
  sess, place, lastSess, net, seen9f, natIp, proofs, natPort,
  online, logins, hasUdp, elsewhere, waiters, coords, asked, wakes,
  list, grace, verIp, verSock, keys, pinged, peerClients, recent, pendReg, answered, answeredObf, obfBound,
  sock, connPerIp, pendingPerSource, openTcp, pendingLogin,
  part,
  nextLow, step, given, checks, marks, permits, checkPermits, assigned,
  configured, prevDesired, givenUp, loop, failures, reloads,
  crypt, client, wire, closed, stage, taken, recvPos, sendPos, ciphered, prefix, src, readable, delivered,
  answers, out, accepted, pending, got, flushed,
  keyHeld, stash, onWire, known, challenges, cache, pingers, seen, busy, last, pings, sent,
  pc, user, addr, id, prev, clients, index, tables, slots, lowid, sources, probing, lost, shadowed,
  liveCfg, edits, sessions, inbox, offersMade, guests

V6P == INSTANCE Ipv6Probe
Nat9f == INSTANCE NatAddress
Punch == INSTANCE HolePunch
Peer == INSTANCE PeerServers
Sock == INSTANCE Sockets
Id == INSTANCE LoginId
Seed == INSTANCE SeedLoops
Stream == INSTANCE ClientStream
Udp == INSTANCE UdpChannels WITH held <- keyHeld, Servers <- UdpServers
Login == INSTANCE Sessions WITH Conns <- LoginConns, Users <- LoginUsers, Addrs <- LoginAddrs
Greet == INSTANCE Greeting WITH Clients <- Visitors, Configs <- Settings, Counts <- Batches, live <- liveCfg

idVars == <<nextLow, step, given, checks, marks, permits, checkPermits, assigned>>
v6Vars == <<in6, held, pub6, probe, dialing, welcome, route, onTrust, dialled, changes>>
natVars == <<sess, place, lastSess, net, seen9f, natIp, proofs, natPort>>
punchVars == <<online, logins, hasUdp, elsewhere, waiters, coords, asked, wakes>>
peerVars == <<list, grace, verIp, verSock, keys, pinged, peerClients, recent, pendReg, answered, answeredObf, obfBound>>
seedVars == <<configured, prevDesired, givenUp, loop, failures, reloads>>
sockVars == <<sock, connPerIp, pendingPerSource, openTcp, pendingLogin>>
streamVars == <<crypt, client, wire, closed, stage, taken, recvPos, sendPos, ciphered, prefix, src, readable,
                delivered, answers, out, accepted, pending, got, flushed>>
udpVars == <<keyHeld, stash, onWire, known, challenges, cache, pingers, seen, busy, last, pings, sent>>
loginVars == <<pc, user, addr, id, prev, clients, index, tables, slots, lowid, sources, probing, lost, shadowed>>
greetVars == <<liveCfg, edits, sessions, inbox, offersMade, guests>>
vars == <<part, idVars, v6Vars, natVars, punchVars, peerVars, seedVars, sockVars, streamVars, udpVars, loginVars,
          greetVars>>

HighIds == [u \in Users |-> CASE u = "pub" -> 20 [] u = "zero" -> 2 [] OTHER -> 0]
(* A server, a phantom on its host as near to it as answers confuse, and the *)
(* server of another host.                                                   *)
ThreeServers == {<<1, 20>>, <<1, 24>>, <<2, 20>>}
OneServer == {<<1, 20>>}
AllButPhantom == ThreeServers \ {<<1, 24>>}
TwoServers == {<<1, 20>>, <<1, 40>>}
SecondServer == {<<2, 20>>}

(* Frames in and beyond the limits, packed ones, and bad protocols. *)
F(p, l, b) == [proto |-> p, length |-> l, body |-> b]
FiveScripts ==
  {<<F("E3", 2, <<"x">>), F("D4", 2, <<3>>)>>, <<F("D4", 2, <<2>>), F("E3", 3, <<"x", "x">>)>>,
   <<F("E3", 0, <<>>)>>, <<F("E3", 4, <<"x", "x", "x">>)>>, <<F("C5", 1, <<>>)>>}
OneScript == {<<F("E3", 1, <<>>)>>}
TwoAnswers == {<<[size |-> 1, squeezed |-> 1], [size |-> 2, squeezed |-> 1]>>}

(* A client of two addresses of one network, and one of the other. *)
OneNet == [a \in Addrs |-> 1]
LeavesBy == [c \in Clients |-> IF c = "c" THEN {"a", "b"} ELSE {"b"}]
LogsInAt == [c \in Clients |-> IF c = "c" THEN "a" ELSE "b"]
NoNatt == [c \in Clients |-> FALSE]
SameAddress == [s \in UdpServers |-> "b"]

DualStackMove == {<<"a1", "a2">>}

(* A modern client and a legacy one, each from one kind of place; terms     *)
(* that hold, that cannot be advertised, and that are off, each edited.     *)
Visitor(from, modern) ==
  [from |-> from, asks |-> modern, natt |-> modern, ext |-> modern, crypt |-> modern, six |-> FALSE]
TheVisitors ==
  [new |-> Visitor("public", TRUE), home |-> [Visitor("lan", TRUE) EXCEPT !.ext = FALSE],
   old |-> Visitor("dotzero", FALSE), far |-> [Visitor("ipv6", FALSE) EXCEPT !.crypt = TRUE]]
Setting(v1, hard, port, address) ==
  [v1 |-> v1, soft |-> 1, hard |-> hard, batch |-> 1, interval |-> 1, natt |-> v1, ext |-> v1,
   six |-> TRUE, probe |-> v1, port |-> port, address |-> address]
TheSettings ==
  {Setting(TRUE, 3, 1, "public"), [Setting(TRUE, 2, 2, "other") EXCEPT !.soft = 2],
   Setting(TRUE, 1, 1, "private"), Setting(FALSE, 0, 1, "public")}

(* Two of the clients are looked at together. *)
WithinGuests ==
  /\ \A c \in DOMAIN Visitors \ guests : sessions'[c].stage = "out"
  /\ UNCHANGED guests

(* A connection nobody uses while another component is looked at. *)
SomeStream ==
  /\ crypt /\ Len(client.script) > 0 /\ ~closed /\ ~client.obf
  /\ client.script = CHOOSE x \in Scripts : TRUE

Init ==
  /\ part \in Parts
  /\ Id!Init /\ V6P!Init /\ Nat9f!Init /\ Punch!Init /\ Peer!Init /\ Seed!Init /\ Sock!Init
  /\ Stream!Init /\ Udp!Init /\ Login!Init
  /\ route \/ part = "ipv6"
  /\ obfBound \/ part = "peers"
  /\ part = "stream" \/ SomeStream
  /\ Greet!Init /\ guests \in {{"new", "old"}, {"home", "far"}}
  /\ part = "greeting" \/ (liveCfg = Setting(FALSE, 0, 1, "public") /\ guests = {"new", "old"})

(* The steps of one component leave the others alone. *)
Only(p) ==
  /\ part = p /\ UNCHANGED part
  /\ IF p = "id" THEN TRUE ELSE UNCHANGED idVars
  /\ IF p = "ipv6" THEN TRUE ELSE UNCHANGED v6Vars
  /\ IF p = "nat" THEN TRUE ELSE UNCHANGED natVars
  /\ IF p = "punch" THEN TRUE ELSE UNCHANGED punchVars
  /\ IF p = "peers" THEN TRUE ELSE UNCHANGED peerVars
  /\ IF p = "seeds" THEN TRUE ELSE UNCHANGED seedVars
  /\ IF p = "sockets" THEN TRUE ELSE UNCHANGED sockVars
  /\ IF p = "stream" THEN TRUE ELSE UNCHANGED streamVars
  /\ IF p = "udp" THEN TRUE ELSE UNCHANGED udpVars
  /\ IF p = "login" THEN TRUE ELSE UNCHANGED loginVars
  /\ IF p = "greeting" THEN TRUE ELSE UNCHANGED greetVars

Next ==
  \/ Only("id") /\ Id!Next
  \/ Only("ipv6") /\ V6P!Next
  \/ Only("nat") /\ Nat9f!Next
  \/ Only("punch") /\ Punch!Next
  \/ Only("peers") /\ Peer!Next
  \/ Only("seeds") /\ Seed!Next
  \/ Only("sockets") /\ Sock!Next
  \/ Only("stream") /\ Stream!Next
  \/ Only("udp") /\ Udp!Next
  \/ Only("login") /\ Login!Next
  \/ Only("greeting") /\ Greet!Next /\ WithinGuests

(* The fairness of each component, for the one whose steps are taken. *)
Fairness ==
  /\ \A a \in Addrs6 : WF_v6Vars(part = "ipv6" /\ \E ok \in BOOLEAN : V6P!Conclude(a, ok))
  /\ WF_v6Vars(part = "ipv6" /\ V6P!Sweep /\ route')
  /\ \A r \in Askers, tid \in Punch!Ids :
       WF_punchVars(part = "punch" /\ \E c \in coords : c.r = r /\ c.tid = tid /\ Punch!Coordinate(c))
  /\ \A s \in Running : SF_peerVars(part = "peers" /\ Peer!ProbeAnswered(s))
  /\ \A c \in Conns :
       /\ WF_sockVars(part = "sockets" /\ Sock!TimesOut(c))
       /\ WF_sockVars(part = "sockets" /\ Sock!GiveBack(c))
       /\ WF_sockVars(part = "sockets" /\ Sock!Gone(c))
       /\ WF_sockVars(part = "sockets" /\ Sock!TakeOpen(c))
       /\ WF_sockVars(part = "sockets" /\ Sock!TakeShare(c))
       /\ WF_sockVars(part = "sockets" /\ (Sock!Spawn(c) \/ Sock!RefusePending(c)))
  /\ \A c \in LoginConns : SF_loginVars(part = "login" /\ Login!TaskStep(c))
  /\ \A u \in LoginUsers : WF_loginVars(part = "login" /\ Login!ProbeEnds(u))

Spec == Init /\ [][Next]_vars /\ Fairness

-----------------------------------------------------------------------------
(* The per-source maps count exactly the sockets that hold a share, and    *)
(* the sockets that exist stay within the admission ceilings.              *)
SocketsCounted == Sock!SocketsCounted

(* The IPv6 handed out is the session's own and answered the dial-back. *)
PublishedAnswered == V6P!TypeOK /\ V6P!PublishedAnswered

(* No 0x9F of an earlier session moves the address peers are sent to. *)
ProvenAddress == Nat9f!TypeOK /\ Nat9f!ProvenAddress

(* Every coordination that waits for a keepalive is found by it. *)
WaitersListed == Punch!TypeOK /\ Punch!WaitersListed

(* Only servers that proved themselves are handed out, and no client.      *)
ListSound == Peer!ListSound
(* A socket that does not log in is gone in the end.                       *)
SilentGone == Sock!SilentGone

(* However TCP cuts the stream, each side gets what the other sent.        *)
StreamFaithful == Stream!StreamFaithful

(* Obfuscated datagrams are understood and answered readably.              *)
ChannelsWork == Udp!ChannelsWork

(* A session is held to the terms it was told, and told usable addresses.  *)
ClientsTold == Greet!ClientsTold

(* Every login is answered and every replaced session is closed.           *)
SessionsSettle == Login!SessionsSettle

(* assign_client_id_for: an id says whether its holder can be reached, and *)
(* the probes and checks behind it give their permits back.                *)
IdsGiven == Id!IdsGiven

(* An IPv6 held back gets its verdict while there is a route and a dial. *)
PendingConcluded == V6P!PendingConcluded

(* A hole punch asked for happens, or is refused. *)
PunchHappens == Punch!PunchHappens

(* A listed server that answers its probes is handed out in the end. *)
ListedGetsVerified == Peer!ListedGetsVerified

(* The loops that run follow the configured seeds. *)
SeedsFollowConfig == []Seed!TypeOK /\ Seed!SeedsFollowConfig

-----------------------------------------------------------------------------
(* The answer to our obfuscated ping is understood: "we know" the part it  *)
(* is keyed with "because we sent it".                                     *)
PingUnderstood == Udp!PingUnderstood

(* A client that reconnects is not handed out with its old port. *)
PortOfAddress == Nat9f!PortOfAddress

(* A server that stops answering stops being advertised. *)
AdvertisedAnswers == Peer!AdvertisedAnswers

(* A change of the configured seeds gives every listed one a fresh attempt. *)
ChangeRetriesAll == Seed!ChangeRetriesAll

(* The dials of a session are capped. *)
DialsCapped == V6P!DialsCapped
=============================================================================
