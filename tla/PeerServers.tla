----------------------------- MODULE PeerServers ------------------------------
(***************************************************************************)
(* The list of peer servers: how it fills (gossip with the seeds, 0xA1     *)
(* lists, 0xA0 registrations), how an entry proves that it is a server     *)
(* (0x97, the obfuscated handshake), what is taken out of it, and what is  *)
(* handed out to clients, to other servers and in server.met.              *)
(*                                                                         *)
(* A server is its address and TCP port.  Handlers run to their next await,*)
(* as on the runtime with one thread; datagrams may be lost.  Ages are     *)
(* abstract: whatever outlives its time may go at any moment after.        *)
(***************************************************************************)
EXTENDS Integers, FiniteSets, Sequences

CONSTANTS
  Servers,     \* <<address, TCP port>>: everything somebody may claim
  Running,     \* those of them that run and answer
  Me, MyPort,  \* this_ip, tcp_port
  SeedServers, \* configured seeds
  ClientIps,   \* addresses clients connect from
  ListCap,     \* SERVER_LIST_CAP
  Registrants, \* bound: the servers that send 0xA0
  Nobody

VARIABLES
  list,        \* server_list
  grace,       \* server_list_added_at: addresses within VERIFY_GRACE
  verIp,       \* verified_servers
  verSock,     \* verified_sockets
  keys,        \* seed_server_keys: whose key is held for a server
  pinged,      \* our_sent_random_parts
  peerClients, recent,  \* clients' addresses, recent_client_ips
  pendReg,     \* pending_registrations: the server probed at an address
  answered,    \* history: when a server last answered
  answeredObf, \* history: who ever answered obfuscated
  obfBound     \* portUDPobf could be bound at start

listed == <<list, grace>>
standing == <<verIp, verSock, keys, answered, answeredObf>>
knownClients == <<peerClients, recent>>
vars == <<listed, standing, knownClients, pinged, pendReg, obfBound>>

Ip(s) == s[1]
Port(s) == s[2]
Ips == {Ip(s) : s \in Servers}

TypeOK ==
  /\ list \subseteq Servers /\ obfBound \in BOOLEAN
  /\ grace \subseteq Ips /\ verIp \subseteq Ips /\ verSock \subseteq Servers
  /\ keys \in [Servers -> Servers \cup {Nobody}]
  /\ pinged \subseteq SeedServers
  /\ peerClients \subseteq ClientIps /\ recent \subseteq ClientIps
  /\ \A i \in Ips : pendReg[i] # Nobody => Ip(pendReg[i]) = i
  /\ answered \in [Servers -> {"never", "lately", "long ago"}]
  /\ answeredObf \subseteq Servers

Init ==
  /\ list = {} /\ grace = {} /\ verIp = {} /\ verSock = {} /\ pinged = {}
  /\ keys = [s \in Servers |-> Nobody]
  /\ peerClients = {} /\ recent = {}
  /\ pendReg = [i \in Ips |-> Nobody]
  /\ answered = [s \in Servers |-> "never"] /\ answeredObf = {}
  /\ obfBound \in BOOLEAN

HasKey(s) == keys[s] # Nobody
Gossiped(i) == \E s \in Servers : Ip(s) = i /\ (HasKey(s) \/ s \in pinged)
Blocked == peerClients \cup recent

-----------------------------------------------------------------------------
(* Mutant: an address vouches for every port at it. *)
VouchedByIp(s) == Ip(s) \in verIp \/ HasKey(s)

Vouched(s) == s \in verSock \/ HasKey(s)

(* build_tcp_server_list, build_server_list_res, server_met::collect. *)
ToClients == {s \in list : Ip(s) # Me /\ Vouched(s)}
ToServers == {s \in list : (Ip(s) = Me => Port(s) = MyPort) /\ Vouched(s)}
ServerMet == {s \in list : HasKey(s)}

-----------------------------------------------------------------------------
(* 0xA0: probed, not listed yet. *)
NoteServerRegistration(s) ==
  /\ Ip(s) # Me /\ Ip(s) \notin Blocked
  /\ s \notin list
  /\ pendReg[Ip(s)] = Nobody
  /\ pendReg' = [pendReg EXCEPT ![Ip(s)] = s]
  /\ UNCHANGED <<listed, standing, knownClients, pinged, obfBound>>

RegistrationEnds(i) ==
  /\ pendReg[i] # Nobody /\ pendReg' = [pendReg EXCEPT ![i] = Nobody]
  /\ UNCHANGED <<listed, standing, knownClients, pinged, obfBound>>

AddToList(s, room) ==
  IF s \in list \/ ~room THEN UNCHANGED <<listed>>
  ELSE list' = list \cup {s} /\ grace' = grace \cup {Ip(s)}

(* Mutant: who became a client meanwhile is listed. *)
ConfirmsAnyway(s, echo) ==
  IF echo /\ pendReg[Ip(s)] = s
  THEN /\ pendReg' = [pendReg EXCEPT ![Ip(s)] = Nobody]
       /\ AddToList(s, Cardinality(list) < ListCap)
  ELSE UNCHANGED <<listed, pendReg>>

ConfirmServerRegistration(s, echo) ==
  IF echo /\ pendReg[Ip(s)] = s
  THEN /\ pendReg' = [pendReg EXCEPT ![Ip(s)] = Nobody]
       /\ AddToList(s, Ip(s) \notin Blocked /\ Cardinality(list) < ListCap)
  ELSE UNCHANGED <<listed, pendReg>>

(* pick_reply_server_port: the server a 0x97 from UDP port src is taken to  *)
(* come from.  inList: the list once a registration was confirmed.          *)
ReplyServer(s, src, obf, inList) ==
  LET candidates == [k \in 1 .. 5 |-> <<Ip(s), <<src - 12, src - 14, src - 4, src - 8, Port(s)>>[k]>>]
      first(S) == candidates[CHOOSE k \in 1 .. 5 : /\ candidates[k] \in S
                                                   /\ \A j \in 1 .. k - 1 : candidates[j] \notin S]
      any(S) == \E k \in 1 .. 5 : candidates[k] \in S
  IN IF ~obf THEN <<Ip(s), src - 4>>
     ELSE IF any(pinged) THEN first(pinged)
     ELSE IF any(inList) THEN first(inList)
     ELSE s

HasAnswered(s) == answered' = [answered EXCEPT ![s] = "lately"]

(* 0x97, plain from TCP+4, obfuscated from TCP+12 or TCP+14; the long form  *)
(* carries the sender's ServerKey.                                         *)
PingReply(s, off, echo, long) ==
  /\ HasAnswered(s)
  /\ answeredObf' = IF off = 4 THEN answeredObf ELSE answeredObf \cup {s}
  /\ ConfirmServerRegistration(s, echo /\ off = 4)
  /\ verIp' = verIp \cup {Ip(s)}
  /\ LET t == ReplyServer(s, Port(s) + off, off # 4, list')
     IN /\ verSock' = verSock \cup {t}
        /\ keys' = IF long THEN [keys EXCEPT ![t] = s] ELSE keys
  /\ UNCHANGED <<knownClients, pinged, obfBound>>

(* 0xA1, with an entry x, from an address gossiped with: a server's at      *)
(* least, the port it comes from is not looked at.                         *)
ServerListRes(x) ==
  /\ {i \in Ips \ Blocked : Gossiped(i)} # {}
  /\ LET kept == {s \in list : Ip(s) \notin Blocked}
         add == Ip(x) \notin Blocked /\ x \notin kept /\ Cardinality(kept) < ListCap
     IN /\ list' = IF add THEN kept \cup {x} ELSE kept
        /\ grace' = IF add THEN grace \cup {Ip(x)} ELSE grace
  /\ UNCHANGED <<standing, knownClients, pinged, pendReg, obfBound>>

(* The legacy handshake's own merge. *)
MergeServerList(x) ==
  /\ ~obfBound /\ \E seed \in SeedServers : HasKey(seed)
  /\ LET kept == {s \in list : Ip(s) \notin Blocked}
         add == Ip(x) \notin Blocked \cup {Me} /\ x \notin list
     IN /\ list' = IF add THEN kept \cup {x} ELSE kept
        /\ grace' = IF add THEN grace \cup {Ip(x)} ELSE grace
  /\ UNCHANGED <<standing, knownClients, pinged, pendReg, obfBound>>

-----------------------------------------------------------------------------
(* handshake_with_seed.  The OBF ping goes out; the main socket's handler   *)
(* reads the reply, and the loop waits for the key it stores, or finds the  *)
(* one it stored in an earlier cycle.                                       *)
HandshakePing(seed) ==
  /\ pinged' = pinged \cup {seed}
  /\ UNCHANGED <<listed, standing, knownClients, pendReg, obfBound>>

HandshakeKeyed(seed) ==
  /\ obfBound /\ seed \in pinged /\ HasKey(seed)
  /\ IF Ip(seed) \in peerClients THEN UNCHANGED <<listed, verSock>>
     ELSE AddToList(seed, TRUE) /\ verSock' = verSock \cup {seed}
  /\ UNCHANGED <<knownClients, verIp, keys, pinged, pendReg, answered, answeredObf, obfBound>>

HandshakeLegacy(seed) ==
  /\ ~obfBound /\ seed \in pinged
  /\ HasAnswered(seed) /\ keys' = [keys EXCEPT ![seed] = seed]
  /\ AddToList(seed, Ip(seed) \notin peerClients)
  /\ UNCHANGED <<knownClients, verIp, verSock, answeredObf, pinged, pendReg, obfBound>>

(* Mutant: one verified server at an address is enough. *)
ProbesPerAddress(s) ==
  /\ s \in list /\ Ip(s) \notin verIp /\ ~HasKey(s)
  /\ PingReply(s, 4, FALSE, FALSE)

(* The minute probe of what is not verified, and its answer. *)
ProbeAnswered(s) ==
  /\ s \in list /\ ~Vouched(s)
  /\ PingReply(s, 4, FALSE, FALSE)

(* The OBF ping of listed servers without a key, and its answer. *)
KeyAnswered(s) ==
  /\ s \in list /\ ~HasKey(s)
  /\ HasAnswered(s)
  /\ keys' = [keys EXCEPT ![s] = s] /\ verSock' = verSock \cup {s}
  /\ UNCHANGED <<listed, knownClients, verIp, answeredObf, pinged, pendReg, obfBound>>

-----------------------------------------------------------------------------
(* A login takes its address out of the list. *)
ClientLogin(i) ==
  /\ i \notin peerClients
  /\ peerClients' = peerClients \cup {i} /\ recent' = recent \cup {i}
  /\ list' = {s \in list : Ip(s) # i}
  /\ UNCHANGED <<standing, grace, pinged, pendReg, obfBound>>

ClientLeaves(i) ==
  /\ i \in peerClients /\ peerClients' = peerClients \ {i}
  /\ UNCHANGED <<listed, standing, pinged, recent, pendReg, obfBound>>

ClientForgotten(i) ==
  /\ i \in recent /\ recent' = recent \ {i}
  /\ UNCHANGED <<listed, standing, pinged, peerClients, pendReg, obfBound>>

(* An hour without an answer. *)
VerifiedEnds(s) ==
  /\ answered[s] = "lately" \/ s \in verSock
  /\ verSock' = verSock \ {s}
  /\ answered' = [answered EXCEPT ![s] = IF @ = "lately" THEN "long ago" ELSE @]
  /\ verIp' = IF \E t \in Servers : Ip(t) = Ip(s) /\ answered'[t] = "lately" THEN verIp
              ELSE verIp \ {Ip(s)}
  /\ UNCHANGED <<listed, knownClients, keys, answeredObf, pinged, pendReg, obfBound>>

PingForgotten(s) ==
  /\ s \in pinged /\ pinged' = pinged \ {s}
  /\ UNCHANGED <<listed, standing, knownClients, pendReg, obfBound>>

GraceEnds(i) ==
  /\ i \in grace /\ grace' = grace \ {i}
  /\ UNCHANGED <<standing, knownClients, list, pinged, pendReg, obfBound>>

(* The minute cleanup. *)
Cleanup ==
  /\ list' = {s \in list : Vouched(s) \/ Ip(s) \in verIp
                           \/ (Ip(s) \notin Blocked /\ Ip(s) \in grace)}
  /\ UNCHANGED <<standing, knownClients, grace, pinged, pendReg, obfBound>>

Next ==
  \/ \E s \in Servers :
       \/ s \in Registrants /\ NoteServerRegistration(s)
       \/ ServerListRes(s) \/ MergeServerList(s) \/ VerifiedEnds(s) \/ PingForgotten(s)
  \/ \E s \in Running :
       \/ \E echo, long \in BOOLEAN : PingReply(s, 4, echo, long)
       \/ \E off \in {12, 14} : PingReply(s, off, FALSE, TRUE)
       \/ ProbeAnswered(s) \/ KeyAnswered(s)
  \/ \E s \in SeedServers : HandshakePing(s) \/ HandshakeKeyed(s)
  \/ \E s \in SeedServers \cap Running : HandshakeLegacy(s)
  \/ \E i \in ClientIps : ClientLogin(i) \/ ClientLeaves(i) \/ ClientForgotten(i)
  \/ \E i \in Ips : RegistrationEnds(i) \/ GraceEnds(i)
  \/ Cleanup

Spec == Init /\ [][Next]_vars

(* A server that runs answers a probe again and again. *)
Fairness == \A s \in Running : SF_vars(ProbeAnswered(s))

-----------------------------------------------------------------------------
(* A UDP port says little of the TCP port behind it: an obfuscated answer   *)
(* of t reads as one of s where both are of one host, two to ten ports apart.*)
MayBeTakenFor(t, s) ==
  /\ Ip(t) = Ip(s)
  /\ \E off \in {12, 14}, back \in {12, 14, 4, 8} : Port(s) = Port(t) + off - back

(* Whatever is handed out, to clients, to servers or in server.met, has     *)
(* answered as a server, or another of its host did, obfuscated, from a     *)
(* port it might have answered from.                                        *)
OnlyProvenHandedOut ==
  \A s \in ToClients \cup ToServers \cup ServerMet :
    answered[s] # "never" \/ \E t \in answeredObf : MayBeTakenFor(t, s)

(* Known to be false ("a phantom port on an otherwise-real server's IP can  *)
(* never be advertised to clients"): it is, where MayBeTakenFor lets it.    *)
PhantomsNeverHandedOut == \A s \in ToClients : answered[s] # "never"

(* No connected client's address is listed, in whatever order it registers  *)
(* as a server, is named by others, answers probes and logs in ("keeps the  *)
(* Clients and Peer servers admin tabs disjoint").                          *)
ClientsNotListed == \A s \in list : Ip(s) \notin peerClients

(* A listed server that answers is handed out in the end, unless it leaves  *)
(* the list: none stays listed and unverified for ever ("a second server on *)
(* an already-verified IP still needs its own probe").                      *)
ListedGetsVerified == \A s \in Running : s \in list ~> (s \notin list \/ Vouched(s))

(* What is handed out has answered within VERIFIED_TTL ("a server that      *)
(* stops answering pings stops being advertised").                          *)
AdvertisedAnswers == \A s \in ToClients : answered[s] = "lately"

(* The key held for a server is that server's own, also when several share  *)
(* an address.                                                              *)
KeyOfItsServer == \A s \in Servers : keys[s] \in {Nobody, s}

(* Clients are told of servers that proved themselves, and never of a      *)
(* client as a server.                                                     *)
ListSound == TypeOK /\ OnlyProvenHandedOut /\ ClientsNotListed
=============================================================================
