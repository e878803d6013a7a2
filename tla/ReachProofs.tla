----------------------------- MODULE ReachProofs ------------------------------
(***************************************************************************)
(* Proofs about how clients and servers are reached, a component after the *)
(* other: the address a client's UDP is known at (NatAddress), the IPv6 it *)
(* is published under (Ipv6Probe), the servers that are handed out         *)
(* (PeerServers), hole punches (HolePunch), the sockets that are admitted  *)
(* (Sockets), the id a login is given (LoginId), what it is told           *)
(* (Greeting), the loops of the configured seeds (SeedLoops), and the      *)
(* obfuscated datagrams (UdpChannels).                                     *)
(***************************************************************************)
EXTENDS MCReach, FiniteSetTheorems, TLAPS

-----------------------------------------------------------------------------
(* What the model assumes of its constants. *)
Sized == Places # {} /\ MaxSessions \in Nat /\ MaxSent \in Nat

(* The number of a datagram is the count of those before it: the set is     *)
(* finite.                                                                  *)
AddressInv == Nat9f!TypeOK /\ Nat9f!ProvenAddress /\ IsFiniteSet(net)

-----------------------------------------------------------------------------
(* An instance has its own copy of the library's operators. *)
LEMMA SameCardinality == \A S : Nat9f!Cardinality(S) = Cardinality(S)
BY DEF Nat9f!Cardinality, Cardinality

LEMMA PunchCardinality == \A S : Punch!Cardinality(S) = Cardinality(S)
BY DEF Punch!Cardinality, Cardinality

LEMMA SockCardinality == \A S : Sock!Cardinality(S) = Cardinality(S)
BY DEF Sock!Cardinality, Cardinality

(* Before the first login nothing was learnt. *)
LEMMA AddressInit ==
  ASSUME Sized, Nat9f!Init
  PROVE  AddressInv
<1>1. IsFiniteSet(net) BY FS_EmptySet DEF Nat9f!Init
<1>2. (CHOOSE p \in Places : TRUE) \in Places BY DEF Sized
<1>3. Nat9f!TypeOK BY <1>2 DEF Nat9f!Init, Nat9f!TypeOK, Sized
<1>4. Nat9f!ProvenAddress BY DEF Nat9f!Init, Nat9f!ProvenAddress, Nat9f!NattIp
<1> QED BY <1>1, <1>3, <1>4 DEF AddressInv

(* A login forgets the address of the session before it. *)
LEMMA AddressLogin ==
  ASSUME Sized, AddressInv, NEW a \in Places, Nat9f!Login(a)
  PROVE  AddressInv'
<1>1. Nat9f!TypeOK' BY DEF AddressInv, Sized, Nat9f!TypeOK, Nat9f!Login
<1>2. Nat9f!ProvenAddress' BY DEF Nat9f!Login, Nat9f!ProvenAddress, Nat9f!NattIp
<1> QED BY <1>1, <1>2 DEF AddressInv, Nat9f!Login

(* A logout forgets it too. *)
LEMMA AddressLogout ==
  ASSUME Sized, AddressInv, Nat9f!Logout
  PROVE  AddressInv'
<1>1. Nat9f!TypeOK' BY DEF AddressInv, Sized, Nat9f!TypeOK, Nat9f!Logout
<1>2. Nat9f!ProvenAddress' BY DEF Nat9f!Logout, Nat9f!ProvenAddress, Nat9f!NattIp
<1> QED BY <1>1, <1>2 DEF AddressInv, Nat9f!Logout

(* A datagram sent changes nothing that was learnt. *)
LEMMA AddressSend ==
  ASSUME Sized, AddressInv, NEW a \in Places, NEW proof \in BOOLEAN, NEW obf \in BOOLEAN,
         Nat9f!SendKeepalive(a, proof, obf)
  PROVE  AddressInv'
<1> DEFINE posted == [n |-> Nat9f!Cardinality(net) + 1, from |-> a, sess |-> sess,
                    proof |-> proof, obf |-> obf]
<1>1. net' = net \cup {posted} BY DEF Nat9f!SendKeepalive
<1>2. IsFiniteSet(net') BY <1>1, FS_AddElement DEF AddressInv
<1>3. Nat9f!Cardinality(net) \in Nat BY FS_CardinalityType, SameCardinality DEF AddressInv
<1>4. Nat9f!TypeOK'
  <2>1. sess \in 1 .. MaxSessions BY DEF Nat9f!SendKeepalive, AddressInv, Nat9f!TypeOK, Sized
  <2>2. Nat9f!Cardinality(net) + 1 \in 1 .. MaxSent BY <1>3 DEF Nat9f!SendKeepalive, Sized
  <2>3. net' \subseteq [n : 1 .. MaxSent, from : Places, sess : 1 .. MaxSessions,
                        proof : BOOLEAN, obf : BOOLEAN]
    BY <1>1, <2>1, <2>2 DEF AddressInv, Nat9f!TypeOK
  <2> QED BY <2>3 DEF AddressInv, Nat9f!TypeOK, Nat9f!SendKeepalive, Nat9f!session, Nat9f!learnt
<1>5. Nat9f!ProvenAddress'
  BY <1>1 DEF AddressInv, Nat9f!SendKeepalive, Nat9f!ProvenAddress, Nat9f!NattIp, Nat9f!session, Nat9f!learnt
<1> QED BY <1>2, <1>4, <1>5 DEF AddressInv

(* Another address is taken only with a proof newer than the last. *)
LEMMA AddressReceive ==
  ASSUME Sized, AddressInv, NEW m \in net, Nat9f!ReceiveKeepalive(m)
  PROVE  AddressInv'
<1>1. m \in [n : 1 .. MaxSent, from : Places, sess : 1 .. MaxSessions,
             proof : BOOLEAN, obf : BOOLEAN]
  BY DEF AddressInv, Nat9f!TypeOK
<1>2. Nat9f!TypeOK' BY <1>1 DEF AddressInv, Nat9f!TypeOK, Nat9f!ReceiveKeepalive, Nat9f!session, Sized
<1>3. Nat9f!ProvenAddress'
  <2>1. CASE m.from = place
    BY <2>1 DEF Nat9f!ReceiveKeepalive, Nat9f!ProvenAddress, Nat9f!NattIp, Nat9f!session
  <2>2. CASE m.from # place
    <3>1. m.proof /\ m.sess = sess BY <2>2 DEF Nat9f!ReceiveKeepalive, Nat9f!Accepts, Nat9f!Proven
    <3>2. proofs' = m.n /\ natIp' = m.from BY <2>2, <3>1 DEF Nat9f!ReceiveKeepalive
    <3>3. m \in net' /\ sess' = sess /\ place' = place BY DEF Nat9f!ReceiveKeepalive, Nat9f!session
    <3> QED BY <3>1, <3>2, <3>3 DEF Nat9f!ProvenAddress, Nat9f!NattIp
  <2> QED BY <2>1, <2>2
<1> QED BY <1>2, <1>3 DEF AddressInv, Nat9f!ReceiveKeepalive

(* The port's end leaves the address. *)
LEMMA AddressPortEnds ==
  ASSUME Sized, AddressInv, Nat9f!PortEnds
  PROVE  AddressInv'
BY DEF AddressInv, Nat9f!TypeOK, Nat9f!ProvenAddress, Nat9f!NattIp, Nat9f!PortEnds, Nat9f!session

-----------------------------------------------------------------------------
(* Every step keeps the invariant. *)
LEMMA AddressStep ==
  ASSUME Sized, AddressInv, (Nat9f!Next \/ UNCHANGED Nat9f!vars)
  PROVE  AddressInv'
<1>1. ASSUME NEW a \in Places, Nat9f!Login(a) PROVE AddressInv' BY <1>1, AddressLogin
<1>2. CASE Nat9f!Logout BY <1>2, AddressLogout
<1>3. ASSUME NEW a \in Places, NEW proof \in BOOLEAN, NEW obf \in BOOLEAN,
             Nat9f!SendKeepalive(a, proof, obf)
      PROVE AddressInv'
  BY <1>3, AddressSend
<1>4. ASSUME NEW m \in net, Nat9f!ReceiveKeepalive(m) PROVE AddressInv' BY <1>4, AddressReceive
<1>5. CASE Nat9f!PortEnds BY <1>5, AddressPortEnds
<1>6. CASE UNCHANGED Nat9f!vars
  BY <1>6 DEF AddressInv, Nat9f!TypeOK, Nat9f!ProvenAddress, Nat9f!NattIp, Nat9f!vars, Nat9f!session, Nat9f!learnt
<1> QED BY <1>1, <1>2, <1>3, <1>4, <1>5, <1>6 DEF Nat9f!Next

(* Wherever handle_natt_keepalive's datagrams come from, late, twice or of   *)
(* an earlier session, the address other than its own that peers are told    *)
(* to punch a client at is where its newest proof came from.                 *)
THEOREM AddressesProven ==
  ASSUME Sized
  PROVE  Nat9f!Spec => []ProvenAddress
<1>1. Nat9f!Init => AddressInv BY AddressInit
<1>2. AddressInv /\ (Nat9f!Next \/ UNCHANGED Nat9f!vars) => AddressInv' BY AddressStep
<1>3. AddressInv => ProvenAddress BY DEF AddressInv, ProvenAddress
<1> QED BY <1>1, <1>2, <1>3, PTL DEF Nat9f!Spec

-----------------------------------------------------------------------------
ProbeInv == V6P!TypeOK /\ V6P!PublishedAnswered

ProbeRecords ==
  [addr : Addrs6 \cup {V6P!None6}, verdict : {"none", "ok", "no"}, dials : 0 .. MaxDials]

-----------------------------------------------------------------------------
(* A record marked pending keeps its type, and its verdict when the address  *)
(* is the same.                                                              *)
LEMMA PendingRecord ==
  ASSUME NEW old \in ProbeRecords, NEW a \in Addrs6 \cup {V6P!None6}
  PROVE  /\ V6P!Pending(old, a) \in ProbeRecords
         /\ V6P!Pending(old, a).verdict = "ok" => old.addr = a /\ old.verdict = "ok"
BY DEF V6P!Pending, ProbeRecords

(* start spends a dial of its record at most; one with a verdict it leaves.  *)
LEMMA StartRecord ==
  ASSUME MaxDials \in Nat, V6P!TypeOK, NEW p \in ProbeRecords, NEW n, V6P!Start(p, n)
  PROVE  /\ probe' \in ProbeRecords
         /\ dialing' \in [Addrs6 -> Nat]
         /\ p.verdict = "ok" => probe' = p
<1>1. PICK permit \in BOOLEAN :
        /\ probe' = IF p.verdict = "none" /\ p.dials < MaxDials
                    THEN [p EXCEPT !.dials = @ + 1] ELSE p
        /\ dialing' = IF (p.verdict = "none" /\ p.dials < MaxDials) /\ permit
                      THEN [dialing EXCEPT ![p.addr] = @ + 1] ELSE dialing
  BY DEF V6P!Start
<1>2. probe' \in ProbeRecords BY <1>1 DEF ProbeRecords
<1>3. dialing' \in [Addrs6 -> Nat]
  <2>1. dialing \in [Addrs6 -> Nat] BY DEF V6P!TypeOK
  <2>2. CASE dialing' = dialing BY <2>1, <2>2
  <2>3. CASE dialing' = [dialing EXCEPT ![p.addr] = @ + 1]
    <3>1. /\ DOMAIN dialing' = Addrs6
          /\ \A a \in Addrs6 : dialing'[a] = dialing[a] \/ dialing'[a] = dialing[a] + 1
      BY <2>1, <2>3
    <3>2. \A a \in Addrs6 : dialing'[a] \in Nat BY <2>1, <3>1
    <3>3. dialing' = [a \in Addrs6 |-> dialing'[a]] BY <2>1, <2>3, <3>1
    <3> QED BY <3>2, <3>3
  <2> QED BY <1>1, <2>2, <2>3
<1>4. p.verdict = "ok" => probe' = p BY <1>1
<1> QED BY <1>2, <1>3, <1>4

(* The empty record. *)
LEMMA NoProbeRecord ==
  ASSUME MaxDials \in Nat
  PROVE  V6P!NoProbe \in ProbeRecords
BY DEF V6P!NoProbe, ProbeRecords

-----------------------------------------------------------------------------
(* Nothing is published at the start. *)
LEMMA ProbeInit ==
  ASSUME MaxDials \in Nat, V6P!Init
  PROVE  ProbeInv
<1>1. probe \in ProbeRecords BY NoProbeRecord DEF V6P!Init
<1>2. V6P!TypeOK BY <1>1 DEF V6P!Init, V6P!TypeOK, ProbeRecords
<1>3. V6P!PublishedAnswered BY DEF V6P!Init, V6P!PublishedAnswered
<1> QED BY <1>2, <1>3 DEF ProbeInv

(* A login's address waits for its dial, unless there is no route to dial. *)
LEMMA ProbeLogin ==
  ASSUME MaxDials \in Nat, ProbeInv, NEW a \in Addrs6 \cup {V6P!None6}, V6P!Login(a)
  PROVE  ProbeInv'
<1>1. /\ V6P!NoProbe \in ProbeRecords
      /\ V6P!Pending(V6P!NoProbe, a) \in ProbeRecords
      /\ V6P!Pending(V6P!NoProbe, a).verdict # "ok"
  BY NoProbeRecord, PendingRecord DEF V6P!NoProbe
<1>2. V6P!TypeOK'
  BY <1>1 DEF ProbeInv, V6P!TypeOK, ProbeRecords, V6P!Login, V6P!Takes, V6P!NoDial
<1>3. V6P!PublishedAnswered' BY <1>1 DEF V6P!Login, V6P!Takes, V6P!PublishedAnswered
<1> QED BY <1>2, <1>3 DEF ProbeInv

(* The dial of a welcome may be of an address given up since. *)
LEMMA ProbeWelcomed ==
  ASSUME MaxDials \in Nat, ProbeInv, NEW a \in Addrs6, V6P!Welcomed(a)
  PROVE  ProbeInv'
<1>1. probe \in ProbeRecords BY DEF ProbeInv, V6P!TypeOK, ProbeRecords
<1>2. /\ probe' \in ProbeRecords
      /\ dialing' \in [Addrs6 -> Nat]
      /\ probe.verdict = "ok" => probe' = probe
  <2>1. CASE probe.addr = a BY <1>1, <2>1, StartRecord DEF V6P!Welcomed, ProbeInv
  <2>2. CASE probe.addr # a BY <1>1, <2>2 DEF V6P!Welcomed, V6P!NoDial, ProbeInv, V6P!TypeOK
  <2> QED BY <2>1, <2>2
<1>3. V6P!TypeOK' BY <1>2 DEF ProbeInv, V6P!TypeOK, ProbeRecords, V6P!Welcomed
<1>4. V6P!PublishedAnswered' BY <1>2 DEF ProbeInv, V6P!PublishedAnswered, V6P!Welcomed
<1> QED BY <1>3, <1>4 DEF ProbeInv

(* An update publishes at once only what answered already. *)
LEMMA ProbeUpdate ==
  ASSUME MaxDials \in Nat, ProbeInv, NEW a \in Addrs6 \cup {V6P!None6}, V6P!Ipv6Update(a)
  PROVE  ProbeInv'
<1>1. probe \in ProbeRecords BY DEF ProbeInv, V6P!TypeOK, ProbeRecords
<1>2. /\ V6P!Pending(probe, a) \in ProbeRecords
      /\ V6P!Pending(probe, a).verdict = "ok" => probe.addr = a /\ probe.verdict = "ok"
  BY <1>1, PendingRecord
<1>3. /\ probe' \in ProbeRecords
      /\ dialing' \in [Addrs6 -> Nat]
      /\ (a # V6P!None6 /\ probe.addr = a) => probe' = probe
  <2>1. CASE a = V6P!None6
    BY <2>1, NoProbeRecord DEF V6P!Ipv6Update, V6P!NoDial, ProbeInv, V6P!TypeOK
  <2>2. CASE a # V6P!None6 /\ (~route \/ probe.addr = a)
    BY <1>1, <2>2 DEF V6P!Ipv6Update, V6P!NoDial, ProbeInv, V6P!TypeOK
  <2>3. CASE a # V6P!None6 /\ ~(~route \/ probe.addr = a)
    BY <1>2, <2>3, StartRecord DEF V6P!Ipv6Update, ProbeInv
  <2> QED BY <2>1, <2>2, <2>3
<1>4. V6P!TypeOK' BY <1>3 DEF ProbeInv, V6P!TypeOK, ProbeRecords, V6P!Ipv6Update, V6P!Takes
<1>5. V6P!PublishedAnswered' BY <1>2, <1>3 DEF ProbeInv, V6P!PublishedAnswered, V6P!Ipv6Update, V6P!Takes
<1> QED BY <1>4, <1>5 DEF ProbeInv

(* A logout takes the address down. *)
LEMMA ProbeLogout ==
  ASSUME MaxDials \in Nat, ProbeInv, V6P!Logout
  PROVE  ProbeInv'
<1>1. V6P!TypeOK' BY NoProbeRecord DEF ProbeInv, V6P!TypeOK, ProbeRecords, V6P!Logout
<1>2. V6P!PublishedAnswered' BY DEF V6P!PublishedAnswered, V6P!Logout
<1> QED BY <1>1, <1>2 DEF ProbeInv

(* An answer counts only for the address the session still holds. *)
LEMMA ProbeConclude ==
  ASSUME MaxDials \in Nat, ProbeInv, NEW a \in Addrs6, NEW ok \in BOOLEAN, V6P!Conclude(a, ok)
  PROVE  ProbeInv'
<1>1. probe \in ProbeRecords BY DEF ProbeInv, V6P!TypeOK, ProbeRecords
<1>2. dialing' \in [Addrs6 -> Nat] BY DEF ProbeInv, V6P!TypeOK, V6P!Conclude
<1>3. CASE ~in6
  <2>1. V6P!TypeOK' BY <1>2, <1>3, NoProbeRecord DEF ProbeInv, V6P!TypeOK, ProbeRecords, V6P!Conclude
  <2>2. V6P!PublishedAnswered' BY <1>3 DEF ProbeInv, V6P!PublishedAnswered, V6P!Conclude
  <2> QED BY <2>1, <2>2 DEF ProbeInv
<1>4. CASE in6 /\ (held # a \/ probe.addr # a)
  <2>1. V6P!TypeOK' BY <1>2, <1>4 DEF ProbeInv, V6P!TypeOK, V6P!Conclude
  <2>2. V6P!PublishedAnswered' BY <1>4 DEF ProbeInv, V6P!PublishedAnswered, V6P!Conclude
  <2> QED BY <2>1, <2>2 DEF ProbeInv
<1>5. CASE in6 /\ held = a /\ probe.addr = a
  <2>1. probe' = [probe EXCEPT !.verdict = IF ok THEN "ok" ELSE "no"]
    BY <1>5 DEF V6P!Conclude
  <2>2. probe' \in ProbeRecords BY <1>1, <2>1 DEF ProbeRecords
  <2>3. V6P!TypeOK' BY <1>2, <1>5, <2>2 DEF ProbeInv, V6P!TypeOK, ProbeRecords, V6P!Conclude
  <2>4. V6P!PublishedAnswered' BY <1>1, <1>5, <2>1 DEF V6P!PublishedAnswered, V6P!Conclude, ProbeRecords
  <2> QED BY <2>3, <2>4 DEF ProbeInv
<1> QED BY <1>3, <1>4, <1>5

(* The sweep dials again and publishes nothing. *)
LEMMA ProbeSweep ==
  ASSUME MaxDials \in Nat, ProbeInv, V6P!Sweep
  PROVE  ProbeInv'
<1>1. probe \in ProbeRecords BY DEF ProbeInv, V6P!TypeOK, ProbeRecords
<1>2. /\ probe' \in ProbeRecords
      /\ dialing' \in [Addrs6 -> Nat]
      /\ probe.verdict = "ok" => probe' = probe
  <2>1. CASE V6P!Stalled BY <1>1, <2>1, StartRecord DEF V6P!Sweep, ProbeInv
  <2>2. CASE ~V6P!Stalled BY <1>1, <2>2 DEF V6P!Sweep, V6P!NoDial, ProbeInv, V6P!TypeOK
  <2> QED BY <2>1, <2>2
<1>3. V6P!TypeOK' BY <1>2 DEF ProbeInv, V6P!TypeOK, ProbeRecords, V6P!Sweep
<1>4. V6P!PublishedAnswered' BY <1>2 DEF ProbeInv, V6P!PublishedAnswered, V6P!Sweep
<1> QED BY <1>3, <1>4 DEF ProbeInv

-----------------------------------------------------------------------------
(* Every step keeps the invariant. *)
LEMMA ProbeStep ==
  ASSUME MaxDials \in Nat, ProbeInv, (V6P!Next \/ UNCHANGED V6P!vars)
  PROVE  ProbeInv'
<1>1. ASSUME NEW a \in Addrs6 \cup {V6P!None6}, V6P!Login(a) PROVE ProbeInv' BY <1>1, ProbeLogin
<1>2. ASSUME NEW a \in Addrs6 \cup {V6P!None6}, V6P!Ipv6Update(a) PROVE ProbeInv' BY <1>2, ProbeUpdate
<1>3. CASE V6P!Logout BY <1>3, ProbeLogout
<1>4. ASSUME NEW a \in Addrs6, V6P!Welcomed(a) PROVE ProbeInv' BY <1>4, ProbeWelcomed
<1>5. ASSUME NEW a \in Addrs6, NEW ok \in BOOLEAN, V6P!Conclude(a, ok) PROVE ProbeInv'
  BY <1>5, ProbeConclude
<1>6. CASE V6P!Sweep BY <1>6, ProbeSweep
<1>7. CASE UNCHANGED V6P!vars BY <1>7 DEF ProbeInv, V6P!TypeOK, V6P!PublishedAnswered, V6P!vars
<1> QED BY <1>1, <1>2, <1>3, <1>4, <1>5, <1>6, <1>7 DEF V6P!Next

(* Whatever updates, reconnects and late answers meet, client_ipv6 hands out  *)
(* only the address its session holds, and one taken in while dial-back was   *)
(* in force only after conclude saw it answer for this session.               *)
THEOREM PublishedOnlyAnswered ==
  ASSUME MaxDials \in Nat
  PROVE  V6P!Spec => []PublishedAnswered
<1>1. V6P!Init => ProbeInv BY ProbeInit
<1>2. ProbeInv /\ (V6P!Next \/ UNCHANGED V6P!vars) => ProbeInv' BY ProbeStep
<1>3. ProbeInv => PublishedAnswered BY DEF ProbeInv, PublishedAnswered
<1> QED BY <1>1, <1>2, <1>3, PTL DEF V6P!Spec

-----------------------------------------------------------------------------
(* A server is an address and a port; Nobody is not one.                    *)
PeerBounds ==
  /\ \A s \in Servers : s = <<Peer!Ip(s), Peer!Port(s)>> /\ Peer!Port(s) \in Int
  /\ SeedServers \subseteq Servers /\ Running \subseteq Servers /\ Nobody \notin Servers

AnsweredOnce(s) == answered[s] # "never"
MistakenFor(s) == \E t \in answeredObf : Peer!MayBeTakenFor(t, s)
HostAnswered(s) == \E t \in Servers : Peer!Ip(t) = Peer!Ip(s) /\ AnsweredOnce(t)

PeerTypes == Peer!TypeOK /\ pendReg \in [Peer!Ips -> Servers \cup {Nobody}]

(* Whoever is vouched for is at the address of a server that answered ...   *)
VouchedHost == \A s \in Servers : Peer!Vouched(s) => HostAnswered(s)

(* ... and is that server, or one its obfuscated answer may be taken for.   *)
VouchedProven == \A s \in Servers : Peer!Vouched(s) => AnsweredOnce(s) \/ MistakenFor(s)

PeerInv ==
  PeerTypes /\ Peer!ClientsNotListed /\ VouchedHost /\ VouchedProven

-----------------------------------------------------------------------------
(* The server an answer is taken to be from is one at its sender's address, *)
(* and one the list or the pings know, or the sender.                       *)
LEMMA ReplyHost ==
  ASSUME PeerBounds, NEW s \in Servers, NEW off \in {4, 12, 14}, NEW l \in SUBSET Servers,
         pinged \subseteq Servers
  PROVE  LET t == Peer!ReplyServer(s, Peer!Port(s) + off, off # 4, l)
         IN  /\ t \in Servers /\ Peer!Ip(t) = Peer!Ip(s)
             /\ t = s \/ (off # 4 /\ Peer!MayBeTakenFor(s, t))
<1> DEFINE probed == Peer!Port(s) + off
           offs == <<probed - 12, probed - 14, probed - 4, probed - 8, Peer!Port(s)>>
           candidates == [k \in 1 .. 5 |-> <<Peer!Ip(s), offs[k]>>]
           any(S) == \E k \in 1 .. 5 : candidates[k] \in S
           chosen(S) == CHOOSE k \in 1 .. 5 : /\ candidates[k] \in S
                                              /\ \A j \in 1 .. k - 1 : candidates[j] \notin S
<1>0. Peer!Port(s) \in Int BY DEF PeerBounds
<1>1. Peer!ReplyServer(s, probed, off # 4, l) =
        IF off = 4 THEN <<Peer!Ip(s), probed - 4>>
        ELSE IF any(pinged) THEN candidates[chosen(pinged)]
        ELSE IF any(l) THEN candidates[chosen(l)]
        ELSE s
  BY DEF Peer!ReplyServer
<1>2. ASSUME NEW S, any(S)
      PROVE  chosen(S) \in 1 .. 5 /\ candidates[chosen(S)] \in S
  <2>1. \E k \in 1 .. 5 : /\ candidates[k] \in S
                          /\ \A j \in 1 .. k - 1 : candidates[j] \notin S
    <3> HIDE DEF candidates
    <3>1. PICK m \in 1 .. 5 : candidates[m] \in S BY <1>2
    <3>2. CASE candidates[1] \in S BY <3>2
    <3>3. CASE candidates[1] \notin S /\ candidates[2] \in S BY <3>3
    <3>4. CASE candidates[1] \notin S /\ candidates[2] \notin S /\ candidates[3] \in S BY <3>4
    <3>5. CASE /\ candidates[1] \notin S /\ candidates[2] \notin S /\ candidates[3] \notin S
               /\ candidates[4] \in S
      BY <3>5
    <3>6. CASE /\ candidates[1] \notin S /\ candidates[2] \notin S /\ candidates[3] \notin S
               /\ candidates[4] \notin S
      BY <3>1, <3>6
    <3> QED BY <3>2, <3>3, <3>4, <3>5, <3>6
  <2> HIDE DEF candidates
  <2> QED BY <2>1
<1>3. ASSUME NEW k \in 1 .. 5, off # 4
      PROVE  /\ Peer!Ip(candidates[k]) = Peer!Ip(s)
             /\ k = 5 => candidates[k] = s
             /\ k # 5 => Peer!MayBeTakenFor(s, candidates[k])
  <2>1. /\ Peer!Ip(candidates[k]) = Peer!Ip(s) /\ Peer!Port(candidates[k]) = offs[k]
        /\ candidates[k] = <<Peer!Ip(s), offs[k]>>
    BY DEF Peer!Ip, Peer!Port
  <2>2. off \in {12, 14} BY <1>3
  <2>3. k # 5 => \E back \in {12, 14, 4, 8} : offs[k] = Peer!Port(s) + off - back
    <3>1. k = 1 => offs[k] = Peer!Port(s) + off - 12 BY <1>0, <2>2
    <3>2. k = 2 => offs[k] = Peer!Port(s) + off - 14 BY <1>0, <2>2
    <3>3. k = 3 => offs[k] = Peer!Port(s) + off - 4 BY <1>0, <2>2
    <3>4. k = 4 => offs[k] = Peer!Port(s) + off - 8 BY <1>0, <2>2
    <3> HIDE DEF offs
    <3>5. k \in {1, 2, 3, 4, 5} OBVIOUS
    <3> QED BY <3>1, <3>2, <3>3, <3>4, <3>5
  <2>4. k = 5 => candidates[k] = s BY <2>1 DEF PeerBounds
  <2> HIDE DEF candidates, offs
  <2>5. ASSUME k # 5 PROVE Peer!MayBeTakenFor(s, candidates[k])
    <3>1. PICK back \in {12, 14, 4, 8} : offs[k] = Peer!Port(s) + off - back BY <2>3, <2>5
    <3>2. Peer!Port(candidates[k]) = Peer!Port(s) + off - back BY <2>1, <3>1
    <3> QED BY <2>1, <2>2, <3>2 DEF Peer!MayBeTakenFor
  <2> QED BY <2>1, <2>4, <2>5
<1>4. off = 4 => <<Peer!Ip(s), probed - 4>> = s BY <1>0 DEF PeerBounds
<1> HIDE DEF candidates, chosen
<1>5. CASE off = 4 BY <1>0, <1>1, <1>4, <1>5
<1>6. CASE off # 4 /\ any(pinged) BY <1>1, <1>2, <1>3, <1>6
<1>7. CASE off # 4 /\ ~any(pinged) /\ any(l) BY <1>1, <1>2, <1>3, <1>7
<1>8. CASE off # 4 /\ ~any(pinged) /\ ~any(l) BY <1>0, <1>1, <1>8
<1> QED BY <1>5, <1>6, <1>7, <1>8

(* Answers are not forgotten, so who was vouched for stays so rightly.      *)
LEMMA VouchersKept ==
  ASSUME PeerInv, \A s \in Servers : AnsweredOnce(s) => AnsweredOnce(s)',
         answeredObf \subseteq answeredObf',
         \A s \in Servers :
           Peer!Vouched(s)' =>
             Peer!Vouched(s) \/ (HostAnswered(s)' /\ (AnsweredOnce(s)' \/ MistakenFor(s)'))
  PROVE  VouchedHost' /\ VouchedProven'
<1>1. \A s \in Servers : HostAnswered(s) => HostAnswered(s)' BY DEF HostAnswered
<1>2. \A s \in Servers : MistakenFor(s) => MistakenFor(s)' BY DEF MistakenFor
<1> QED BY <1>1, <1>2 DEF PeerInv, VouchedHost, VouchedProven

(* A step that neither vouches for anyone nor hears an answer.              *)
LEMMA StandingKept ==
  ASSUME PeerInv, UNCHANGED Peer!standing
  PROVE  VouchedHost' /\ VouchedProven'
<1>1. \A s \in Servers : (AnsweredOnce(s) <=> AnsweredOnce(s)') /\ (Peer!Vouched(s) <=> Peer!Vouched(s)')
  BY DEF Peer!standing, AnsweredOnce, Peer!Vouched, Peer!HasKey
<1>2. answeredObf' = answeredObf BY DEF Peer!standing
<1> QED BY <1>1, <1>2, VouchersKept

(* An answer vouches for its sender and for nobody else.                    *)
LEMMA SenderVouched ==
  ASSUME PeerInv, NEW s \in Servers, Peer!HasAnswered(s), UNCHANGED answeredObf,
         \A x \in Servers \ {s} : Peer!Vouched(x)' => Peer!Vouched(x)
  PROVE  VouchedHost' /\ VouchedProven'
<1>1. \A x \in Servers : AnsweredOnce(x) => AnsweredOnce(x)'
  BY DEF PeerInv, PeerTypes, Peer!TypeOK, Peer!HasAnswered, AnsweredOnce
<1>2. AnsweredOnce(s)' BY DEF PeerInv, PeerTypes, Peer!TypeOK, Peer!HasAnswered, AnsweredOnce
<1>3. HostAnswered(s)' BY <1>2 DEF HostAnswered
<1> QED BY <1>1, <1>2, <1>3, VouchersKept

-----------------------------------------------------------------------------
(* Nobody is listed or vouched for at first.                                *)
LEMMA PeersInit ==
  ASSUME PeerBounds, Peer!Init
  PROVE  PeerInv
<1>1. PeerTypes BY DEF Peer!Init, PeerTypes, Peer!TypeOK, PeerBounds
<1>2. Peer!ClientsNotListed BY DEF Peer!Init, Peer!ClientsNotListed
<1>3. \A s \in Servers : ~Peer!Vouched(s) BY DEF Peer!Init, Peer!Vouched, Peer!HasKey
<1> QED BY <1>1, <1>2, <1>3 DEF PeerInv, VouchedHost, VouchedProven

(* A registration is noted, and forgotten.                                  *)
LEMMA PeerRegisters ==
  ASSUME PeerBounds, PeerInv, NEW s \in Servers, Peer!NoteServerRegistration(s)
  PROVE  PeerInv'
<1>1. Peer!Ip(s) \in Peer!Ips BY DEF Peer!Ips
<1>2. PeerTypes'
  BY <1>1 DEF Peer!NoteServerRegistration, PeerInv, PeerTypes, Peer!TypeOK, Peer!listed, Peer!standing, Peer!knownClients
<1>3. Peer!ClientsNotListed'
  BY DEF Peer!NoteServerRegistration, PeerInv, Peer!ClientsNotListed, Peer!listed, Peer!knownClients
<1>4. UNCHANGED Peer!standing BY DEF Peer!NoteServerRegistration
<1> QED BY <1>2, <1>3, <1>4, StandingKept DEF PeerInv

LEMMA PeerRegistrationEnds ==
  ASSUME PeerBounds, PeerInv, NEW i \in Peer!Ips, Peer!RegistrationEnds(i)
  PROVE  PeerInv'
<1>1. PeerTypes'
  BY DEF Peer!RegistrationEnds, PeerInv, PeerTypes, Peer!TypeOK, Peer!listed, Peer!standing, Peer!knownClients
<1>2. Peer!ClientsNotListed' BY DEF Peer!RegistrationEnds, PeerInv, Peer!ClientsNotListed, Peer!listed, Peer!knownClients
<1>3. UNCHANGED Peer!standing BY DEF Peer!RegistrationEnds
<1> QED BY <1>1, <1>2, <1>3, StandingKept DEF PeerInv

(* What AddToList leaves.                                                   *)
LEMMA Added ==
  ASSUME PeerBounds, PeerInv, NEW s \in Servers, NEW room \in BOOLEAN, Peer!AddToList(s, room),
         room => Peer!Ip(s) \notin peerClients
  PROVE  /\ list' \subseteq Servers /\ grace' \subseteq Peer!Ips
         /\ \A x \in list' : Peer!Ip(x) \notin peerClients
<1>1. Peer!Ip(s) \in Peer!Ips BY DEF Peer!Ips
<1> QED BY <1>1 DEF Peer!AddToList, PeerInv, PeerTypes, Peer!TypeOK, Peer!ClientsNotListed, Peer!listed

(* A 0x97: a registration may be confirmed, and the server the answer is    *)
(* taken to be from is vouched for.                                         *)
LEMMA PeerAnswers ==
  ASSUME PeerBounds, PeerInv, NEW s \in Servers, NEW off \in {4, 12, 14},
         NEW echo \in BOOLEAN, NEW long \in BOOLEAN, Peer!PingReply(s, off, echo, long)
  PROVE  PeerInv'
<1>0. PICK t : t = Peer!ReplyServer(s, Peer!Port(s) + off, off # 4, list') OBVIOUS
<1>1. Peer!Ip(s) \in Peer!Ips BY DEF Peer!Ips
<1>2. /\ Peer!HasAnswered(s) /\ Peer!ConfirmServerRegistration(s, echo /\ off = 4)
      /\ verIp' = verIp \cup {Peer!Ip(s)} /\ verSock' = verSock \cup {t}
      /\ keys' = IF long THEN [keys EXCEPT ![t] = s] ELSE keys
      /\ UNCHANGED <<Peer!knownClients, pinged, obfBound>>
  BY <1>0 DEF Peer!PingReply
<1>3. /\ list' \subseteq Servers /\ grace' \subseteq Peer!Ips
      /\ \A x \in list' : Peer!Ip(x) \notin peerClients
      /\ pendReg' \in [Peer!Ips -> Servers \cup {Nobody}]
      /\ \A i \in Peer!Ips : pendReg'[i] # Nobody => Peer!Ip(pendReg'[i]) = i
  <2>1. CASE (echo /\ off = 4) /\ pendReg[Peer!Ip(s)] = s
    <3> DEFINE room == Peer!Ip(s) \notin Peer!Blocked /\ Peer!Cardinality(list) < ListCap
    <3>1. /\ Peer!AddToList(s, room) /\ pendReg' = [pendReg EXCEPT ![Peer!Ip(s)] = Nobody]
      BY <1>2, <2>1 DEF Peer!ConfirmServerRegistration
    <3>2. room => Peer!Ip(s) \notin peerClients BY DEF Peer!Blocked
    <3>3. room \in BOOLEAN OBVIOUS
    <3> HIDE DEF room
    <3>4. /\ list' \subseteq Servers /\ grace' \subseteq Peer!Ips
          /\ \A x \in list' : Peer!Ip(x) \notin peerClients
      BY <3>1, <3>2, <3>3, Added
    <3> QED BY <1>1, <3>1, <3>4 DEF PeerInv, PeerTypes, Peer!TypeOK
  <2>2. CASE ~((echo /\ off = 4) /\ pendReg[Peer!Ip(s)] = s)
    BY <1>2, <2>2 DEF Peer!ConfirmServerRegistration, PeerInv, PeerTypes, Peer!TypeOK, Peer!ClientsNotListed, Peer!listed
  <2> QED BY <2>1, <2>2
<1>4. pinged \subseteq Servers BY DEF PeerInv, PeerTypes, Peer!TypeOK, PeerBounds
<1>5. t \in Servers /\ Peer!Ip(t) = Peer!Ip(s) BY <1>0, <1>3, <1>4, ReplyHost
<1>6. t = s \/ (off # 4 /\ Peer!MayBeTakenFor(s, t)) BY <1>0, <1>3, <1>4, ReplyHost
<1>6a. answeredObf' = IF off = 4 THEN answeredObf ELSE answeredObf \cup {s} BY DEF Peer!PingReply
<1>7. PeerTypes'
  <2>1. answeredObf' \subseteq Servers BY <1>6a DEF PeerInv, PeerTypes, Peer!TypeOK
  <2> QED
    BY <1>1, <1>2, <1>3, <1>5, <2>1 DEF PeerInv, PeerTypes, Peer!TypeOK, Peer!HasAnswered, Peer!knownClients
<1>8. Peer!ClientsNotListed' BY <1>2, <1>3 DEF Peer!ClientsNotListed, Peer!knownClients
<1>9. \A x \in Servers : AnsweredOnce(x) => AnsweredOnce(x)'
  BY <1>2 DEF PeerInv, PeerTypes, Peer!TypeOK, Peer!HasAnswered, AnsweredOnce
<1>10. AnsweredOnce(s)' BY <1>2 DEF PeerInv, PeerTypes, Peer!TypeOK, Peer!HasAnswered, AnsweredOnce
<1>11. HostAnswered(t)' BY <1>5, <1>10 DEF HostAnswered
<1>12. \A x \in Servers : Peer!Vouched(x)' => Peer!Vouched(x) \/ x = t
  BY <1>2 DEF PeerInv, PeerTypes, Peer!TypeOK, Peer!Vouched, Peer!HasKey
<1>14. AnsweredOnce(t)' \/ MistakenFor(t)'
  BY <1>6, <1>10, <1>6a DEF MistakenFor, Peer!MayBeTakenFor, Peer!Ip, Peer!Port
<1> QED BY <1>7, <1>8, <1>9, <1>11, <1>12, <1>6a, <1>14, VouchersKept DEF PeerInv

(* A 0xA1 and the legacy merge take clients out and let none in.            *)
LEMMA PeerNamed ==
  ASSUME PeerBounds, PeerInv, NEW x \in Servers,
         NEW add \in BOOLEAN, add => Peer!Ip(x) \notin Peer!Blocked,
         LET kept == {s \in list : Peer!Ip(s) \notin Peer!Blocked}
         IN  /\ list' = IF add THEN kept \cup {x} ELSE kept
             /\ grace' = IF add THEN grace \cup {Peer!Ip(x)} ELSE grace,
         UNCHANGED <<Peer!standing, Peer!knownClients, pinged, pendReg, obfBound>>
  PROVE  PeerInv'
<1>1. Peer!Ip(x) \in Peer!Ips BY DEF Peer!Ips
<1>2. PeerTypes' BY <1>1 DEF PeerInv, PeerTypes, Peer!TypeOK, Peer!standing, Peer!knownClients
<1>3. Peer!ClientsNotListed' BY DEF PeerInv, Peer!ClientsNotListed, Peer!Blocked, Peer!knownClients
<1> QED BY <1>2, <1>3, StandingKept DEF PeerInv

LEMMA PeerListed ==
  ASSUME PeerBounds, PeerInv, NEW x \in Servers, Peer!ServerListRes(x)
  PROVE  PeerInv'
<1> DEFINE kept == {s \in list : Peer!Ip(s) \notin Peer!Blocked}
<1>1. PICK add \in BOOLEAN :
        add = (Peer!Ip(x) \notin Peer!Blocked /\ x \notin kept /\ Peer!Cardinality(kept) < ListCap)
  OBVIOUS
<1>2. /\ list' = IF add THEN kept \cup {x} ELSE kept
      /\ grace' = IF add THEN grace \cup {Peer!Ip(x)} ELSE grace
      /\ UNCHANGED <<Peer!standing, Peer!knownClients, pinged, pendReg, obfBound>>
  BY <1>1 DEF Peer!ServerListRes
<1> QED BY <1>1, <1>2, PeerNamed

LEMMA PeerMerged ==
  ASSUME PeerBounds, PeerInv, NEW x \in Servers, Peer!MergeServerList(x)
  PROVE  PeerInv'
<1> DEFINE kept == {s \in list : Peer!Ip(s) \notin Peer!Blocked}
<1>1. PICK add \in BOOLEAN : add = (Peer!Ip(x) \notin Peer!Blocked \cup {Me} /\ x \notin list)
  OBVIOUS
<1>2. /\ list' = IF add THEN kept \cup {x} ELSE kept
      /\ grace' = IF add THEN grace \cup {Peer!Ip(x)} ELSE grace
      /\ UNCHANGED <<Peer!standing, Peer!knownClients, pinged, pendReg, obfBound>>
  BY <1>1 DEF Peer!MergeServerList
<1> QED BY <1>1, <1>2, PeerNamed

(* The seeds: a ping, and the two ways a handshake ends.                    *)
LEMMA PeerPinged ==
  ASSUME PeerBounds, PeerInv, NEW seed \in SeedServers, Peer!HandshakePing(seed)
  PROVE  PeerInv'
<1>1. PeerTypes' BY DEF Peer!HandshakePing, PeerInv, PeerTypes, Peer!TypeOK, Peer!listed, Peer!standing, Peer!knownClients
<1>2. Peer!ClientsNotListed' BY DEF Peer!HandshakePing, PeerInv, Peer!ClientsNotListed, Peer!listed, Peer!knownClients
<1>3. UNCHANGED Peer!standing BY DEF Peer!HandshakePing
<1> QED BY <1>1, <1>2, <1>3, StandingKept DEF PeerInv

LEMMA PeerSeedKeyed ==
  ASSUME PeerBounds, PeerInv, NEW seed \in SeedServers, Peer!HandshakeKeyed(seed)
  PROVE  PeerInv'
<1>1. seed \in Servers BY DEF PeerBounds
<1>2. /\ Peer!HasKey(seed) /\ UNCHANGED <<Peer!knownClients, verIp, keys, pinged, pendReg, answered, answeredObf, obfBound>>
      /\ \/ UNCHANGED <<Peer!listed, verSock>>
         \/ Peer!Ip(seed) \notin peerClients /\ Peer!AddToList(seed, TRUE) /\ verSock' = verSock \cup {seed}
  BY DEF Peer!HandshakeKeyed
<1>3. /\ list' \subseteq Servers /\ grace' \subseteq Peer!Ips
      /\ \A x \in list' : Peer!Ip(x) \notin peerClients
      /\ verSock' \subseteq verSock \cup {seed}
  <2>1. CASE UNCHANGED <<Peer!listed, verSock>>
    BY <2>1 DEF Peer!listed, PeerInv, PeerTypes, Peer!TypeOK, Peer!ClientsNotListed
  <2>2. CASE Peer!Ip(seed) \notin peerClients /\ Peer!AddToList(seed, TRUE) /\ verSock' = verSock \cup {seed}
    BY <1>1, <2>2, Added
  <2> QED BY <1>2, <2>1, <2>2
<1>4. PeerTypes' BY <1>1, <1>2, <1>3 DEF PeerInv, PeerTypes, Peer!TypeOK, Peer!knownClients
<1>5. Peer!ClientsNotListed' BY <1>2, <1>3 DEF Peer!ClientsNotListed, Peer!knownClients
<1>6. \A x \in Servers : (AnsweredOnce(x) <=> AnsweredOnce(x)') /\ (Peer!Vouched(x)' => Peer!Vouched(x))
  BY <1>2, <1>3 DEF AnsweredOnce, Peer!Vouched, Peer!HasKey
<1> QED BY <1>2, <1>4, <1>5, <1>6, VouchersKept DEF PeerInv

LEMMA PeerSeedLegacy ==
  ASSUME PeerBounds, PeerInv, NEW seed \in SeedServers, Peer!HandshakeLegacy(seed)
  PROVE  PeerInv'
<1>1. seed \in Servers BY DEF PeerBounds
<1>2. /\ Peer!HasAnswered(seed) /\ keys' = [keys EXCEPT ![seed] = seed]
      /\ Peer!AddToList(seed, Peer!Ip(seed) \notin peerClients)
      /\ UNCHANGED <<Peer!knownClients, verIp, verSock, answeredObf, pinged, pendReg, obfBound>>
  BY DEF Peer!HandshakeLegacy
<1>3. /\ list' \subseteq Servers /\ grace' \subseteq Peer!Ips
      /\ \A x \in list' : Peer!Ip(x) \notin peerClients
  BY <1>1, <1>2, Added
<1>4. PeerTypes' BY <1>1, <1>2, <1>3 DEF PeerInv, PeerTypes, Peer!TypeOK, Peer!HasAnswered, Peer!knownClients
<1>5. Peer!ClientsNotListed' BY <1>2, <1>3 DEF Peer!ClientsNotListed, Peer!knownClients
<1>6. \A x \in Servers \ {seed} : Peer!Vouched(x)' => Peer!Vouched(x)
  BY <1>1, <1>2 DEF PeerInv, PeerTypes, Peer!TypeOK, Peer!Vouched, Peer!HasKey
<1> QED BY <1>1, <1>2, <1>4, <1>5, <1>6, SenderVouched DEF PeerInv

(* The answer to the OBF ping of a listed server.                           *)
LEMMA PeerKeyed ==
  ASSUME PeerBounds, PeerInv, NEW s \in Servers, Peer!KeyAnswered(s)
  PROVE  PeerInv'
<1>1. PeerTypes'
  BY DEF Peer!KeyAnswered, PeerInv, PeerTypes, Peer!TypeOK, Peer!HasAnswered, Peer!listed, Peer!knownClients
<1>2. Peer!ClientsNotListed' BY DEF Peer!KeyAnswered, PeerInv, Peer!ClientsNotListed, Peer!listed, Peer!knownClients
<1>3. \A x \in Servers \ {s} : Peer!Vouched(x)' => Peer!Vouched(x)
  BY DEF Peer!KeyAnswered, PeerInv, PeerTypes, Peer!TypeOK, Peer!Vouched, Peer!HasKey
<1>4. Peer!HasAnswered(s) /\ UNCHANGED answeredObf BY DEF Peer!KeyAnswered
<1> QED BY <1>1, <1>2, <1>3, <1>4, SenderVouched DEF PeerInv

(* Clients come, go and are forgotten.                                      *)
LEMMA PeerClients ==
  ASSUME PeerBounds, PeerInv, NEW i \in ClientIps,
         Peer!ClientLogin(i) \/ Peer!ClientLeaves(i) \/ Peer!ClientForgotten(i)
  PROVE  PeerInv'
<1>1. PeerTypes'
  BY DEF Peer!ClientLogin, Peer!ClientLeaves, Peer!ClientForgotten, PeerInv, PeerTypes, Peer!TypeOK, Peer!listed, Peer!standing
<1>2. Peer!ClientsNotListed'
  BY DEF Peer!ClientLogin, Peer!ClientLeaves, Peer!ClientForgotten, PeerInv, Peer!ClientsNotListed, Peer!listed
<1>3. UNCHANGED Peer!standing BY DEF Peer!ClientLogin, Peer!ClientLeaves, Peer!ClientForgotten
<1> QED BY <1>1, <1>2, <1>3, StandingKept DEF PeerInv

(* What was learnt ends.                                                    *)
LEMMA PeerEnds ==
  ASSUME PeerBounds, PeerInv, NEW s \in Servers, Peer!VerifiedEnds(s)
  PROVE  PeerInv'
<1>1. PeerTypes' BY DEF Peer!VerifiedEnds, PeerInv, PeerTypes, Peer!TypeOK, Peer!listed, Peer!knownClients
<1>2. Peer!ClientsNotListed' BY DEF Peer!VerifiedEnds, PeerInv, Peer!ClientsNotListed, Peer!listed, Peer!knownClients
<1>3. \A x \in Servers : (AnsweredOnce(x) => AnsweredOnce(x)') /\ (Peer!Vouched(x)' => Peer!Vouched(x))
  BY DEF Peer!VerifiedEnds, PeerInv, PeerTypes, Peer!TypeOK, AnsweredOnce, Peer!Vouched, Peer!HasKey
<1>4. UNCHANGED answeredObf BY DEF Peer!VerifiedEnds
<1> QED BY <1>1, <1>2, <1>3, <1>4, VouchersKept DEF PeerInv

LEMMA PeerForgets ==
  ASSUME PeerBounds, PeerInv,
         \/ \E s \in Servers : Peer!PingForgotten(s)
         \/ \E i \in Peer!Ips : Peer!GraceEnds(i)
         \/ Peer!Cleanup
  PROVE  PeerInv'
<1>1. PeerTypes'
  BY DEF Peer!PingForgotten, Peer!GraceEnds, Peer!Cleanup, PeerInv, PeerTypes, Peer!TypeOK, Peer!listed, Peer!standing, Peer!knownClients
<1>2. Peer!ClientsNotListed'
  BY DEF Peer!PingForgotten, Peer!GraceEnds, Peer!Cleanup, PeerInv, Peer!ClientsNotListed, Peer!listed, Peer!knownClients
<1>3. UNCHANGED Peer!standing BY DEF Peer!PingForgotten, Peer!GraceEnds, Peer!Cleanup
<1> QED BY <1>1, <1>2, <1>3, StandingKept DEF PeerInv

-----------------------------------------------------------------------------
(* Every step keeps the invariant.                                          *)
LEMMA PeersStep ==
  ASSUME PeerBounds, PeerInv, (Peer!Next \/ UNCHANGED Peer!vars)
  PROVE  PeerInv'
<1>1. ASSUME NEW s \in Servers, Peer!NoteServerRegistration(s) PROVE PeerInv' BY <1>1, PeerRegisters
<1>2. ASSUME NEW s \in Running, NEW echo \in BOOLEAN, NEW long \in BOOLEAN, Peer!PingReply(s, 4, echo, long)
      PROVE  PeerInv'
  BY <1>2, PeerAnswers DEF PeerBounds
<1>3. ASSUME NEW s \in Running, NEW off \in {12, 14}, Peer!PingReply(s, off, FALSE, TRUE)
      PROVE  PeerInv'
  BY <1>3, PeerAnswers DEF PeerBounds
<1>4. ASSUME NEW s \in Running, Peer!ProbeAnswered(s) PROVE PeerInv'
  BY <1>4, PeerAnswers DEF Peer!ProbeAnswered, PeerBounds
<1>5. ASSUME NEW s \in Running, Peer!KeyAnswered(s) PROVE PeerInv' BY <1>5, PeerKeyed DEF PeerBounds
<1>6. ASSUME NEW s \in Servers, Peer!ServerListRes(s) PROVE PeerInv' BY <1>6, PeerListed
<1>7. ASSUME NEW s \in Servers, Peer!MergeServerList(s) PROVE PeerInv' BY <1>7, PeerMerged
<1>8. ASSUME NEW s \in Servers, Peer!VerifiedEnds(s) PROVE PeerInv' BY <1>8, PeerEnds
<1>9. ASSUME NEW s \in SeedServers, Peer!HandshakePing(s) PROVE PeerInv' BY <1>9, PeerPinged
<1>10. ASSUME NEW s \in SeedServers, Peer!HandshakeKeyed(s) PROVE PeerInv' BY <1>10, PeerSeedKeyed
<1>11. ASSUME NEW s \in SeedServers \cap Running, Peer!HandshakeLegacy(s) PROVE PeerInv' BY <1>11, PeerSeedLegacy
<1>12. ASSUME NEW i \in ClientIps, Peer!ClientLogin(i) \/ Peer!ClientLeaves(i) \/ Peer!ClientForgotten(i)
       PROVE  PeerInv'
  BY <1>12, PeerClients
<1>13. ASSUME NEW i \in Peer!Ips, Peer!RegistrationEnds(i) PROVE PeerInv' BY <1>13, PeerRegistrationEnds
<1>14. CASE \/ \E s \in Servers : Peer!PingForgotten(s)
            \/ \E i \in Peer!Ips : Peer!GraceEnds(i)
            \/ Peer!Cleanup
  BY <1>14, PeerForgets
<1>15. CASE UNCHANGED Peer!vars
  <2>1. PeerTypes' BY <1>15 DEF Peer!vars, PeerInv, PeerTypes, Peer!TypeOK, Peer!listed, Peer!standing, Peer!knownClients
  <2>2. Peer!ClientsNotListed' BY <1>15 DEF Peer!vars, PeerInv, Peer!ClientsNotListed, Peer!listed, Peer!knownClients
  <2>3. UNCHANGED Peer!standing BY <1>15 DEF Peer!vars
  <2> QED BY <2>1, <2>2, <2>3, StandingKept DEF PeerInv
<1> QED
  BY <1>1, <1>2, <1>3, <1>4, <1>5, <1>6, <1>7, <1>8, <1>9, <1>10, <1>11, <1>12, <1>13, <1>14, <1>15
  DEF Peer!Next

(* Whoever is handed out is vouched for.                                    *)
LEMMA HandedOutVouched ==
  ASSUME PeerInv, NEW s \in Peer!ToClients \cup Peer!ToServers \cup Peer!ServerMet
  PROVE  s \in Servers /\ Peer!Vouched(s)
BY DEF Peer!ToClients, Peer!ToServers, Peer!ServerMet, Peer!Vouched, PeerInv, PeerTypes, Peer!TypeOK

(* Whatever is handed out, by whichever way it came into the list, is at an  *)
(* address where some server answered, and no connected client's address is *)
(* listed.                                                                  *)
THEOREM HandedOutAnswered ==
  ASSUME PeerBounds
  PROVE  Peer!Spec =>
           [](/\ Peer!ClientsNotListed
              /\ \A s \in Peer!ToClients \cup Peer!ToServers \cup Peer!ServerMet : HostAnswered(s))
<1>1. Peer!Init => PeerInv BY PeersInit
<1>2. PeerInv /\ (Peer!Next \/ UNCHANGED Peer!vars) => PeerInv' BY PeersStep
<1>3. PeerInv => /\ Peer!ClientsNotListed
                 /\ \A s \in Peer!ToClients \cup Peer!ToServers \cup Peer!ServerMet : HostAnswered(s)
  BY HandedOutVouched DEF PeerInv, VouchedHost
<1> QED BY <1>1, <1>2, <1>3, PTL DEF Peer!Spec

(* However it came into the list, a server handed out has itself answered,   *)
(* or one of its host has, obfuscated, from a port that pick_reply_server_port *)
(* may take for its own: nothing else lets a phantom port through.            *)
THEOREM ListAlwaysSound ==
  ASSUME PeerBounds
  PROVE  Peer!Spec => []ListSound
<1>1. Peer!Init => PeerInv BY PeersInit
<1>2. PeerInv /\ (Peer!Next \/ UNCHANGED Peer!vars) => PeerInv' BY PeersStep
<1>3. PeerInv => ListSound
  BY HandedOutVouched
  DEF PeerInv, VouchedProven, AnsweredOnce, MistakenFor, PeerTypes, ListSound, Peer!ListSound, Peer!OnlyProvenHandedOut
<1> QED BY <1>1, <1>2, <1>3, PTL DEF Peer!Spec

-----------------------------------------------------------------------------
(* What the constants are: the clients that ask are clients of this server. *)
PunchBounds ==
  /\ Askers \subseteq Peers
  /\ MaxLogins \in Nat /\ MaxRetryTasks \in Nat /\ WakesPerMin \in Nat

(* A LowID is one session's, and none is ahead of the logins. *)
OneSession ==
  /\ \A p \in Peers : online[p] <= logins
  /\ \A p \in Peers, q \in Peers : online[p] = online[q] /\ online[p] # 0 => p = q

PunchInv == Punch!TypeOK /\ IsFiniteSet(coords) /\ OneSession /\ Punch!WaitersListed

(* What a step does to the tasks and the waiters. *)
TasksSound(C) ==
  C \subseteq Punch!Task /\ IsFiniteSet(C) /\ Cardinality(C) <= MaxRetryTasks

-----------------------------------------------------------------------------
(* A task joins the others when there is room. *)
LEMMA AddTask ==
  ASSUME PunchBounds, TasksSound(coords), Punch!Room, NEW c \in Punch!Task
  PROVE  TasksSound(coords \cup {c})
<1>1. IsFiniteSet(coords) BY DEF TasksSound
<1>2. /\ IsFiniteSet(coords \cup {c})
      /\ Cardinality(coords \cup {c}) =
           IF c \in coords THEN Cardinality(coords) ELSE Cardinality(coords) + 1
  BY <1>1, FS_AddElement
<1>3. Cardinality(coords) \in Nat BY <1>1, FS_CardinalityType
<1>4. Cardinality(coords \cup {c}) <= MaxRetryTasks
  BY <1>2, <1>3, PunchCardinality DEF Punch!Room, PunchBounds
<1> QED BY <1>2, <1>4 DEF TasksSound

(* A task ends. *)
LEMMA EndTask ==
  ASSUME PunchBounds, TasksSound(coords), NEW c \in coords
  PROVE  TasksSound(coords \ {c})
<1>1. IsFiniteSet(coords) BY DEF TasksSound
<1>2. /\ IsFiniteSet(coords \ {c})
      /\ Cardinality(coords \ {c}) = Cardinality(coords) - 1
  BY <1>1, FS_RemoveElement
<1>3. Cardinality(coords) \in Nat BY <1>1, FS_CardinalityType
<1> QED BY <1>2, <1>3 DEF TasksSound, PunchBounds

(* A task goes on to its next step, which is not a wait. *)
LEMMA StepTask ==
  ASSUME PunchBounds, TasksSound(coords), NEW c \in coords
  PROVE  /\ TasksSound(Punch!NextStep(c))
         /\ \A d \in Punch!NextStep(c) : d.step = "wait" => d \in coords
<1>1. CASE c.step = "resend2" BY <1>1, EndTask DEF Punch!NextStep
<1>2. CASE c.step # "resend2"
  <2> DEFINE n == [c EXCEPT !.step = IF @ = "resend1" THEN "resend2" ELSE "resend1"]
  <2>1. c \in Punch!Task BY DEF TasksSound
  <2>2. n \in Punch!Task /\ n.step # "wait" BY <2>1 DEF Punch!Task
  <2>3. Punch!NextStep(c) = (coords \ {c}) \cup {n} BY <1>2 DEF Punch!NextStep
  <2> HIDE DEF n
  <2>4. IsFiniteSet(coords) BY DEF TasksSound
  <2>5. /\ IsFiniteSet(coords \ {c})
        /\ Cardinality(coords \ {c}) = Cardinality(coords) - 1
    BY <2>4, FS_RemoveElement
  <2>6. /\ IsFiniteSet((coords \ {c}) \cup {n})
        /\ Cardinality((coords \ {c}) \cup {n}) =
             IF n \in coords \ {c} THEN Cardinality(coords \ {c})
             ELSE Cardinality(coords \ {c}) + 1
    BY <2>5, FS_AddElement
  <2>7. Cardinality(coords) \in Nat BY <2>4, FS_CardinalityType
  <2>8. Cardinality((coords \ {c}) \cup {n}) <= MaxRetryTasks
    BY <2>5, <2>6, <2>7 DEF TasksSound, PunchBounds
  <2>9. TasksSound(Punch!NextStep(c)) BY <2>2, <2>3, <2>6, <2>8 DEF TasksSound
  <2> QED BY <2>2, <2>3, <2>9
<1> QED BY <1>1, <1>2

-----------------------------------------------------------------------------
(* Nothing coordinates at the start. *)
LEMMA PunchInit ==
  ASSUME PunchBounds, Punch!Init
  PROVE  PunchInv
<1>1. IsFiniteSet(coords) /\ Cardinality(coords) = 0 BY FS_EmptySet DEF Punch!Init
<1>2. Punch!TypeOK BY <1>1, PunchCardinality DEF Punch!Init, Punch!TypeOK, PunchBounds
<1>3. OneSession BY DEF Punch!Init, OneSession
<1>4. Punch!WaitersListed BY DEF Punch!Init, Punch!WaitersListed
<1> QED BY <1>1, <1>2, <1>3, <1>4 DEF PunchInv

(* A client that comes or goes takes its own requests along, and no task. *)
LEMMA ForgetType ==
  ASSUME Punch!TypeOK, NEW p \in Peers, Punch!Forget(p)
  PROVE  asked' \in [Askers \X Punch!Ids -> {"no", "owed", "info", "fail"}]
BY DEF Punch!TypeOK, Punch!Forget

LEMMA PunchLogin ==
  ASSUME PunchBounds, PunchInv, NEW p \in Peers, Punch!Login(p)
  PROVE  PunchInv'
<1>1. /\ online' \in [Peers -> 0 .. MaxLogins] /\ logins' \in 0 .. MaxLogins
      /\ hasUdp' \in [Peers -> BOOLEAN] /\ elsewhere' \in [Peers -> BOOLEAN]
  BY DEF Punch!Login, PunchInv, Punch!TypeOK, PunchBounds
<1>2. asked' \in [Askers \X Punch!Ids -> {"no", "owed", "info", "fail"}]
  BY ForgetType DEF Punch!Login, PunchInv
<1>3. Punch!TypeOK' BY <1>1, <1>2 DEF Punch!Login, PunchInv, Punch!TypeOK
<1>4. OneSession'
  BY <1>1 DEF Punch!Login, PunchInv, Punch!TypeOK, OneSession, PunchBounds
<1>5. Punch!WaitersListed' BY DEF Punch!Login, PunchInv, Punch!WaitersListed
<1> QED BY <1>3, <1>4, <1>5 DEF PunchInv, Punch!Login

LEMMA PunchLogout ==
  ASSUME PunchBounds, PunchInv, NEW p \in Peers, Punch!Logout(p)
  PROVE  PunchInv'
<1>1. /\ online' \in [Peers -> 0 .. MaxLogins] /\ elsewhere' \in [Peers -> BOOLEAN]
  BY DEF Punch!Logout, PunchInv, Punch!TypeOK, PunchBounds
<1>2. asked' \in [Askers \X Punch!Ids -> {"no", "owed", "info", "fail"}]
  BY ForgetType DEF Punch!Logout, PunchInv
<1>3. Punch!TypeOK' BY <1>1, <1>2 DEF Punch!Logout, PunchInv, Punch!TypeOK
<1>4. OneSession'
  BY <1>1 DEF Punch!Logout, PunchInv, Punch!TypeOK, OneSession, PunchBounds
<1>5. Punch!WaitersListed' BY DEF Punch!Logout, PunchInv, Punch!WaitersListed
<1> QED BY <1>3, <1>4, <1>5 DEF PunchInv, Punch!Logout

(* A 0x9F takes the waiters of its sender, and every task they stood for. *)
LEMMA PunchKeepalive ==
  ASSUME PunchBounds, PunchInv, NEW p \in Peers, Punch!Keepalive(p)
  PROVE  PunchInv'
<1> DEFINE Freed(c) == IF c.t = p /\ c.step = "wait" /\ <<c.r, c.tid>> \in waiters[p]
                       THEN [c EXCEPT !.step = "fired"] ELSE c
           f == [c \in coords |-> Freed(c)]
<1>1. coords' = {Freed(c) : c \in coords} BY DEF Punch!Keepalive
<1>2. coords \subseteq Punch!Task /\ IsFiniteSet(coords) /\ Cardinality(coords) <= MaxRetryTasks
  BY PunchCardinality DEF PunchInv, Punch!TypeOK
<1>3. \A c \in coords : Freed(c) \in Punch!Task BY <1>2 DEF Punch!Task
<1>4. f \in Surjection(coords, coords')
  <2>1. f \in [coords -> coords'] BY <1>1
  <2>2. \A d \in coords' : \E c \in coords : f[c] = d BY <1>1
  <2> QED BY <2>1, <2>2 DEF Surjection
<1>5. IsFiniteSet(coords') /\ Cardinality(coords') <= Cardinality(coords)
  <2> HIDE DEF f
  <2> QED BY <1>2, <1>4, FS_Surjection
<1>6. Cardinality(coords) \in Nat /\ Cardinality(coords') \in Nat
  BY <1>2, <1>5, FS_CardinalityType
<1>7. TasksSound(coords')
  <2> HIDE DEF Freed, f
  <2>1. coords' \subseteq Punch!Task BY <1>1, <1>3
  <2>2. Cardinality(coords') <= MaxRetryTasks BY <1>2, <1>5, <1>6 DEF PunchBounds
  <2> QED BY <1>5, <2>1, <2>2 DEF TasksSound
<1>8. /\ hasUdp' \in [Peers -> BOOLEAN] /\ elsewhere' \in [Peers -> BOOLEAN]
      /\ waiters' \in [Peers -> SUBSET (Punch!Requesters \X Punch!Ids)]
      /\ UNCHANGED <<online, logins, asked, wakes>>
  BY DEF Punch!Keepalive, PunchInv, Punch!TypeOK
<1>9. Punch!TypeOK' BY <1>7, <1>8, PunchCardinality DEF PunchInv, Punch!TypeOK, TasksSound
<1>10. OneSession' BY <1>8 DEF PunchInv, OneSession
<1>11. Punch!WaitersListed'
  <2> SUFFICES ASSUME NEW d \in coords', d.step = "wait"
               PROVE  <<d.r, d.tid>> \in waiters'[d.t]
    BY DEF Punch!WaitersListed
  <2>1. PICK c \in coords : d = Freed(c) BY <1>1
  <2>2. c \in Punch!Task BY <1>2
  <2>3. ~(c.t = p /\ c.step = "wait" /\ <<c.r, c.tid>> \in waiters[p]) /\ d = c
    BY <2>1, <2>2 DEF Punch!Task
  <2>4. <<c.r, c.tid>> \in waiters[c.t] BY <2>3 DEF PunchInv, Punch!WaitersListed
  <2>5. c.t \in Peers /\ c.t # p BY <2>2, <2>3, <2>4 DEF Punch!Task
  <2> QED BY <2>3, <2>4, <2>5 DEF Punch!Keepalive, PunchInv, Punch!TypeOK
<1> QED BY <1>7, <1>9, <1>10, <1>11 DEF PunchInv, TasksSound


-----------------------------------------------------------------------------
(* A request names at most one client, as a LowID is one session's. *)
LEMMA OneTarget ==
  ASSUME PunchInv, NEW tid \in Punch!Ids, NEW t \in Punch!ById(tid), NEW u \in Punch!ById(tid)
  PROVE  t = u
BY DEF Punch!ById, Punch!Ids, PunchInv, OneSession

(* A task made for a requester and a target that is online is well formed. *)
LEMMA StartedTask ==
  ASSUME PunchBounds, PunchInv, NEW r \in Punch!Requesters, NEW t \in Peers, online[t] # 0,
         NEW first \in {"wait", "resend1"}
  PROVE  /\ Punch!Started(r, t, first) \in Punch!Task
         /\ Punch!Started(r, t, first).step = first
         /\ Punch!Started(r, t, first).r = r /\ Punch!Started(r, t, first).t = t
         /\ Punch!Started(r, t, first).tid = online[t]
<1>1. online[t] \in Punch!Ids BY DEF PunchInv, Punch!TypeOK, Punch!Ids, PunchBounds
<1>2. (IF r \in Askers THEN online[r] ELSE 0) \in 0 .. MaxLogins
  BY DEF PunchInv, Punch!TypeOK, PunchBounds
<1> QED BY <1>1, <1>2 DEF Punch!Started, Punch!Task

(* start_extension lists the wait with its target and keeps the ceiling. *)
LEMMA PunchWait ==
  ASSUME PunchBounds, PunchInv, NEW r \in Punch!Requesters, NEW t \in Peers, online[t] # 0,
         Punch!Room, Punch!Wait(r, t)
  PROVE  /\ TasksSound(coords')
         /\ waiters' \in [Peers -> SUBSET (Punch!Requesters \X Punch!Ids)]
         /\ Punch!WaitersListed'
<1> DEFINE c == Punch!Started(r, t, "wait")
<1>1. /\ c \in Punch!Task /\ c.r = r /\ c.t = t /\ c.tid = online[t]
  BY StartedTask
<1>2. /\ coords' = coords \cup {c}
      /\ waiters' = [waiters EXCEPT ![t] = @ \cup {<<r, online[t]>>}]
  BY DEF Punch!Wait
<1> HIDE DEF c
<1>3. TasksSound(coords) BY PunchCardinality DEF PunchInv, Punch!TypeOK, TasksSound
<1>4. TasksSound(coords') BY <1>1, <1>2, <1>3, AddTask
<1>5. online[t] \in Punch!Ids BY DEF PunchInv, Punch!TypeOK, Punch!Ids, PunchBounds
<1>6. waiters' \in [Peers -> SUBSET (Punch!Requesters \X Punch!Ids)]
  BY <1>2, <1>5 DEF PunchInv, Punch!TypeOK
<1>7. Punch!WaitersListed'
  <2> SUFFICES ASSUME NEW d \in coords', d.step = "wait"
               PROVE  <<d.r, d.tid>> \in waiters'[d.t]
    BY DEF Punch!WaitersListed
  <2>1. CASE d \in coords
    <3>1. d.t \in Peers /\ <<d.r, d.tid>> \in waiters[d.t]
      BY <2>1, <1>3 DEF PunchInv, Punch!WaitersListed, TasksSound, Punch!Task
    <3> QED BY <3>1, <1>2 DEF PunchInv, Punch!TypeOK
  <2>2. CASE d = c BY <2>2, <1>1, <1>2 DEF PunchInv, Punch!TypeOK
  <2> QED BY <1>2, <2>1, <2>2
<1> QED BY <1>4, <1>6, <1>7

LEMMA PunchRequestExt ==
  ASSUME PunchBounds, PunchInv, NEW r \in Askers, NEW tid \in Punch!Ids, Punch!RequestExt(r, tid)
  PROVE  PunchInv'
<1>1. PICK t \in Punch!ById(tid) :
        \/ UNCHANGED <<coords, waiters>>
        \/ Punch!Room /\ Punch!Wait(r, t)
  BY DEF Punch!RequestExt
<1>2. t \in Peers /\ online[t] # 0 /\ r \in Punch!Requesters BY DEF Punch!ById, Punch!Ids, Punch!Requesters
<1>3. /\ TasksSound(coords')
      /\ waiters' \in [Peers -> SUBSET (Punch!Requesters \X Punch!Ids)]
      /\ Punch!WaitersListed'
  <2>1. CASE UNCHANGED <<coords, waiters>>
    BY <2>1, PunchCardinality DEF PunchInv, Punch!TypeOK, TasksSound, Punch!WaitersListed
  <2>2. CASE Punch!Room /\ Punch!Wait(r, t) BY <2>2, <1>2, PunchWait
  <2> QED BY <1>1, <2>1, <2>2
<1>4. /\ asked' \in [Askers \X Punch!Ids -> {"no", "owed", "info", "fail"}]
      /\ hasUdp' \in [Peers -> BOOLEAN]
      /\ UNCHANGED <<online, logins, elsewhere, wakes>>
  BY DEF Punch!RequestExt, PunchInv, Punch!TypeOK
<1>5. Punch!TypeOK' BY <1>3, <1>4, PunchCardinality DEF PunchInv, Punch!TypeOK, TasksSound
<1>6. OneSession' BY <1>4 DEF PunchInv, OneSession
<1> QED BY <1>3, <1>5, <1>6 DEF PunchInv, TasksSound

(* A plain request adds no task that waits, and one task at most. *)
LEMMA PunchRequestPlain ==
  ASSUME PunchBounds, PunchInv, NEW r \in Askers, NEW tid \in Punch!Ids, Punch!RequestPlain(r, tid)
  PROVE  PunchInv'
<1> DEFINE N == {Punch!Started(r, t, "resend1") : t \in Punch!ById(tid)}
<1>1. \A d \in N : d \in Punch!Task /\ d.step = "resend1"
  BY StartedTask DEF Punch!ById, Punch!Ids, Punch!Requesters
<1>2. coords' = coords \/ (Punch!Room /\ coords' = coords \cup N) BY DEF Punch!RequestPlain
<1>3. N = {} \/ \E d \in N : N = {d} BY OneTarget
<1> HIDE DEF N
<1>4. TasksSound(coords) BY PunchCardinality DEF PunchInv, Punch!TypeOK, TasksSound
<1>5. TasksSound(coords')
  <2>1. CASE coords' = coords BY <1>4, <2>1
  <2>2. CASE Punch!Room /\ coords' = coords \cup N
    <3>1. CASE N = {} BY <1>4, <2>2, <3>1
    <3>2. CASE \E d \in N : N = {d} BY <1>1, <1>4, <2>2, <3>2, AddTask
    <3> QED BY <1>3, <3>1, <3>2
  <2> QED BY <1>2, <2>1, <2>2
<1>6. /\ asked' \in [Askers \X Punch!Ids -> {"no", "owed", "info", "fail"}]
      /\ hasUdp' \in [Peers -> BOOLEAN]
      /\ UNCHANGED <<online, logins, elsewhere, waiters, wakes>>
  BY DEF Punch!RequestPlain, Punch!Answered, PunchInv, Punch!TypeOK
<1>7. Punch!TypeOK' BY <1>5, <1>6, PunchCardinality DEF PunchInv, Punch!TypeOK, TasksSound
<1>8. OneSession' BY <1>6 DEF PunchInv, OneSession
<1>9. Punch!WaitersListed'
  <2>1. \A d \in coords' : d.step = "wait" => d \in coords BY <1>1, <1>2
  <2> QED BY <2>1, <1>6 DEF PunchInv, Punch!WaitersListed
<1> QED BY <1>5, <1>7, <1>8, <1>9 DEF PunchInv, TasksSound

-----------------------------------------------------------------------------
(* A coordination's step: its task goes on or ends, its request is answered. *)
LEMMA PunchCoordinate ==
  ASSUME PunchBounds, PunchInv, NEW c \in coords, Punch!Coordinate(c)
  PROVE  PunchInv'
<1>1. TasksSound(coords) /\ c \in Punch!Task BY PunchCardinality DEF PunchInv, Punch!TypeOK, TasksSound
<1>2. /\ TasksSound(coords')
      /\ \A d \in coords' : d.step = "wait" => d \in coords
  BY <1>1, EndTask, StepTask DEF Punch!Coordinate
<1>3. /\ asked' \in [Askers \X Punch!Ids -> {"no", "owed", "info", "fail"}]
      /\ UNCHANGED <<Punch!clients, waiters, wakes>>
  BY DEF Punch!Coordinate, Punch!Answered, PunchInv, Punch!TypeOK
<1>4. Punch!TypeOK' BY <1>2, <1>3, PunchCardinality DEF PunchInv, Punch!TypeOK, TasksSound, Punch!clients
<1>5. OneSession' BY <1>3 DEF PunchInv, OneSession, Punch!clients
<1>6. Punch!WaitersListed' BY <1>2, <1>3 DEF PunchInv, Punch!WaitersListed
<1> QED BY <1>2, <1>4, <1>5, <1>6 DEF PunchInv, TasksSound

LEMMA PunchForeignAnswer ==
  ASSUME PunchBounds, PunchInv, NEW c \in coords, Punch!ForeignAnswer(c)
  PROVE  PunchInv'
<1>1. TasksSound(coords) BY PunchCardinality DEF PunchInv, Punch!TypeOK, TasksSound
<1>2. /\ TasksSound(coords')
      /\ \A d \in coords' : d.step = "wait" => d \in coords
  BY <1>1, EndTask, StepTask DEF Punch!ForeignAnswer
<1>3. UNCHANGED <<Punch!clients, waiters, asked, wakes>> BY DEF Punch!ForeignAnswer
<1>4. Punch!TypeOK' BY <1>2, <1>3, PunchCardinality DEF PunchInv, Punch!TypeOK, TasksSound, Punch!clients
<1>5. OneSession' BY <1>3 DEF PunchInv, OneSession, Punch!clients
<1>6. Punch!WaitersListed' BY <1>2, <1>3 DEF PunchInv, Punch!WaitersListed
<1> QED BY <1>2, <1>4, <1>5, <1>6 DEF PunchInv, TasksSound

(* A request from another server spends one of the target's wakes. *)
LEMMA PunchForeignRequest ==
  ASSUME PunchBounds, PunchInv, NEW f \in Foreign, NEW t \in Peers, Punch!ForeignRequest(f, t)
  PROVE  PunchInv'
<1>1. f \in Punch!Requesters /\ online[t] # 0 BY DEF Punch!Requesters, Punch!ForeignRequest
<1>2. /\ TasksSound(coords')
      /\ waiters' \in [Peers -> SUBSET (Punch!Requesters \X Punch!Ids)]
      /\ Punch!WaitersListed'
  <2>1. CASE UNCHANGED <<coords, waiters>>
    BY <2>1, PunchCardinality DEF PunchInv, Punch!TypeOK, TasksSound, Punch!WaitersListed
  <2>2. CASE Punch!Room /\ Punch!Wait(f, t) BY <2>2, <1>1, PunchWait
  <2> QED BY <2>1, <2>2 DEF Punch!ForeignRequest
<1>3. wakes' \in [Peers -> 0 .. WakesPerMin]
  BY DEF Punch!ForeignRequest, PunchInv, Punch!TypeOK, PunchBounds
<1>4. UNCHANGED <<Punch!clients, asked>> BY DEF Punch!ForeignRequest
<1>5. Punch!TypeOK' BY <1>2, <1>3, <1>4, PunchCardinality DEF PunchInv, Punch!TypeOK, TasksSound, Punch!clients
<1>6. OneSession' BY <1>4 DEF PunchInv, OneSession, Punch!clients
<1> QED BY <1>2, <1>5, <1>6 DEF PunchInv, TasksSound

(* The minute sweep keeps every waiter whose task still waits. *)
LEMMA PunchSweep ==
  ASSUME PunchBounds, PunchInv, Punch!Sweep
  PROVE  PunchInv'
<1>1. UNCHANGED <<Punch!clients, coords, asked>> BY DEF Punch!Sweep
<1>2. waiters' \in [Peers -> SUBSET (Punch!Requesters \X Punch!Ids)]
  BY DEF Punch!Sweep, Punch!OpenWaiters, PunchInv, Punch!TypeOK
<1>3. wakes' \in [Peers -> 0 .. WakesPerMin] BY DEF Punch!Sweep, PunchBounds
<1>4. Punch!TypeOK' BY <1>1, <1>2, <1>3 DEF PunchInv, Punch!TypeOK, Punch!clients
<1>5. OneSession' BY <1>1 DEF PunchInv, OneSession, Punch!clients
<1>6. Punch!WaitersListed'
  <2> SUFFICES ASSUME NEW d \in coords, d.step = "wait"
               PROVE  <<d.r, d.tid>> \in waiters'[d.t]
    BY <1>1 DEF Punch!WaitersListed
  <2>1. d.t \in Peers /\ <<d.r, d.tid>> \in waiters[d.t]
    BY DEF PunchInv, Punch!WaitersListed, Punch!TypeOK, Punch!Task
  <2> QED BY <2>1 DEF Punch!Sweep, Punch!OpenWaiters
<1> QED BY <1>1, <1>4, <1>5, <1>6 DEF PunchInv

-----------------------------------------------------------------------------
(* Every step keeps the invariant. *)
LEMMA PunchStep ==
  ASSUME PunchBounds, PunchInv, (Punch!Next \/ UNCHANGED Punch!vars)
  PROVE  PunchInv'
<1>1. ASSUME NEW p \in Peers, Punch!Login(p) PROVE PunchInv' BY <1>1, PunchLogin
<1>2. ASSUME NEW p \in Peers, Punch!Logout(p) PROVE PunchInv' BY <1>2, PunchLogout
<1>3. ASSUME NEW p \in Peers, Punch!Keepalive(p) PROVE PunchInv' BY <1>3, PunchKeepalive
<1>4. ASSUME NEW r \in Askers, NEW tid \in Punch!Ids, Punch!RequestExt(r, tid) PROVE PunchInv'
  BY <1>4, PunchRequestExt
<1>5. ASSUME NEW r \in Askers, NEW tid \in Punch!Ids, Punch!RequestPlain(r, tid) PROVE PunchInv'
  BY <1>5, PunchRequestPlain
<1>6. ASSUME NEW c \in coords, Punch!Coordinate(c) PROVE PunchInv' BY <1>6, PunchCoordinate
<1>7. ASSUME NEW c \in coords, Punch!ForeignAnswer(c) PROVE PunchInv' BY <1>7, PunchForeignAnswer
<1>8. ASSUME NEW f \in Foreign, NEW t \in Peers, Punch!ForeignRequest(f, t) PROVE PunchInv'
  BY <1>8, PunchForeignRequest
<1>9. CASE Punch!Sweep BY <1>9, PunchSweep
<1>10. CASE UNCHANGED Punch!vars
  BY <1>10 DEF PunchInv, Punch!TypeOK, OneSession, Punch!WaitersListed, Punch!vars, Punch!clients
<1> QED
  BY <1>1, <1>2, <1>3, <1>4, <1>5, <1>6, <1>7, <1>8, <1>9, <1>10 DEF Punch!Next

(* A coordination that waits is in natt_keepalive_waiters of its target,     *)
(* through sweeps, logouts, reconnects and other requests for the target:    *)
(* its 0x9F cannot slip past; and coordinations and resends together stay    *)
(* within max_retry_tasks.                                                   *)
THEOREM WaitersAlwaysListed ==
  ASSUME PunchBounds
  PROVE  Punch!Spec => []WaitersListed
<1>1. Punch!Init => PunchInv BY PunchInit
<1>2. PunchInv /\ (Punch!Next \/ UNCHANGED Punch!vars) => PunchInv' BY PunchStep
<1>3. PunchInv => WaitersListed BY DEF PunchInv, WaitersListed
<1> QED BY <1>1, <1>2, <1>3, PTL DEF Punch!Spec

-----------------------------------------------------------------------------
(* What the model assumes of its constants: a run accepts finitely many     *)
(* connections, and the limits are unsigned.                                *)
SocketBounds ==
  /\ IsFiniteSet(Conns) /\ Sources # {}
  /\ MaxPerIp \in Nat /\ MaxOpen \in Nat /\ MaxPending \in Nat /\ MaxPerSource \in Nat

-----------------------------------------------------------------------------
(* What a task may still owe: the end of what it was given to give back.    *)
SocketTails ==
  {<<>>, <<"slotEntry">>, <<"slot", "slotEntry">>, <<"open", "slot", "slotEntry">>}

LoginTails(s) ==
  IF s \in Loopback THEN {<<>>, <<"permit">>}
  ELSE {<<>>, <<"shareEntry">>, <<"share", "shareEntry">>, <<"permit", "share", "shareEntry">>}

EndTails(s) ==
  SocketTails \cup
    (IF s \in Loopback THEN {<<"permit", "open", "slot", "slotEntry">>}
     ELSE {<<"shareEntry", "open", "slot", "slotEntry">>,
           <<"share", "shareEntry", "open", "slot", "slotEntry">>,
           <<"permit", "share", "shareEntry", "open", "slot", "slotEntry">>})

Tails(at, s) ==
  IF at = "ending" THEN EndTails(s) ELSE IF at = "in" THEN LoginTails(s) ELSE {<<>>}

Stages == {"none", "counted", "open", "share", "setup", "login", "in", "ending"}

(* A socket's record as the tasks leave it.                                 *)
Legal(r) ==
  /\ r = [at |-> r.at, src |-> r.src, owed |-> r.owed]
  /\ r.at \in Stages /\ r.src \in Sources /\ r.owed \in Tails(r.at, r.src)

(* What a record holds of each pool and of each map.                        *)
Has(r, piece) == piece \in Sock!Range(r.owed)
HasOpen(r) == r.at \in {"open", "share", "setup", "login", "in"} \/ Has(r, "open")
HasPermit(r) == r.at \in {"setup", "login"} \/ Has(r, "permit")
HasSlot(r, s) == r.src = s /\ (r.at \notin {"none", "ending"} \/ Has(r, "slot"))
HasShare(r, s) ==
  r.src = s /\ s \notin Loopback /\ (r.at \in {"share", "setup", "login"} \/ Has(r, "share"))

OpenHolders == {c \in Conns : HasOpen(sock[c])}
PermitHolders == {c \in Conns : HasPermit(sock[c])}

(* A map's entries are for sources, and are numbers.                        *)
IsMap(map) ==
  /\ map = [x \in DOMAIN map |-> map[x]] /\ DOMAIN map \subseteq Sources
  /\ \A x \in DOMAIN map : map[x] \in Int

(* The invariant: beside the counts of the maps, those of the pools, which  *)
(* the guards of the accept loop keep within the ceilings.                  *)
SocketsLegal == DOMAIN sock = Conns /\ sock = [c \in Conns |-> sock[c]] /\ \A c \in Conns : Legal(sock[c])
PoolsExact == openTcp = Cardinality(OpenHolders) /\ pendingLogin = Cardinality(PermitHolders)
WithinLimits ==
  /\ openTcp <= MaxOpen /\ pendingLogin <= MaxPending
  /\ \A s \in Sources \ Loopback :
       /\ Sock!Count(pendingPerSource, s) <= MaxPerSource
       /\ MaxPerIp > 0 => Sock!Count(connPerIp, s) <= MaxPerIp

SocketsInv ==
  /\ SocketsLegal /\ IsMap(connPerIp) /\ IsMap(pendingPerSource)
  /\ PoolsExact /\ Sock!CountsExact /\ WithinLimits

-----------------------------------------------------------------------------
(* Sequences with the same elements are equal. *)
LEMMA SameElements ==
  ASSUME NEW S, NEW p \in Seq(S), NEW q \in Seq(S), Len(p) = Len(q),
         \A i \in 1 .. Len(p) : p[i] = q[i]
  PROVE  p = q
OBVIOUS

(* What a socket that is refused has to give back. *)
LEMMA OweRefused ==
  <<"open">> \o <<"slot", "slotEntry">>
    = <<"open", "slot", "slotEntry">>
<1> DEFINE p == <<"open">> \o <<"slot", "slotEntry">>
           q == <<"open", "slot", "slotEntry">>
<1>1. p \in Seq(Sock!Pieces) /\ q \in Seq(Sock!Pieces) BY DEF Sock!Pieces
<1>2. Len(p) = 3 /\ Len(q) = 3 OBVIOUS
<1>3. p[1] = q[1] /\ p[2] = q[2] /\ p[3] = q[3] OBVIOUS
<1>4. \A i \in 1 .. 3 : p[i] = q[i] BY <1>3
<1> HIDE DEF p, q
<1>5. p = q BY <1>1, <1>2, <1>4, SameElements
<1> QED BY <1>5 DEF p, q

(* ... that is refused a place among the pending logins. *)
LEMMA OwePendingLocal ==
  <<>> \o <<"open">> \o <<"slot", "slotEntry">>
    = <<"open", "slot", "slotEntry">>
<1> DEFINE p == <<>> \o <<"open">> \o <<"slot", "slotEntry">>
           q == <<"open", "slot", "slotEntry">>
<1>1. p \in Seq(Sock!Pieces) /\ q \in Seq(Sock!Pieces) BY DEF Sock!Pieces
<1>2. Len(p) = 3 /\ Len(q) = 3 OBVIOUS
<1>3. p[1] = q[1] /\ p[2] = q[2] /\ p[3] = q[3] OBVIOUS
<1>4. \A i \in 1 .. 3 : p[i] = q[i] BY <1>3
<1> HIDE DEF p, q
<1>5. p = q BY <1>1, <1>2, <1>4, SameElements
<1> QED BY <1>5 DEF p, q

LEMMA OwePending ==
  <<"share", "shareEntry">> \o <<"open">> \o <<"slot", "slotEntry">>
    = <<"share", "shareEntry", "open", "slot", "slotEntry">>
<1> DEFINE p == <<"share", "shareEntry">> \o <<"open">> \o <<"slot", "slotEntry">>
           q == <<"share", "shareEntry", "open", "slot", "slotEntry">>
<1>1. p \in Seq(Sock!Pieces) /\ q \in Seq(Sock!Pieces) BY DEF Sock!Pieces
<1>2. Len(p) = 5 /\ Len(q) = 5 OBVIOUS
<1>3. p[1] = q[1] /\ p[2] = q[2] /\ p[3] = q[3] /\ p[4] = q[4] /\ p[5] = q[5] OBVIOUS
<1>4. \A i \in 1 .. 5 : p[i] = q[i] BY <1>3
<1> HIDE DEF p, q
<1>5. p = q BY <1>1, <1>2, <1>4, SameElements
<1> QED BY <1>5 DEF p, q

(* ... that ends before it has logged in. *)
LEMMA OweAllLocal ==
  <<"permit">> \o <<"open">> \o <<"slot", "slotEntry">>
    = <<"permit", "open", "slot", "slotEntry">>
<1> DEFINE p == <<"permit">> \o <<"open">> \o <<"slot", "slotEntry">>
           q == <<"permit", "open", "slot", "slotEntry">>
<1>1. p \in Seq(Sock!Pieces) /\ q \in Seq(Sock!Pieces) BY DEF Sock!Pieces
<1>2. Len(p) = 4 /\ Len(q) = 4 OBVIOUS
<1>3. p[1] = q[1] /\ p[2] = q[2] /\ p[3] = q[3] /\ p[4] = q[4] OBVIOUS
<1>4. \A i \in 1 .. 4 : p[i] = q[i] BY <1>3
<1> HIDE DEF p, q
<1>5. p = q BY <1>1, <1>2, <1>4, SameElements
<1> QED BY <1>5 DEF p, q

LEMMA OweAll ==
  <<"permit", "share", "shareEntry">> \o <<"open">> \o <<"slot", "slotEntry">>
    = <<"permit", "share", "shareEntry", "open", "slot", "slotEntry">>
<1> DEFINE p == <<"permit", "share", "shareEntry">> \o <<"open">> \o <<"slot", "slotEntry">>
           q == <<"permit", "share", "shareEntry", "open", "slot", "slotEntry">>
<1>1. p \in Seq(Sock!Pieces) /\ q \in Seq(Sock!Pieces) BY DEF Sock!Pieces
<1>2. Len(p) = 6 /\ Len(q) = 6 OBVIOUS
<1>3. p[1] = q[1] /\ p[2] = q[2] /\ p[3] = q[3] /\ p[4] = q[4] /\ p[5] = q[5] /\ p[6] = q[6] OBVIOUS
<1>4. \A i \in 1 .. 6 : p[i] = q[i] BY <1>3
<1> HIDE DEF p, q
<1>5. p = q BY <1>1, <1>2, <1>4, SameElements
<1> QED BY <1>5 DEF p, q

(* The sequences of the model, in full.                                     *)
LEMMA Sequels ==
  ASSUME NEW s
  PROVE  /\ Sock!SlotPieces = <<"slot", "slotEntry">>
         /\ <<"open">> \o Sock!SlotPieces = <<"open", "slot", "slotEntry">>
         /\ s \in Loopback =>
              /\ Sock!LoginPieces(s) = <<"permit">>
              /\ Tail(Sock!LoginPieces(s)) \o <<"open">> \o Sock!SlotPieces = <<"open", "slot", "slotEntry">>
              /\ Sock!LoginPieces(s) \o <<"open">> \o Sock!SlotPieces = <<"permit", "open", "slot", "slotEntry">>
         /\ s \notin Loopback =>
              /\ Sock!LoginPieces(s) = <<"permit", "share", "shareEntry">>
              /\ Tail(Sock!LoginPieces(s)) \o <<"open">> \o Sock!SlotPieces
                   = <<"share", "shareEntry", "open", "slot", "slotEntry">>
              /\ Sock!LoginPieces(s) \o <<"open">> \o Sock!SlotPieces
                   = <<"permit", "share", "shareEntry", "open", "slot", "slotEntry">>
<1>1. Tail(<<"permit">>) = <<>> /\ Tail(<<"permit", "share", "shareEntry">>) = <<"share", "shareEntry">>
  OBVIOUS
<1>2. Sock!SlotPieces = <<"slot", "slotEntry">> BY DEF Sock!SlotPieces
<1>3. CASE s \in Loopback
  <2>1. Sock!LoginPieces(s) = <<"permit">> BY <1>3 DEF Sock!LoginPieces
  <2> QED BY <1>1, <1>2, <1>3, <2>1, OweRefused, OwePendingLocal, OweAllLocal, Zenon
<1>4. CASE s \notin Loopback
  <2>1. Sock!LoginPieces(s) = <<"permit", "share", "shareEntry">> BY <1>4 DEF Sock!LoginPieces
  <2> QED BY <1>1, <1>2, <1>4, <2>1, OweRefused, OwePending, OweAll, Zenon
<1> QED BY <1>3, <1>4

(* What each tail is made of.                                               *)
LEMMA PiecesOf ==
  /\ Sock!Range(<<>>) = {}
  /\ Sock!Range(<<"slotEntry">>) = {"slotEntry"}
  /\ Sock!Range(<<"slot", "slotEntry">>) = {"slot", "slotEntry"}
  /\ Sock!Range(<<"open", "slot", "slotEntry">>) = {"open", "slot", "slotEntry"}
  /\ Sock!Range(<<"permit">>) = {"permit"}
  /\ Sock!Range(<<"shareEntry">>) = {"shareEntry"}
  /\ Sock!Range(<<"share", "shareEntry">>) = {"share", "shareEntry"}
  /\ Sock!Range(<<"permit", "share", "shareEntry">>) = {"permit", "share", "shareEntry"}
  /\ Sock!Range(<<"permit", "open", "slot", "slotEntry">>) = {"permit", "open", "slot", "slotEntry"}
  /\ Sock!Range(<<"shareEntry", "open", "slot", "slotEntry">>) = {"shareEntry", "open", "slot", "slotEntry"}
  /\ Sock!Range(<<"share", "shareEntry", "open", "slot", "slotEntry">>)
       = {"share", "shareEntry", "open", "slot", "slotEntry"}
  /\ Sock!Range(<<"permit", "share", "shareEntry", "open", "slot", "slotEntry">>)
       = {"permit", "share", "shareEntry", "open", "slot", "slotEntry"}
BY DEF Sock!Range

(* The next piece is taken off the front of what is owed, and what is left  *)
(* is again a tail: an entry is looked at after its count, the open place   *)
(* and the slot come last.                                                  *)
LEMMA GivenBack ==
  ASSUME NEW r, Legal(r), r.owed # <<>>
  PROVE  /\ r.at \in {"in", "ending"}
         /\ Tail(r.owed) \in Tails(r.at, r.src)
         /\ Sock!Range(r.owed) = Sock!Range(Tail(r.owed)) \cup {Head(r.owed)}
         /\ Head(r.owed) \in Sock!Pieces \ Sock!Range(Tail(r.owed))
         /\ Head(r.owed) = "slot" => "slotEntry" \in Sock!Range(Tail(r.owed))
         /\ Head(r.owed) = "share" => "shareEntry" \in Sock!Range(Tail(r.owed))
         /\ Head(r.owed) \in {"share", "shareEntry"} => r.src \notin Loopback
         /\ Head(r.owed) \in {"open", "slot", "slotEntry"} => r.at = "ending"
<1>1. r.at \in {"in", "ending"} /\ r.owed \in Tails(r.at, r.src) BY DEF Legal, Tails
<1>2. /\ Tail(<<"slotEntry">>) = <<>>
      /\ Tail(<<"slot", "slotEntry">>) = <<"slotEntry">>
      /\ Tail(<<"open", "slot", "slotEntry">>) = <<"slot", "slotEntry">>
      /\ Tail(<<"permit">>) = <<>>
      /\ Tail(<<"shareEntry">>) = <<>>
      /\ Tail(<<"share", "shareEntry">>) = <<"shareEntry">>
      /\ Tail(<<"permit", "share", "shareEntry">>) = <<"share", "shareEntry">>
      /\ Tail(<<"permit", "open", "slot", "slotEntry">>) = <<"open", "slot", "slotEntry">>
      /\ Tail(<<"shareEntry", "open", "slot", "slotEntry">>) = <<"open", "slot", "slotEntry">>
      /\ Tail(<<"share", "shareEntry", "open", "slot", "slotEntry">>)
           = <<"shareEntry", "open", "slot", "slotEntry">>
      /\ Tail(<<"permit", "share", "shareEntry", "open", "slot", "slotEntry">>)
           = <<"share", "shareEntry", "open", "slot", "slotEntry">>
  OBVIOUS
<1>3. /\ Head(<<"slotEntry">>) = "slotEntry"
      /\ Head(<<"slot", "slotEntry">>) = "slot"
      /\ Head(<<"open", "slot", "slotEntry">>) = "open"
      /\ Head(<<"permit">>) = "permit"
      /\ Head(<<"shareEntry">>) = "shareEntry"
      /\ Head(<<"share", "shareEntry">>) = "share"
      /\ Head(<<"permit", "share", "shareEntry">>) = "permit"
      /\ Head(<<"permit", "open", "slot", "slotEntry">>) = "permit"
      /\ Head(<<"shareEntry", "open", "slot", "slotEntry">>) = "shareEntry"
      /\ Head(<<"share", "shareEntry", "open", "slot", "slotEntry">>) = "share"
      /\ Head(<<"permit", "share", "shareEntry", "open", "slot", "slotEntry">>) = "permit"
  OBVIOUS
<1>4. CASE r.at = "ending" /\ r.owed = <<"slotEntry">>
  BY <1>2, <1>3, <1>4, PiecesOf DEF Tails, EndTails, LoginTails, SocketTails, Sock!Pieces
<1>5. CASE r.at = "ending" /\ r.owed = <<"slot", "slotEntry">>
  BY <1>2, <1>3, <1>5, PiecesOf DEF Tails, EndTails, LoginTails, SocketTails, Sock!Pieces
<1>6. CASE r.at = "ending" /\ r.owed = <<"open", "slot", "slotEntry">>
  BY <1>2, <1>3, <1>6, PiecesOf DEF Tails, EndTails, LoginTails, SocketTails, Sock!Pieces
<1>7. CASE r.at = "in" /\ r.owed = <<"permit">> /\ r.src \in Loopback
  BY <1>2, <1>3, <1>7, PiecesOf DEF Tails, EndTails, LoginTails, SocketTails, Sock!Pieces
<1>8. CASE r.at = "in" /\ r.owed = <<"shareEntry">> /\ r.src \notin Loopback
  BY <1>2, <1>3, <1>8, PiecesOf DEF Tails, EndTails, LoginTails, SocketTails, Sock!Pieces
<1>9. CASE r.at = "in" /\ r.owed = <<"share", "shareEntry">> /\ r.src \notin Loopback
  BY <1>2, <1>3, <1>9, PiecesOf DEF Tails, EndTails, LoginTails, SocketTails, Sock!Pieces
<1>10. CASE r.at = "in" /\ r.owed = <<"permit", "share", "shareEntry">> /\ r.src \notin Loopback
  BY <1>2, <1>3, <1>10, PiecesOf DEF Tails, EndTails, LoginTails, SocketTails, Sock!Pieces
<1>11. CASE r.at = "ending" /\ r.owed = <<"permit", "open", "slot", "slotEntry">> /\ r.src \in Loopback
  BY <1>2, <1>3, <1>11, PiecesOf DEF Tails, EndTails, LoginTails, SocketTails, Sock!Pieces
<1>12. CASE r.at = "ending" /\ r.owed = <<"shareEntry", "open", "slot", "slotEntry">> /\ r.src \notin Loopback
  BY <1>2, <1>3, <1>12, PiecesOf DEF Tails, EndTails, LoginTails, SocketTails, Sock!Pieces
<1>13. CASE r.at = "ending" /\ r.owed = <<"share", "shareEntry", "open", "slot", "slotEntry">> /\ r.src \notin Loopback
  BY <1>2, <1>3, <1>13, PiecesOf DEF Tails, EndTails, LoginTails, SocketTails, Sock!Pieces
<1>14. CASE r.at = "ending" /\ r.owed = <<"permit", "share", "shareEntry", "open", "slot", "slotEntry">> /\ r.src \notin Loopback
  BY <1>2, <1>3, <1>14, PiecesOf DEF Tails, EndTails, LoginTails, SocketTails, Sock!Pieces
<1>15. CASE r.at = "ending"
  BY <1>1, <1>15, <1>4, <1>5, <1>6, <1>11, <1>12, <1>13, <1>14 DEF Tails, EndTails, SocketTails
<1>16. CASE r.at = "in"
  BY <1>1, <1>16, <1>7, <1>8, <1>9, <1>10 DEF Tails, LoginTails
<1> QED BY <1>1, <1>15, <1>16

(* When one socket changes, a set of sockets grows or shrinks by it alone.  *)
LEMMA OneMoves ==
  ASSUME IsFiniteSet(Conns), NEW S \in SUBSET Conns, NEW T \in SUBSET Conns, NEW c \in Conns,
         \A x \in Conns \ {c} : x \in S <=> x \in T
  PROVE  /\ Cardinality(S) \in Nat /\ Cardinality(T) \in Nat
         /\ c \in S /\ c \in T => Cardinality(T) = Cardinality(S)
         /\ c \notin S /\ c \notin T => Cardinality(T) = Cardinality(S)
         /\ c \notin S /\ c \in T => Cardinality(T) = Cardinality(S) + 1
         /\ c \in S /\ c \notin T => Cardinality(T) = Cardinality(S) - 1
<1>1. IsFiniteSet(S) /\ IsFiniteSet(T) BY FS_Subset
<1>2. Cardinality(S) \in Nat /\ Cardinality(T) \in Nat BY <1>1, FS_CardinalityType
<1>3. c \in S /\ c \in T => S = T OBVIOUS
<1>4. c \notin S /\ c \notin T => S = T OBVIOUS
<1>5. c \notin S /\ c \in T => T = S \cup {c} OBVIOUS
<1>6. c \in S /\ c \notin T => T = S \ {c} OBVIOUS
<1> QED BY <1>1, <1>2, <1>3, <1>4, <1>5, <1>6, FS_AddElement, FS_RemoveElement

-----------------------------------------------------------------------------
(* A count after one socket changes: one more, one less or as before.       *)
Counted(n, before, after) ==
  IF before THEN (IF after THEN n ELSE n - 1) ELSE (IF after THEN n + 1 ELSE n)

(* An entry of a map that nobody holds is on its way out: it is the socket  *)
(* that changes that still owes it, or another's that owed it before.       *)
EmptyEntries(map, after, old, r, entry) ==
  \A s \in DOMAIN after :
    after[s] = 0 => \/ r.src = s /\ Has(r, entry)
                    \/ s \in DOMAIN map /\ map[s] = 0 /\ ~(old.src = s /\ Has(old, entry))

(* One socket changes, and every count follows what it takes or gives back. *)
LEMMA SocketStep ==
  ASSUME SocketBounds, SocketsInv, NEW c \in Conns, NEW r, Legal(r),
         sock' = [sock EXCEPT ![c] = r],
         openTcp' = Counted(openTcp, HasOpen(sock[c]), HasOpen(r)),
         pendingLogin' = Counted(pendingLogin, HasPermit(sock[c]), HasPermit(r)),
         IsMap(connPerIp'), IsMap(pendingPerSource'),
         \A s \in Sources :
           /\ Sock!Count(connPerIp', s) = Counted(Sock!Count(connPerIp, s), HasSlot(sock[c], s), HasSlot(r, s))
           /\ Sock!Count(pendingPerSource', s)
                = Counted(Sock!Count(pendingPerSource, s), HasShare(sock[c], s), HasShare(r, s)),
         EmptyEntries(connPerIp, connPerIp', sock[c], r, "slotEntry"),
         EmptyEntries(pendingPerSource, pendingPerSource', sock[c], r, "shareEntry"),
         WithinLimits'
  PROVE  SocketsInv'
<1>1. SocketsLegal BY DEF SocketsInv
<1>2. /\ sock'[c] = r /\ \A x \in Conns \ {c} : sock'[x] = sock[x]
      /\ DOMAIN sock' = Conns /\ sock' = [x \in Conns |-> sock'[x]]
  BY <1>1 DEF SocketsLegal
<1>3. SocketsLegal' BY <1>1, <1>2 DEF SocketsLegal
<1>4. PoolsExact'
  <2>1. openTcp' = Cardinality(OpenHolders')
    <3>1. \A x \in Conns \ {c} : x \in OpenHolders <=> x \in OpenHolders' BY <1>2 DEF OpenHolders
    <3>2. OpenHolders \in SUBSET Conns /\ OpenHolders' \in SUBSET Conns BY DEF OpenHolders
    <3>3. (c \in OpenHolders <=> HasOpen(sock[c])) /\ (c \in OpenHolders' <=> HasOpen(r))
      BY <1>2 DEF OpenHolders
    <3>4. openTcp = Cardinality(OpenHolders) BY DEF SocketsInv, PoolsExact
    <3>5. openTcp' = Counted(openTcp, c \in OpenHolders, c \in OpenHolders') BY <3>3 DEF Counted
    <3> QED BY <3>1, <3>2, <3>4, <3>5, OneMoves DEF SocketBounds, Counted
  <2>2. pendingLogin' = Cardinality(PermitHolders')
    <3>1. \A x \in Conns \ {c} : x \in PermitHolders <=> x \in PermitHolders' BY <1>2 DEF PermitHolders
    <3>2. PermitHolders \in SUBSET Conns /\ PermitHolders' \in SUBSET Conns BY DEF PermitHolders
    <3>3. (c \in PermitHolders <=> HasPermit(sock[c])) /\ (c \in PermitHolders' <=> HasPermit(r))
      BY <1>2 DEF PermitHolders
    <3>4. pendingLogin = Cardinality(PermitHolders) BY DEF SocketsInv, PoolsExact
    <3>5. pendingLogin' = Counted(pendingLogin, c \in PermitHolders, c \in PermitHolders')
      BY <3>3 DEF Counted
    <3> QED BY <3>1, <3>2, <3>4, <3>5, OneMoves DEF SocketBounds, Counted
  <2> QED BY <2>1, <2>2 DEF PoolsExact
<1>5. ASSUME NEW s \in Sources
      PROVE  Sock!Count(connPerIp', s) = Cardinality(Sock!SlotHolders(s)')
  <2>1. Sock!SlotHolders(s) = {x \in Conns : HasSlot(sock[x], s)}
    BY DEF Sock!SlotHolders, HasSlot, Has, Sock!Owes, Sock!Of
  <2>2. Sock!SlotHolders(s)' = {x \in Conns : HasSlot(sock'[x], s)}
    BY DEF Sock!SlotHolders, HasSlot, Has, Sock!Owes, Sock!Of
  <2>3. \A x \in Conns \ {c} : x \in Sock!SlotHolders(s) <=> x \in Sock!SlotHolders(s)' BY <1>2, <2>1, <2>2
  <2>4. Sock!SlotHolders(s) \in SUBSET Conns /\ Sock!SlotHolders(s)' \in SUBSET Conns BY <2>1, <2>2
  <2>5. (c \in Sock!SlotHolders(s) <=> HasSlot(sock[c], s)) /\ (c \in Sock!SlotHolders(s)' <=> HasSlot(r, s))
    BY <1>2, <2>1, <2>2
  <2>6. Sock!Count(connPerIp, s) = Cardinality(Sock!SlotHolders(s)) BY SockCardinality DEF SocketsInv, Sock!CountsExact
  <2>7. Sock!Count(connPerIp', s) = Counted(Sock!Count(connPerIp, s), c \in Sock!SlotHolders(s), c \in Sock!SlotHolders(s)')
    BY <2>5 DEF Counted
  <2> QED BY <2>3, <2>4, <2>6, <2>7, OneMoves DEF SocketBounds, Counted
<1>6. ASSUME NEW s \in Sources
      PROVE  Sock!Count(pendingPerSource', s) = Cardinality(Sock!ShareHolders(s)')
  <2>1. Sock!ShareHolders(s) = {x \in Conns : HasShare(sock[x], s)}
    BY DEF Sock!ShareHolders, HasShare, Has, Sock!Owes, Sock!Of
  <2>2. Sock!ShareHolders(s)' = {x \in Conns : HasShare(sock'[x], s)}
    BY DEF Sock!ShareHolders, HasShare, Has, Sock!Owes, Sock!Of
  <2>3. \A x \in Conns \ {c} : x \in Sock!ShareHolders(s) <=> x \in Sock!ShareHolders(s)' BY <1>2, <2>1, <2>2
  <2>4. Sock!ShareHolders(s) \in SUBSET Conns /\ Sock!ShareHolders(s)' \in SUBSET Conns BY <2>1, <2>2
  <2>5. (c \in Sock!ShareHolders(s) <=> HasShare(sock[c], s)) /\ (c \in Sock!ShareHolders(s)' <=> HasShare(r, s))
    BY <1>2, <2>1, <2>2
  <2>6. Sock!Count(pendingPerSource, s) = Cardinality(Sock!ShareHolders(s)) BY SockCardinality DEF SocketsInv, Sock!CountsExact
  <2>7. Sock!Count(pendingPerSource', s) = Counted(Sock!Count(pendingPerSource, s), c \in Sock!ShareHolders(s), c \in Sock!ShareHolders(s)')
    BY <2>5 DEF Counted
  <2> QED BY <2>3, <2>4, <2>6, <2>7, OneMoves DEF SocketBounds, Counted
<1>7. ASSUME NEW s \in Sources, s \in DOMAIN connPerIp', connPerIp'[s] = 0
      PROVE  \E x \in Sock!Of(s)' : Sock!Owes(x, "slotEntry")'
  <2>1. CASE r.src = s /\ Has(r, "slotEntry") BY <1>2, <2>1 DEF Sock!Of, Sock!Owes, Has
  <2>2. CASE s \in DOMAIN connPerIp /\ connPerIp[s] = 0 /\ ~(sock[c].src = s /\ Has(sock[c], "slotEntry"))
    <3>1. PICK x \in Sock!Of(s) : Sock!Owes(x, "slotEntry") BY <2>2 DEF SocketsInv, Sock!CountsExact
    <3>2. x # c /\ x \in Conns BY <2>2, <3>1 DEF Sock!Of, Sock!Owes, Has
    <3>3. x \in Sock!Of(s)' /\ Sock!Owes(x, "slotEntry")' BY <1>2, <3>1, <3>2 DEF Sock!Of, Sock!Owes
    <3> QED BY <3>3
  <2> QED BY <1>7, <2>1, <2>2 DEF EmptyEntries
<1>8. ASSUME NEW s \in Sources, s \in DOMAIN pendingPerSource', pendingPerSource'[s] = 0
      PROVE  \E x \in Sock!Of(s)' : Sock!Owes(x, "shareEntry")'
  <2>1. CASE r.src = s /\ Has(r, "shareEntry") BY <1>2, <2>1 DEF Sock!Of, Sock!Owes, Has
  <2>2. CASE s \in DOMAIN pendingPerSource /\ pendingPerSource[s] = 0 /\ ~(sock[c].src = s /\ Has(sock[c], "shareEntry"))
    <3>1. PICK x \in Sock!Of(s) : Sock!Owes(x, "shareEntry") BY <2>2 DEF SocketsInv, Sock!CountsExact
    <3>2. x # c /\ x \in Conns BY <2>2, <3>1 DEF Sock!Of, Sock!Owes, Has
    <3>3. x \in Sock!Of(s)' /\ Sock!Owes(x, "shareEntry")' BY <1>2, <3>1, <3>2 DEF Sock!Of, Sock!Owes
    <3> QED BY <3>3
  <2> QED BY <1>8, <2>1, <2>2 DEF EmptyEntries
<1>9. Sock!CountsExact' BY <1>5, <1>6, <1>7, <1>8, SockCardinality DEF Sock!CountsExact
<1> QED BY <1>3, <1>4, <1>9 DEF SocketsInv

-----------------------------------------------------------------------------
(* A move is a new record for the same source.                              *)
LEMMA MovedRecord ==
  ASSUME SocketsInv, NEW c \in Conns, NEW a, NEW o, Sock!Move(c, a, o)
  PROVE  sock' = [sock EXCEPT ![c] = [at |-> a, src |-> sock[c].src, owed |-> o]]
<1> DEFINE r == [at |-> a, src |-> sock[c].src, owed |-> o]
<1>1. /\ sock[c] = [at |-> sock[c].at, src |-> sock[c].src, owed |-> sock[c].owed]
      /\ DOMAIN sock = Conns
  BY DEF SocketsInv, SocketsLegal, Legal
<1>2. ASSUME NEW p, NEW q, NEW w
      PROVE  [[[at |-> p, src |-> q, owed |-> w] EXCEPT !.at = a] EXCEPT !.owed = o]
               = [at |-> a, src |-> q, owed |-> o]
  <2>1. [[at |-> p, src |-> q, owed |-> w] EXCEPT !.at = a] = [at |-> a, src |-> q, owed |-> w]
    OBVIOUS
  <2>2. [[at |-> a, src |-> q, owed |-> w] EXCEPT !.owed = o] = [at |-> a, src |-> q, owed |-> o]
    OBVIOUS
  <2> QED BY <2>1, <2>2
<1>3. [[sock[c] EXCEPT !.at = a] EXCEPT !.owed = o] = r BY <1>1, <1>2, ZenonT(60)
<1>4. sock' = [sock EXCEPT ![c] = [[sock[c] EXCEPT !.at = a] EXCEPT !.owed = o]]
  BY <1>1 DEF Sock!Move
<1> QED BY <1>3, <1>4

(* A socket owes nothing before it logs in or ends.                         *)
LEMMA OwesNothing ==
  ASSUME SocketsInv, NEW c \in Conns
  PROVE  /\ Legal(sock[c]) /\ sock[c].src \in Sources
         /\ sock[c].at \notin {"in", "ending"} => sock[c].owed = <<>>
         /\ sock[c].owed = <<>> => \A piece : ~Has(sock[c], piece)
<1>1. Legal(sock[c]) BY DEF SocketsInv, SocketsLegal
<1> QED BY <1>1, PiecesOf DEF Legal, Tails, Has

(* What an entry counts, and the counts that a new value leaves.            *)
LEMMA CountType ==
  ASSUME NEW map, IsMap(map), NEW s
  PROVE  Sock!Count(map, s) \in Int
BY DEF Sock!Count, IsMap

LEMMA PutCounts ==
  ASSUME NEW map, IsMap(map), NEW s \in Sources, NEW n, n \in Int
  PROVE  /\ IsMap(Sock!Put(map, s, n))
         /\ DOMAIN Sock!Put(map, s, n) = DOMAIN map \cup {s}
         /\ \A x : Sock!Count(Sock!Put(map, s, n), x) = IF x = s THEN n ELSE Sock!Count(map, x)
         /\ \A x \in DOMAIN map \cup {s} : Sock!Put(map, s, n)[x] = IF x = s THEN n ELSE map[x]
BY DEF Sock!Put, IsMap, Sock!Count

(* One less, where there is an entry.                                       *)
LEMMA DecrementedCounts ==
  ASSUME NEW map, IsMap(map), NEW s \in Sources, Sock!Count(map, s) > 0
  PROVE  /\ IsMap(Sock!Decremented(map, s))
         /\ DOMAIN Sock!Decremented(map, s) = DOMAIN map
         /\ \A x : Sock!Count(Sock!Decremented(map, s), x) = IF x = s THEN Sock!Count(map, s) - 1 ELSE Sock!Count(map, x)
         /\ \A x \in DOMAIN map : x # s => Sock!Decremented(map, s)[x] = map[x]
<1>1. s \in DOMAIN map BY DEF Sock!Count
<1>2. Sock!Decremented(map, s) = Sock!Put(map, s, map[s] - 1) /\ map[s] = Sock!Count(map, s)
  BY <1>1 DEF Sock!Decremented, Sock!Count
<1>3. map[s] - 1 \in Int BY <1>1 DEF IsMap
<1> QED BY <1>1, <1>2, <1>3 DEF Sock!Put, IsMap, Sock!Count

(* An entry without holders goes, and nothing else.                         *)
LEMMA RemovedCounts ==
  ASSUME NEW map, IsMap(map), NEW s
  PROVE  /\ IsMap(Sock!RemovedAtZero(map, s))
         /\ \A x : Sock!Count(Sock!RemovedAtZero(map, s), x) = Sock!Count(map, x)
         /\ \A x \in DOMAIN Sock!RemovedAtZero(map, s) :
              /\ x \in DOMAIN map /\ Sock!RemovedAtZero(map, s)[x] = map[x]
              /\ x = s => map[x] # 0
BY DEF Sock!RemovedAtZero, Sock!Without, IsMap, Sock!Count

(* A map that is left alone keeps what its socket keeps.                    *)
LEMMA MapKept ==
  ASSUME NEW map, IsMap(map), NEW old, NEW r, NEW entry,
         old.src = r.src \/ ~Has(old, entry), Has(old, entry) => Has(r, entry)
  PROVE  EmptyEntries(map, map, old, r, entry)
BY DEF EmptyEntries

LEMMA SameCount ==
  ASSUME NEW n, NEW before, NEW after, before <=> after
  PROVE  Counted(n, before, after) = n
BY DEF Counted

-----------------------------------------------------------------------------
(* Nothing is held before the first socket.                                 *)
LEMMA SocketsInit ==
  ASSUME SocketBounds, Sock!Init
  PROVE  SocketsInv
<1>1. (CHOOSE s \in Sources : TRUE) \in Sources BY DEF SocketBounds
<1>2. Legal(Sock!None) BY <1>1 DEF Legal, Sock!None, Stages, Tails
<1>3. SocketsLegal BY <1>2 DEF SocketsLegal, Sock!Init
<1>4. \A c \in Conns : sock[c].at = "none" /\ sock[c].owed = <<>> BY DEF Sock!Init, Sock!None
<1>5. \A c \in Conns : \A piece : ~Sock!Owes(c, piece) BY <1>4, PiecesOf DEF Sock!Owes
<1>6. OpenHolders = {} /\ PermitHolders = {}
  BY <1>4, <1>5 DEF OpenHolders, PermitHolders, HasOpen, HasPermit, Has, Sock!Owes
<1>7. \A s \in Sources : Sock!SlotHolders(s) = {} /\ Sock!ShareHolders(s) = {}
  BY <1>4, <1>5 DEF Sock!SlotHolders, Sock!ShareHolders, Sock!Of
<1>8. \A s : s \notin DOMAIN connPerIp /\ s \notin DOMAIN pendingPerSource BY DEF Sock!Init
<1>9. IsMap(connPerIp) /\ IsMap(pendingPerSource) BY DEF Sock!Init, IsMap
<1>10. \A s : Sock!Count(connPerIp, s) = 0 /\ Sock!Count(pendingPerSource, s) = 0 BY <1>8 DEF Sock!Count
<1>11. Sock!CountsExact BY <1>7, <1>8, <1>10, FS_EmptySet, SockCardinality DEF Sock!CountsExact
<1>12. PoolsExact BY <1>6, FS_EmptySet DEF PoolsExact, Sock!Init
<1>13. WithinLimits BY <1>10 DEF WithinLimits, Sock!Init, SocketBounds
<1> QED BY <1>3, <1>9, <1>11, <1>12, <1>13 DEF SocketsInv

-----------------------------------------------------------------------------
(* An accepted socket takes the slot of its address. *)
LEMMA SocketAccepted ==
  ASSUME SocketBounds, SocketsInv, NEW c \in Conns, NEW s \in Sources, Sock!Accept(c, s)
  PROVE  SocketsInv'
<1> DEFINE r == [at |-> "counted", src |-> s, owed |-> <<>>]
           n == Sock!Count(connPerIp, s) + 1
<1>1. Legal(r) BY DEF Legal, Stages, Tails
<1>2. sock[c].at = "none" /\ \A piece : ~Has(sock[c], piece) BY OwesNothing DEF Sock!Accept
<1>3. \A piece : ~Has(r, piece) BY PiecesOf DEF Has
<1>4. /\ ~HasOpen(sock[c]) /\ ~HasOpen(r) /\ ~HasPermit(sock[c]) /\ ~HasPermit(r)
      /\ \A x : ~HasSlot(sock[c], x) /\ (HasSlot(r, x) <=> x = s)
      /\ \A x : ~HasShare(sock[c], x) /\ ~HasShare(r, x)
  BY <1>2, <1>3 DEF HasOpen, HasPermit, HasSlot, HasShare
<1>5. /\ sock' = [sock EXCEPT ![c] = r] /\ connPerIp' = Sock!Put(connPerIp, s, n)
      /\ pendingPerSource' = pendingPerSource /\ openTcp' = openTcp /\ pendingLogin' = pendingLogin
  BY DEF Sock!Accept
<1>6. IsMap(connPerIp) /\ IsMap(pendingPerSource) BY DEF SocketsInv
<1>7. \A x : Sock!Count(connPerIp, x) \in Int BY <1>6, CountType
<1>8. /\ IsMap(connPerIp') /\ DOMAIN connPerIp' = DOMAIN connPerIp \cup {s}
      /\ \A x : Sock!Count(connPerIp', x) = IF x = s THEN n ELSE Sock!Count(connPerIp, x)
      /\ \A x \in DOMAIN connPerIp' : connPerIp'[x] = IF x = s THEN n ELSE connPerIp[x]
  BY <1>5, <1>6, <1>7 DEF Sock!Put, IsMap, Sock!Count
<1>9. Sock!Count(connPerIp, s) >= 0
  <2>1. Sock!Count(connPerIp, s) = Cardinality(Sock!SlotHolders(s)) BY SockCardinality DEF SocketsInv, Sock!CountsExact
  <2>2. IsFiniteSet(Sock!SlotHolders(s)) BY FS_Subset DEF Sock!SlotHolders, Sock!Of, SocketBounds
  <2> QED BY <2>1, <2>2, FS_CardinalityType
<1>10. EmptyEntries(connPerIp, connPerIp', sock[c], r, "slotEntry")
  BY <1>2, <1>7, <1>8, <1>9 DEF EmptyEntries
<1>11. EmptyEntries(pendingPerSource, pendingPerSource', sock[c], r, "shareEntry")
  BY <1>2, <1>5, <1>6, MapKept
<1>12. WithinLimits'
  BY <1>5, <1>7, <1>8 DEF SocketsInv, WithinLimits, Sock!Accept, SocketBounds
<1>13. \A x \in Sources :
        /\ Sock!Count(connPerIp', x) = Counted(Sock!Count(connPerIp, x), HasSlot(sock[c], x), HasSlot(r, x))
        /\ Sock!Count(pendingPerSource', x)
             = Counted(Sock!Count(pendingPerSource, x), HasShare(sock[c], x), HasShare(r, x))
  BY <1>4, <1>5, <1>8 DEF Counted
<1>14. /\ openTcp' = Counted(openTcp, HasOpen(sock[c]), HasOpen(r))
       /\ pendingLogin' = Counted(pendingLogin, HasPermit(sock[c]), HasPermit(r))
  BY <1>4, <1>5 DEF Counted
<1> HIDE DEF r
<1> QED BY <1>1, <1>5, <1>6, <1>8, <1>10, <1>11, <1>12, <1>13, <1>14, SocketStep

(* A socket that moves on, with all it holds.                               *)
LEMMA SocketMoves ==
  ASSUME SocketBounds, SocketsInv, NEW c \in Conns, NEW r, Legal(r),
         sock' = [sock EXCEPT ![c] = r],
         UNCHANGED <<connPerIp, pendingPerSource, openTcp, pendingLogin>>,
         HasOpen(sock[c]) <=> HasOpen(r), HasPermit(sock[c]) <=> HasPermit(r),
         \A x : (HasSlot(sock[c], x) <=> HasSlot(r, x)) /\ (HasShare(sock[c], x) <=> HasShare(r, x)),
         \A piece \in {"slotEntry", "shareEntry"} :
           Has(sock[c], piece) => sock[c].src = r.src /\ Has(r, piece)
  PROVE  SocketsInv'
<1>1. IsMap(connPerIp) /\ IsMap(pendingPerSource) /\ WithinLimits BY DEF SocketsInv
<1>2. EmptyEntries(connPerIp, connPerIp', sock[c], r, "slotEntry") BY <1>1, MapKept
<1>3. EmptyEntries(pendingPerSource, pendingPerSource', sock[c], r, "shareEntry") BY <1>1, MapKept
<1>4. WithinLimits' BY <1>1 DEF WithinLimits
<1>5. \A x \in Sources :
        /\ Sock!Count(connPerIp', x) = Counted(Sock!Count(connPerIp, x), HasSlot(sock[c], x), HasSlot(r, x))
        /\ Sock!Count(pendingPerSource', x)
             = Counted(Sock!Count(pendingPerSource, x), HasShare(sock[c], x), HasShare(r, x))
  BY DEF Counted
<1>6. /\ openTcp' = Counted(openTcp, HasOpen(sock[c]), HasOpen(r))
      /\ pendingLogin' = Counted(pendingLogin, HasPermit(sock[c]), HasPermit(r))
  BY DEF Counted
<1> QED BY <1>1, <1>2, <1>3, <1>4, <1>5, <1>6, SocketStep

(* make_stream: the socket is set up.                                       *)
LEMMA SocketSetUp ==
  ASSUME SocketBounds, SocketsInv, NEW c \in Conns, Sock!SetUp(c)
  PROVE  SocketsInv'
<1> DEFINE r == [at |-> "login", src |-> sock[c].src, owed |-> <<>>]
<1>1. sock' = [sock EXCEPT ![c] = r] BY MovedRecord DEF Sock!SetUp
<1>2. sock[c].src \in Sources /\ sock[c].at = "setup" /\ \A piece : ~Has(sock[c], piece)
  BY OwesNothing DEF Sock!SetUp
<1>3. Legal(r) BY <1>2 DEF Legal, Stages, Tails
<1>4. \A piece : ~Has(r, piece) BY PiecesOf DEF Has
<1>5. /\ HasOpen(sock[c]) <=> HasOpen(r)
      /\ HasPermit(sock[c]) <=> HasPermit(r)
      /\ \A x : (HasSlot(sock[c], x) <=> HasSlot(r, x)) /\ (HasShare(sock[c], x) <=> HasShare(r, x))
  BY <1>2, <1>4 DEF HasOpen, HasPermit, HasSlot, HasShare
<1> HIDE DEF r
<1> QED BY <1>1, <1>2, <1>3, <1>5, SocketMoves DEF Sock!SetUp

(* A socket that is gone held nothing any more.                             *)
LEMMA SocketGone ==
  ASSUME SocketBounds, SocketsInv, NEW c \in Conns, Sock!Gone(c)
  PROVE  SocketsInv'
<1>1. sock[c].at = "ending" /\ \A piece : ~Has(sock[c], piece) BY OwesNothing DEF Sock!Gone, Sock!Settled
<1>2. (CHOOSE s \in Sources : TRUE) \in Sources BY DEF SocketBounds
<1>3. Legal(Sock!None) BY <1>2 DEF Legal, Sock!None, Stages, Tails
<1>4. Sock!None.at = "none" /\ \A piece : ~Has(Sock!None, piece) BY PiecesOf DEF Has, Sock!None
<1>5. /\ HasOpen(sock[c]) <=> HasOpen(Sock!None)
      /\ HasPermit(sock[c]) <=> HasPermit(Sock!None)
      /\ \A x : (HasSlot(sock[c], x) <=> HasSlot(Sock!None, x)) /\ (HasShare(sock[c], x) <=> HasShare(Sock!None, x))
  BY <1>1, <1>4 DEF HasOpen, HasPermit, HasSlot, HasShare
<1> QED BY <1>1, <1>3, <1>5, SocketMoves DEF Sock!Gone

(* A login accepted: the pending login is given back from now on.           *)
LEMMA SocketLogin ==
  ASSUME SocketBounds, SocketsInv, NEW c \in Conns, Sock!Login(c)
  PROVE  SocketsInv'
<1> DEFINE s == sock[c].src
           r == [at |-> "in", src |-> s, owed |-> Sock!LoginPieces(s)]
<1>1. sock' = [sock EXCEPT ![c] = r] BY MovedRecord DEF Sock!Login
<1>2. s \in Sources /\ sock[c].at = "login" /\ \A piece : ~Has(sock[c], piece)
  BY OwesNothing DEF Sock!Login
<1>3. Legal(r) BY <1>2, Sequels DEF Legal, Stages, Tails, LoginTails
<1>4. /\ Has(r, "permit") /\ ~Has(r, "open") /\ ~Has(r, "slot")
      /\ Has(r, "share") <=> s \notin Loopback
  BY Sequels, PiecesOf DEF Has
<1>5. /\ HasOpen(sock[c]) <=> HasOpen(r)
      /\ HasPermit(sock[c]) <=> HasPermit(r)
      /\ \A x : (HasSlot(sock[c], x) <=> HasSlot(r, x)) /\ (HasShare(sock[c], x) <=> HasShare(r, x))
  BY <1>2, <1>4 DEF HasOpen, HasPermit, HasSlot, HasShare
<1> HIDE DEF r
<1> QED BY <1>1, <1>2, <1>3, <1>5, SocketMoves DEF Sock!Login

(* A socket refused for its source or the server's pending logins.          *)
LEMMA SocketRefused ==
  ASSUME SocketBounds, SocketsInv, NEW c \in Conns, Sock!RefusePending(c)
  PROVE  SocketsInv'
<1> DEFINE s == sock[c].src
           owed == Tail(Sock!LoginPieces(s)) \o <<"open">> \o Sock!SlotPieces
           r == [at |-> "ending", src |-> s, owed |-> owed]
<1>1. sock' = [sock EXCEPT ![c] = r] BY MovedRecord DEF Sock!RefusePending
<1>2. s \in Sources /\ sock[c].at = "share" /\ \A piece : ~Has(sock[c], piece)
  BY OwesNothing DEF Sock!RefusePending
<1>3. owed = IF s \in Loopback THEN <<"open", "slot", "slotEntry">>
             ELSE <<"share", "shareEntry", "open", "slot", "slotEntry">>
  BY Sequels
<1> HIDE DEF owed
<1>4. Legal(r) BY <1>2, <1>3 DEF Legal, Stages, Tails, EndTails, SocketTails
<1>5. /\ ~Has(r, "permit") /\ Has(r, "open") /\ Has(r, "slot")
      /\ Has(r, "share") <=> s \notin Loopback
  BY <1>3, PiecesOf DEF Has
<1>6. /\ HasOpen(sock[c]) <=> HasOpen(r)
      /\ HasPermit(sock[c]) <=> HasPermit(r)
      /\ \A x : (HasSlot(sock[c], x) <=> HasSlot(r, x)) /\ (HasShare(sock[c], x) <=> HasShare(r, x))
  BY <1>2, <1>5 DEF HasOpen, HasPermit, HasSlot, HasShare
<1> HIDE DEF r
<1> QED BY <1>1, <1>2, <1>4, <1>6, SocketMoves DEF Sock!RefusePending

(* A task that ends owes what it holds: before and after the login.         *)
LEMMA SocketEnds ==
  ASSUME SocketBounds, SocketsInv, NEW c \in Conns, Sock!End(c)
  PROVE  SocketsInv'
<1> DEFINE s == sock[c].src
<1>1. s \in Sources /\ \A piece : ~Has(sock[c], piece) BY OwesNothing DEF Sock!End, Sock!Settled
<1>2. CASE sock[c].at \in {"setup", "login"}
  <2> DEFINE owed == Sock!LoginPieces(s) \o <<"open">> \o Sock!SlotPieces
             r == [at |-> "ending", src |-> s, owed |-> owed]
  <2>1. sock' = [sock EXCEPT ![c] = r] BY <1>2, MovedRecord DEF Sock!End
  <2>2. owed = IF s \in Loopback THEN <<"permit", "open", "slot", "slotEntry">>
               ELSE <<"permit", "share", "shareEntry", "open", "slot", "slotEntry">>
    BY Sequels
  <2> HIDE DEF owed
  <2>3. Legal(r) BY <1>1, <2>2 DEF Legal, Stages, Tails, EndTails
  <2>4. /\ Has(r, "permit") /\ Has(r, "open") /\ Has(r, "slot")
        /\ Has(r, "share") <=> s \notin Loopback
    BY <2>2, PiecesOf DEF Has
  <2>5. /\ HasOpen(sock[c]) <=> HasOpen(r)
        /\ HasPermit(sock[c]) <=> HasPermit(r)
        /\ \A x : (HasSlot(sock[c], x) <=> HasSlot(r, x)) /\ (HasShare(sock[c], x) <=> HasShare(r, x))
    BY <1>1, <1>2, <2>4 DEF HasOpen, HasPermit, HasSlot, HasShare
  <2> HIDE DEF r
  <2> QED BY <1>1, <2>1, <2>3, <2>5, SocketMoves DEF Sock!End
<1>3. CASE sock[c].at = "in"
  <2> DEFINE r == [at |-> "ending", src |-> s, owed |-> <<"open", "slot", "slotEntry">>]
  <2>1. sock' = [sock EXCEPT ![c] = r] BY <1>3, MovedRecord, Sequels DEF Sock!End
  <2>2. Legal(r) BY <1>1 DEF Legal, Stages, Tails, EndTails, SocketTails
  <2>3. ~Has(r, "permit") /\ ~Has(r, "share") /\ Has(r, "open") /\ Has(r, "slot")
    BY PiecesOf DEF Has
  <2>4. /\ HasOpen(sock[c]) <=> HasOpen(r)
        /\ HasPermit(sock[c]) <=> HasPermit(r)
        /\ \A x : (HasSlot(sock[c], x) <=> HasSlot(r, x)) /\ (HasShare(sock[c], x) <=> HasShare(r, x))
    BY <1>1, <1>3, <2>3 DEF HasOpen, HasPermit, HasSlot, HasShare
  <2> HIDE DEF r
  <2> QED BY <1>1, <2>1, <2>2, <2>4, SocketMoves DEF Sock!End
<1> QED BY <1>2, <1>3 DEF Sock!End

(* A place among the open sockets, or none is left.                         *)
LEMMA SocketTakesOpen ==
  ASSUME SocketBounds, SocketsInv, NEW c \in Conns, Sock!TakeOpen(c)
  PROVE  SocketsInv'
<1> DEFINE s == sock[c].src
<1>1. s \in Sources /\ sock[c].at = "counted" /\ \A piece : ~Has(sock[c], piece)
  BY OwesNothing DEF Sock!TakeOpen
<1>2. CASE openTcp < MaxOpen /\ openTcp' = openTcp + 1 /\ Sock!Move(c, "open", <<>>)
  <2> DEFINE r == [at |-> "open", src |-> s, owed |-> <<>>]
  <2>1. sock' = [sock EXCEPT ![c] = r] BY <1>2, MovedRecord
  <2>2. Legal(r) BY <1>1 DEF Legal, Stages, Tails
  <2>3. \A piece : ~Has(r, piece) BY PiecesOf DEF Has
  <2>4. /\ ~HasOpen(sock[c]) /\ HasOpen(r) /\ ~HasPermit(sock[c]) /\ ~HasPermit(r)
        /\ \A x : (HasSlot(sock[c], x) <=> HasSlot(r, x)) /\ (HasShare(sock[c], x) <=> HasShare(r, x))
    BY <1>1, <2>3 DEF HasOpen, HasPermit, HasSlot, HasShare
  <2>5. UNCHANGED <<connPerIp, pendingPerSource, pendingLogin>> BY DEF Sock!TakeOpen
  <2>6. IsMap(connPerIp) /\ IsMap(pendingPerSource) BY DEF SocketsInv
  <2>7. EmptyEntries(connPerIp, connPerIp', sock[c], r, "slotEntry") BY <1>1, <2>5, <2>6, MapKept
  <2>8. EmptyEntries(pendingPerSource, pendingPerSource', sock[c], r, "shareEntry")
    BY <1>1, <2>5, <2>6, MapKept
  <2>9. openTcp \in Int BY FS_Subset, FS_CardinalityType DEF SocketsInv, PoolsExact, OpenHolders, SocketBounds
  <2>10. WithinLimits' BY <1>2, <2>5, <2>9 DEF SocketsInv, WithinLimits, SocketBounds
  <2>11. \A x \in Sources :
          /\ Sock!Count(connPerIp', x) = Counted(Sock!Count(connPerIp, x), HasSlot(sock[c], x), HasSlot(r, x))
          /\ Sock!Count(pendingPerSource', x)
               = Counted(Sock!Count(pendingPerSource, x), HasShare(sock[c], x), HasShare(r, x))
    BY <2>4, <2>5 DEF Counted
  <2>12. /\ openTcp' = Counted(openTcp, HasOpen(sock[c]), HasOpen(r))
         /\ pendingLogin' = Counted(pendingLogin, HasPermit(sock[c]), HasPermit(r))
    BY <1>2, <2>4, <2>5 DEF Counted
  <2> HIDE DEF r
  <2> QED BY <2>1, <2>2, <2>5, <2>6, <2>7, <2>8, <2>10, <2>11, <2>12, SocketStep
<1>3. CASE UNCHANGED openTcp /\ Sock!Move(c, "ending", Sock!SlotPieces)
  <2> DEFINE r == [at |-> "ending", src |-> s, owed |-> <<"slot", "slotEntry">>]
  <2>1. sock' = [sock EXCEPT ![c] = r] BY <1>3, MovedRecord DEF Sock!SlotPieces
  <2>2. Legal(r) BY <1>1 DEF Legal, Stages, Tails, EndTails, SocketTails
  <2>3. ~Has(r, "permit") /\ ~Has(r, "share") /\ ~Has(r, "open") /\ Has(r, "slot")
    BY PiecesOf DEF Has
  <2>4. /\ HasOpen(sock[c]) <=> HasOpen(r)
        /\ HasPermit(sock[c]) <=> HasPermit(r)
        /\ \A x : (HasSlot(sock[c], x) <=> HasSlot(r, x)) /\ (HasShare(sock[c], x) <=> HasShare(r, x))
    BY <1>1, <2>3 DEF HasOpen, HasPermit, HasSlot, HasShare
  <2> HIDE DEF r
  <2> QED BY <1>1, <1>3, <2>1, <2>2, <2>4, SocketMoves DEF Sock!TakeOpen
<1> QED BY <1>2, <1>3 DEF Sock!TakeOpen

(* The counts are counts.                                                   *)
LEMMA CountsNatural ==
  ASSUME SocketBounds, SocketsInv
  PROVE  /\ openTcp \in Nat /\ pendingLogin \in Nat
         /\ \A s \in Sources :
              /\ Sock!Count(connPerIp, s) \in Nat /\ Sock!Count(pendingPerSource, s) \in Nat
              /\ \A c \in Conns :
                   /\ HasSlot(sock[c], s) => Sock!Count(connPerIp, s) > 0
                   /\ HasShare(sock[c], s) => Sock!Count(pendingPerSource, s) > 0
<1>1. IsFiniteSet(OpenHolders) /\ IsFiniteSet(PermitHolders)
  BY FS_Subset DEF OpenHolders, PermitHolders, SocketBounds
<1>2. openTcp \in Nat /\ pendingLogin \in Nat
  BY <1>1, FS_CardinalityType DEF SocketsInv, PoolsExact
<1>3. ASSUME NEW s \in Sources
      PROVE  /\ Sock!Count(connPerIp, s) \in Nat /\ Sock!Count(pendingPerSource, s) \in Nat
             /\ \A c \in Conns :
                  /\ HasSlot(sock[c], s) => Sock!Count(connPerIp, s) > 0
                  /\ HasShare(sock[c], s) => Sock!Count(pendingPerSource, s) > 0
  <2>1. IsFiniteSet(Sock!SlotHolders(s)) /\ IsFiniteSet(Sock!ShareHolders(s))
    BY FS_Subset DEF Sock!SlotHolders, Sock!ShareHolders, Sock!Of, SocketBounds
  <2>2. \A c \in Conns : /\ HasSlot(sock[c], s) => Sock!SlotHolders(s) # {}
                         /\ HasShare(sock[c], s) => Sock!ShareHolders(s) # {}
    BY DEF Sock!SlotHolders, Sock!ShareHolders, HasSlot, HasShare, Has, Sock!Owes, Sock!Of
  <2>3. /\ Sock!Count(connPerIp, s) = Cardinality(Sock!SlotHolders(s))
        /\ Sock!Count(pendingPerSource, s) = Cardinality(Sock!ShareHolders(s))
    BY SockCardinality DEF SocketsInv, Sock!CountsExact
  <2>4. /\ Cardinality(Sock!SlotHolders(s)) \in Nat /\ Cardinality(Sock!ShareHolders(s)) \in Nat
        /\ Sock!SlotHolders(s) # {} => Cardinality(Sock!SlotHolders(s)) # 0
        /\ Sock!ShareHolders(s) # {} => Cardinality(Sock!ShareHolders(s)) # 0
    BY <2>1, FS_CardinalityType, FS_EmptySet
  <2> QED BY <2>2, <2>3, <2>4
<1> QED BY <1>2, <1>3

(* The task starts: one more pending login.                                 *)
LEMMA SocketSpawned ==
  ASSUME SocketBounds, SocketsInv, NEW c \in Conns, Sock!Spawn(c)
  PROVE  SocketsInv'
<1> DEFINE r == [at |-> "setup", src |-> sock[c].src, owed |-> <<>>]
<1>1. sock' = [sock EXCEPT ![c] = r] BY MovedRecord DEF Sock!Spawn
<1>2. sock[c].src \in Sources /\ sock[c].at = "share" /\ \A piece : ~Has(sock[c], piece)
  BY OwesNothing DEF Sock!Spawn
<1>3. Legal(r) BY <1>2 DEF Legal, Stages, Tails
<1>4. \A piece : ~Has(r, piece) BY PiecesOf DEF Has
<1>5. /\ HasOpen(sock[c]) /\ HasOpen(r) /\ ~HasPermit(sock[c]) /\ HasPermit(r)
      /\ \A x : (HasSlot(sock[c], x) <=> HasSlot(r, x)) /\ (HasShare(sock[c], x) <=> HasShare(r, x))
  BY <1>2, <1>4 DEF HasOpen, HasPermit, HasSlot, HasShare
<1>6. /\ UNCHANGED <<connPerIp, pendingPerSource, openTcp>>
      /\ pendingLogin' = pendingLogin + 1 /\ pendingLogin < MaxPending
  BY DEF Sock!Spawn
<1>7. IsMap(connPerIp) /\ IsMap(pendingPerSource) BY DEF SocketsInv
<1>8. EmptyEntries(connPerIp, connPerIp', sock[c], r, "slotEntry") BY <1>2, <1>6, <1>7, MapKept
<1>9. EmptyEntries(pendingPerSource, pendingPerSource', sock[c], r, "shareEntry")
  BY <1>2, <1>6, <1>7, MapKept
<1>10. WithinLimits' BY <1>6, CountsNatural DEF SocketsInv, WithinLimits, SocketBounds
<1>11. \A x \in Sources :
        /\ Sock!Count(connPerIp', x) = Counted(Sock!Count(connPerIp, x), HasSlot(sock[c], x), HasSlot(r, x))
        /\ Sock!Count(pendingPerSource', x)
             = Counted(Sock!Count(pendingPerSource, x), HasShare(sock[c], x), HasShare(r, x))
  BY <1>5, <1>6 DEF Counted
<1>12. /\ openTcp' = Counted(openTcp, HasOpen(sock[c]), HasOpen(r))
       /\ pendingLogin' = Counted(pendingLogin, HasPermit(sock[c]), HasPermit(r))
  BY <1>5, <1>6 DEF Counted
<1> HIDE DEF r
<1> QED BY <1>1, <1>3, <1>6, <1>7, <1>8, <1>9, <1>10, <1>11, <1>12, SocketStep

(* A share of the source's pending logins, unless it is used up; loopback   *)
(* needs none.                                                              *)
LEMMA SocketTakesShare ==
  ASSUME SocketBounds, SocketsInv, NEW c \in Conns, Sock!TakeShare(c)
  PROVE  SocketsInv'
<1> DEFINE s == sock[c].src
           n == Sock!Count(pendingPerSource, s)
<1>1. s \in Sources /\ sock[c].at = "open" /\ \A piece : ~Has(sock[c], piece)
  BY OwesNothing DEF Sock!TakeShare
<1>2. UNCHANGED <<connPerIp, openTcp, pendingLogin>> BY DEF Sock!TakeShare
<1>3. IsMap(connPerIp) /\ IsMap(pendingPerSource) BY DEF SocketsInv
<1>4. CASE s \in Loopback
  <2> DEFINE r == [at |-> "share", src |-> s, owed |-> <<>>]
  <2>1. sock' = [sock EXCEPT ![c] = r] BY <1>4, MovedRecord DEF Sock!TakeShare
  <2>2. Legal(r) BY <1>1 DEF Legal, Stages, Tails
  <2>3. \A piece : ~Has(r, piece) BY PiecesOf DEF Has
  <2>4. /\ HasOpen(sock[c]) <=> HasOpen(r)
        /\ HasPermit(sock[c]) <=> HasPermit(r)
        /\ \A x : (HasSlot(sock[c], x) <=> HasSlot(r, x)) /\ (HasShare(sock[c], x) <=> HasShare(r, x))
    BY <1>1, <1>4, <2>3 DEF HasOpen, HasPermit, HasSlot, HasShare
  <2>5. UNCHANGED pendingPerSource BY <1>4 DEF Sock!TakeShare
  <2> HIDE DEF r
  <2> QED BY <1>1, <1>2, <2>1, <2>2, <2>4, <2>5, SocketMoves
<1>5. CASE s \notin Loopback /\ n >= MaxPerSource
  <2> DEFINE r == [at |-> "ending", src |-> s, owed |-> <<"open", "slot", "slotEntry">>]
             put == Sock!Put(pendingPerSource, s, n)
  <2>1. sock' = [sock EXCEPT ![c] = r] BY <1>5, MovedRecord, Sequels DEF Sock!TakeShare
  <2>2. Legal(r) BY <1>1 DEF Legal, Stages, Tails, EndTails, SocketTails
  <2>3. ~Has(r, "permit") /\ ~Has(r, "share") /\ Has(r, "open") /\ Has(r, "slot")
    BY PiecesOf DEF Has
  <2>4. /\ HasOpen(sock[c]) /\ HasOpen(r) /\ ~HasPermit(sock[c]) /\ ~HasPermit(r)
        /\ \A x : (HasSlot(sock[c], x) <=> HasSlot(r, x)) /\ ~HasShare(sock[c], x) /\ ~HasShare(r, x)
    BY <1>1, <2>3 DEF HasOpen, HasPermit, HasSlot, HasShare
  <2>5. /\ IsMap(put) /\ \A x : Sock!Count(put, x) = Sock!Count(pendingPerSource, x)
        /\ \A x \in DOMAIN put : x # s => x \in DOMAIN pendingPerSource /\ put[x] = pendingPerSource[x]
    BY <1>1, <1>3 DEF Sock!Put, IsMap, Sock!Count
  <2>6. pendingPerSource' = Sock!RemovedAtZero(put, s) BY <1>5 DEF Sock!TakeShare
  <2> HIDE DEF put
  <2>7. /\ IsMap(pendingPerSource')
        /\ \A x : Sock!Count(pendingPerSource', x) = Sock!Count(pendingPerSource, x)
        /\ \A x \in DOMAIN pendingPerSource' :
             /\ x \in DOMAIN put /\ pendingPerSource'[x] = put[x]
             /\ x = s => put[x] # 0
    BY <2>5, <2>6, RemovedCounts
  <2>8. EmptyEntries(pendingPerSource, pendingPerSource', sock[c], r, "shareEntry")
    BY <1>1, <2>5, <2>7 DEF EmptyEntries
  <2>9. EmptyEntries(connPerIp, connPerIp', sock[c], r, "slotEntry") BY <1>1, <1>2, <1>3, MapKept
  <2>10. WithinLimits' BY <1>2, <2>7 DEF SocketsInv, WithinLimits
  <2>11. \A x \in Sources :
          /\ Sock!Count(connPerIp', x) = Counted(Sock!Count(connPerIp, x), HasSlot(sock[c], x), HasSlot(r, x))
          /\ Sock!Count(pendingPerSource', x)
               = Counted(Sock!Count(pendingPerSource, x), HasShare(sock[c], x), HasShare(r, x))
    BY <1>2, <2>4, <2>7 DEF Counted
  <2>12. /\ openTcp' = Counted(openTcp, HasOpen(sock[c]), HasOpen(r))
         /\ pendingLogin' = Counted(pendingLogin, HasPermit(sock[c]), HasPermit(r))
    BY <1>2, <2>4 DEF Counted
  <2> HIDE DEF r
  <2> QED BY <1>2, <1>3, <2>1, <2>2, <2>7, <2>8, <2>9, <2>10, <2>11, <2>12, SocketStep
<1>6. CASE s \notin Loopback /\ ~(n >= MaxPerSource)
  <2> DEFINE r == [at |-> "share", src |-> s, owed |-> <<>>]
  <2>1. sock' = [sock EXCEPT ![c] = r] BY <1>6, MovedRecord DEF Sock!TakeShare
  <2>2. Legal(r) BY <1>1 DEF Legal, Stages, Tails
  <2>3. \A piece : ~Has(r, piece) BY PiecesOf DEF Has
  <2>4. /\ HasOpen(sock[c]) /\ HasOpen(r) /\ ~HasPermit(sock[c]) /\ ~HasPermit(r)
        /\ \A x : /\ HasSlot(sock[c], x) <=> HasSlot(r, x)
                  /\ ~HasShare(sock[c], x) /\ (HasShare(r, x) <=> x = s)
    BY <1>1, <1>6, <2>3 DEF HasOpen, HasPermit, HasSlot, HasShare
  <2>5. pendingPerSource' = Sock!Put(pendingPerSource, s, n + 1) BY <1>6 DEF Sock!TakeShare
  <2>6. n \in Nat BY <1>1, CountsNatural
  <2>7. /\ IsMap(pendingPerSource')
        /\ \A x : Sock!Count(pendingPerSource', x) = IF x = s THEN n + 1 ELSE Sock!Count(pendingPerSource, x)
        /\ \A x \in DOMAIN pendingPerSource' :
             IF x = s THEN pendingPerSource'[x] = n + 1
             ELSE x \in DOMAIN pendingPerSource /\ pendingPerSource'[x] = pendingPerSource[x]
    BY <1>1, <1>3, <2>5, <2>6 DEF Sock!Put, IsMap, Sock!Count
  <2>8. EmptyEntries(pendingPerSource, pendingPerSource', sock[c], r, "shareEntry")
    BY <1>1, <2>6, <2>7 DEF EmptyEntries
  <2>9. EmptyEntries(connPerIp, connPerIp', sock[c], r, "slotEntry") BY <1>1, <1>2, <1>3, MapKept
  <2>10. WithinLimits' BY <1>2, <1>6, <2>6, <2>7 DEF SocketsInv, WithinLimits, SocketBounds
  <2>11. \A x \in Sources :
          /\ Sock!Count(connPerIp', x) = Counted(Sock!Count(connPerIp, x), HasSlot(sock[c], x), HasSlot(r, x))
          /\ Sock!Count(pendingPerSource', x)
               = Counted(Sock!Count(pendingPerSource, x), HasShare(sock[c], x), HasShare(r, x))
    BY <1>2, <2>4, <2>7 DEF Counted
  <2>12. /\ openTcp' = Counted(openTcp, HasOpen(sock[c]), HasOpen(r))
         /\ pendingLogin' = Counted(pendingLogin, HasPermit(sock[c]), HasPermit(r))
    BY <1>2, <2>4 DEF Counted
  <2> HIDE DEF r
  <2> QED BY <1>2, <1>3, <2>1, <2>2, <2>7, <2>8, <2>9, <2>10, <2>11, <2>12, SocketStep
<1> QED BY <1>4, <1>5, <1>6

(* A piece given back: the pools and maps count one holder less, and an     *)
(* entry nobody holds is left to the piece that follows.                    *)
LEMMA SocketGivesBack ==
  ASSUME SocketBounds, SocketsInv, NEW c \in Conns, Sock!GiveBack(c)
  PROVE  SocketsInv'
<1> DEFINE old == sock[c]
           s == old.src
           piece == Head(old.owed)
           r == [at |-> old.at, src |-> s, owed |-> Tail(old.owed)]
<1>1. Legal(old) /\ s \in Sources BY OwesNothing
<1>2. old.owed # <<>> BY DEF Sock!GiveBack, Sock!Settled
<1>3. /\ old.at \in {"in", "ending"}
      /\ Tail(old.owed) \in Tails(old.at, s)
      /\ piece \in Sock!Pieces /\ ~Has(r, piece)
      /\ \A p : Has(old, p) <=> Has(r, p) \/ p = piece
      /\ piece = "slot" => Has(r, "slotEntry")
      /\ piece = "share" => Has(r, "shareEntry")
      /\ piece \in {"share", "shareEntry"} => s \notin Loopback
      /\ piece \in {"open", "slot", "slotEntry"} => old.at = "ending"
  BY <1>1, <1>2, GivenBack DEF Has
<1>4. sock' = [sock EXCEPT ![c] = r] BY MovedRecord DEF Sock!GiveBack
<1>5. Legal(r) BY <1>1, <1>3 DEF Legal
<1>6. /\ pendingLogin' = IF piece = "permit" THEN pendingLogin - 1 ELSE pendingLogin
      /\ openTcp' = IF piece = "open" THEN openTcp - 1 ELSE openTcp
      /\ piece = "share" => pendingPerSource' = Sock!Decremented(pendingPerSource, s)
      /\ piece = "shareEntry" => pendingPerSource' = Sock!RemovedAtZero(pendingPerSource, s)
      /\ piece \notin {"share", "shareEntry"} => pendingPerSource' = pendingPerSource
      /\ piece = "slot" => connPerIp' = Sock!Decremented(connPerIp, s)
      /\ piece = "slotEntry" => connPerIp' = Sock!RemovedAtZero(connPerIp, s)
      /\ piece \notin {"slot", "slotEntry"} => connPerIp' = connPerIp
  BY DEF Sock!GiveBack
<1>7. r.at = old.at /\ r.src = s OBVIOUS
<1>8. IsMap(connPerIp) /\ IsMap(pendingPerSource) BY DEF SocketsInv
<1> HIDE DEF old, piece, r
<1>9. /\ HasOpen(old) <=> HasOpen(r) \/ piece = "open"
      /\ piece = "open" => ~HasOpen(r)
      /\ HasPermit(old) <=> HasPermit(r) \/ piece = "permit"
      /\ piece = "permit" => ~HasPermit(r)
  BY <1>3, <1>7 DEF HasOpen, HasPermit
<1>10. ASSUME NEW x
       PROVE  /\ HasSlot(old, x) <=> HasSlot(r, x) \/ (piece = "slot" /\ x = s)
              /\ piece = "slot" => ~HasSlot(r, x)
              /\ HasShare(old, x) <=> HasShare(r, x) \/ (piece = "share" /\ x = s)
              /\ piece = "share" => ~HasShare(r, x)
  BY <1>3, <1>7 DEF HasSlot, HasShare
<1>11. /\ openTcp' = Counted(openTcp, HasOpen(old), HasOpen(r))
       /\ pendingLogin' = Counted(pendingLogin, HasPermit(old), HasPermit(r))
  BY <1>6, <1>9 DEF Counted
<1>12. /\ IsMap(connPerIp')
       /\ \A x : Sock!Count(connPerIp', x)
                   = IF piece = "slot" /\ x = s THEN Sock!Count(connPerIp, x) - 1 ELSE Sock!Count(connPerIp, x)
       /\ EmptyEntries(connPerIp, connPerIp', old, r, "slotEntry")
  <2>1. CASE piece = "slot"
    <3>1. HasSlot(old, s) BY <1>10, <2>1
    <3>2. Sock!Count(connPerIp, s) > 0 BY <1>1, <3>1, CountsNatural DEF old
    <3>3. connPerIp' = Sock!Decremented(connPerIp, s) BY <1>6, <2>1
    <3>4. /\ IsMap(connPerIp') /\ DOMAIN connPerIp' = DOMAIN connPerIp
          /\ \A x : Sock!Count(connPerIp', x) = IF x = s THEN Sock!Count(connPerIp, s) - 1 ELSE Sock!Count(connPerIp, x)
          /\ \A x \in DOMAIN connPerIp : x # s => connPerIp'[x] = connPerIp[x]
      BY <1>1, <1>8, <3>2, <3>3, DecrementedCounts
    <3>5. EmptyEntries(connPerIp, connPerIp', old, r, "slotEntry")
      BY <1>3, <1>7, <2>1, <3>4 DEF EmptyEntries
    <3> QED BY <2>1, <3>4, <3>5
  <2>2. CASE piece = "slotEntry"
    <3>1. connPerIp' = Sock!RemovedAtZero(connPerIp, s) BY <1>6, <2>2
    <3>2. /\ IsMap(connPerIp') /\ \A x : Sock!Count(connPerIp', x) = Sock!Count(connPerIp, x)
          /\ \A x \in DOMAIN connPerIp' :
               /\ x \in DOMAIN connPerIp /\ connPerIp'[x] = connPerIp[x]
               /\ x = s => connPerIp[x] # 0
      BY <1>8, <3>1, RemovedCounts
    <3>3. EmptyEntries(connPerIp, connPerIp', old, r, "slotEntry")
      BY <3>2 DEF EmptyEntries, s
    <3> QED BY <2>2, <3>2, <3>3
  <2>3. CASE piece \notin {"slot", "slotEntry"}
    <3>1. Has(old, "slotEntry") => Has(r, "slotEntry") BY <1>3, <2>3
    <3>2. EmptyEntries(connPerIp, connPerIp', old, r, "slotEntry")
      BY <1>6, <1>7, <1>8, <2>3, <3>1, MapKept DEF s
    <3> QED BY <1>6, <1>8, <2>3, <3>2
  <2> QED BY <2>1, <2>2, <2>3
<1>13. /\ IsMap(pendingPerSource')
       /\ \A x : Sock!Count(pendingPerSource', x)
                   = IF piece = "share" /\ x = s THEN Sock!Count(pendingPerSource, x) - 1
                     ELSE Sock!Count(pendingPerSource, x)
       /\ EmptyEntries(pendingPerSource, pendingPerSource', old, r, "shareEntry")
  <2>1. CASE piece = "share"
    <3>1. HasShare(old, s) BY <1>10, <2>1
    <3>2. Sock!Count(pendingPerSource, s) > 0 BY <1>1, <3>1, CountsNatural DEF old
    <3>3. pendingPerSource' = Sock!Decremented(pendingPerSource, s) BY <1>6, <2>1
    <3>4. /\ IsMap(pendingPerSource') /\ DOMAIN pendingPerSource' = DOMAIN pendingPerSource
          /\ \A x : Sock!Count(pendingPerSource', x)
                      = IF x = s THEN Sock!Count(pendingPerSource, s) - 1 ELSE Sock!Count(pendingPerSource, x)
          /\ \A x \in DOMAIN pendingPerSource : x # s => pendingPerSource'[x] = pendingPerSource[x]
      BY <1>1, <1>8, <3>2, <3>3, DecrementedCounts
    <3>5. EmptyEntries(pendingPerSource, pendingPerSource', old, r, "shareEntry")
      BY <1>3, <1>7, <2>1, <3>4 DEF EmptyEntries
    <3> QED BY <2>1, <3>4, <3>5
  <2>2. CASE piece = "shareEntry"
    <3>1. pendingPerSource' = Sock!RemovedAtZero(pendingPerSource, s) BY <1>6, <2>2
    <3>2. /\ IsMap(pendingPerSource')
          /\ \A x : Sock!Count(pendingPerSource', x) = Sock!Count(pendingPerSource, x)
          /\ \A x \in DOMAIN pendingPerSource' :
               /\ x \in DOMAIN pendingPerSource /\ pendingPerSource'[x] = pendingPerSource[x]
               /\ x = s => pendingPerSource[x] # 0
      BY <1>8, <3>1, RemovedCounts
    <3>3. EmptyEntries(pendingPerSource, pendingPerSource', old, r, "shareEntry")
      BY <3>2 DEF EmptyEntries, s
    <3> QED BY <2>2, <3>2, <3>3
  <2>3. CASE piece \notin {"share", "shareEntry"}
    <3>1. Has(old, "shareEntry") => Has(r, "shareEntry") BY <1>3, <2>3
    <3>2. EmptyEntries(pendingPerSource, pendingPerSource', old, r, "shareEntry")
      BY <1>6, <1>7, <1>8, <2>3, <3>1, MapKept DEF s
    <3> QED BY <1>6, <1>8, <2>3, <3>2
  <2> QED BY <2>1, <2>2, <2>3
<1>14. \A x \in Sources :
         /\ Sock!Count(connPerIp', x) = Counted(Sock!Count(connPerIp, x), HasSlot(old, x), HasSlot(r, x))
         /\ Sock!Count(pendingPerSource', x)
              = Counted(Sock!Count(pendingPerSource, x), HasShare(old, x), HasShare(r, x))
  BY <1>10, <1>12, <1>13 DEF Counted
<1>15. WithinLimits'
  BY <1>6, <1>12, <1>13, CountsNatural DEF SocketsInv, WithinLimits, SocketBounds
<1> QED BY <1>4, <1>5, <1>11, <1>12, <1>13, <1>14, <1>15, SocketStep DEF old

-----------------------------------------------------------------------------
(* Every step keeps the invariant.                                          *)
LEMMA SocketsStep ==
  ASSUME SocketBounds, SocketsInv, (Sock!Next \/ UNCHANGED Sock!vars)
  PROVE  SocketsInv'
<1>1. ASSUME NEW c \in Conns, NEW s \in Sources, Sock!Accept(c, s) PROVE SocketsInv'
  BY <1>1, SocketAccepted
<1>2. ASSUME NEW c \in Conns, Sock!TakeOpen(c) PROVE SocketsInv' BY <1>2, SocketTakesOpen
<1>3. ASSUME NEW c \in Conns, Sock!TakeShare(c) PROVE SocketsInv' BY <1>3, SocketTakesShare
<1>4. ASSUME NEW c \in Conns, Sock!Spawn(c) PROVE SocketsInv' BY <1>4, SocketSpawned
<1>5. ASSUME NEW c \in Conns, Sock!RefusePending(c) PROVE SocketsInv' BY <1>5, SocketRefused
<1>6. ASSUME NEW c \in Conns, Sock!SetUp(c) PROVE SocketsInv' BY <1>6, SocketSetUp
<1>7. ASSUME NEW c \in Conns, Sock!Login(c) PROVE SocketsInv' BY <1>7, SocketLogin
<1>8. ASSUME NEW c \in Conns, Sock!End(c) PROVE SocketsInv' BY <1>8, SocketEnds
<1>9. ASSUME NEW c \in Conns, Sock!TimesOut(c) PROVE SocketsInv' BY <1>9, SocketEnds DEF Sock!TimesOut
<1>10. ASSUME NEW c \in Conns, Sock!GiveBack(c) PROVE SocketsInv' BY <1>10, SocketGivesBack
<1>11. ASSUME NEW c \in Conns, Sock!Gone(c) PROVE SocketsInv' BY <1>11, SocketGone
<1>12. CASE UNCHANGED Sock!vars
  <2>1. OpenHolders' = OpenHolders /\ PermitHolders' = PermitHolders
    BY <1>12 DEF Sock!vars, OpenHolders, PermitHolders
  <2>2. Sock!CountsExact'
    BY <1>12 DEF SocketsInv, Sock!vars, Sock!CountsExact, Sock!SlotHolders, Sock!ShareHolders, Sock!Of, Sock!Owes
  <2> QED BY <1>12, <2>1, <2>2 DEF SocketsInv, Sock!vars, SocketsLegal, PoolsExact, WithinLimits
<1> QED
  BY <1>1, <1>2, <1>3, <1>4, <1>5, <1>6, <1>7, <1>8, <1>9, <1>10, <1>11, <1>12 DEF Sock!Next

(* No entry counts more than there are connections.                         *)
LEMMA MapTyped ==
  ASSUME SocketBounds, NEW map, IsMap(map),
         \A s \in Sources : Sock!Count(map, s) \in 0 .. Cardinality(Conns)
  PROVE  map \in Sock!Counts
<1>1. \A s \in DOMAIN map : map[s] \in 0 .. Cardinality(Conns) BY DEF IsMap, Sock!Count
<1>2. DOMAIN map \in SUBSET Sources BY DEF IsMap
<1>3. map \in [DOMAIN map -> 0 .. Cardinality(Conns)] BY <1>1 DEF IsMap
<1> QED BY <1>2, <1>3, SockCardinality DEF Sock!Counts

(* What the runs check follows.                                             *)
LEMMA SocketsBounded ==
  ASSUME SocketBounds, SocketsInv
  PROVE  Sock!SocketsCounted
<1>1. ASSUME NEW S \in SUBSET Conns
      PROVE  /\ Cardinality(S) \in 0 .. Cardinality(Conns)
             /\ \A T \in SUBSET S : Cardinality(T) <= Cardinality(S)
  <2>1. IsFiniteSet(S) BY FS_Subset DEF SocketBounds
  <2>2. Cardinality(S) \in Nat /\ Cardinality(Conns) \in Nat
    BY <2>1, FS_CardinalityType DEF SocketBounds
  <2> QED BY <2>1, <2>2, FS_Subset DEF SocketBounds
<1>2. \A s : Sock!SlotHolders(s) \in SUBSET Conns /\ Sock!ShareHolders(s) \in SUBSET Conns
  BY DEF Sock!SlotHolders, Sock!ShareHolders, Sock!Of
<1>3. \A s \in Sources :
        /\ Sock!Count(connPerIp, s) \in 0 .. Cardinality(Conns)
        /\ Sock!Count(pendingPerSource, s) \in 0 .. Cardinality(Conns)
  BY <1>1, <1>2, SockCardinality DEF SocketsInv, Sock!CountsExact
<1>4. Sock!TypeOK
  <2>1. connPerIp \in Sock!Counts /\ pendingPerSource \in Sock!Counts
    BY <1>3, MapTyped DEF SocketsInv
  <2>2. openTcp \in Int /\ pendingLogin \in Int BY CountsNatural
  <2>3. ASSUME NEW c \in Conns
        PROVE  /\ sock[c].at \in Stages /\ sock[c].src \in Sources
               /\ Sock!Range(sock[c].owed) \subseteq Sock!Pieces
    <3>1. Legal(sock[c]) BY DEF SocketsInv, SocketsLegal
    <3>2. \A owed \in Tails(sock[c].at, sock[c].src) : Sock!Range(owed) \subseteq Sock!Pieces
      BY PiecesOf DEF Tails, EndTails, LoginTails, SocketTails, Sock!Pieces
    <3> QED BY <3>1, <3>2 DEF Legal
  <2> QED BY <2>1, <2>2, <2>3, SockCardinality DEF Sock!TypeOK, Stages
<1>5. Sock!CeilingsHold
  <2> DEFINE entered == {c \in Conns : sock[c].at \in {"setup", "login", "in"}}
             before == {c \in entered : sock[c].at # "in"}
  <2>1. entered \subseteq OpenHolders /\ OpenHolders \in SUBSET Conns
    BY DEF OpenHolders, HasOpen
  <2>2. before \subseteq PermitHolders /\ PermitHolders \in SUBSET Conns
    BY DEF PermitHolders, HasPermit
  <2>3. Cardinality(entered) <= Cardinality(OpenHolders) /\ Cardinality(before) <= Cardinality(PermitHolders)
    BY <1>1, <2>1, <2>2
  <2>4. Cardinality(entered) <= openTcp /\ Cardinality(before) <= pendingLogin
    BY <2>3 DEF SocketsInv, PoolsExact
  <2>5. entered \in SUBSET Conns /\ before \in SUBSET Conns OBVIOUS
  <2>6. Cardinality(entered) \in Nat /\ Cardinality(before) \in Nat BY <1>1, <2>5
  <2>7. Cardinality(entered) <= MaxOpen /\ Cardinality(before) <= MaxPending
    BY <2>4, <2>6, CountsNatural DEF SocketsInv, WithinLimits, SocketBounds
  <2>8. ASSUME NEW s \in Sources \ Loopback
        PROVE  /\ Cardinality(before \cap Sock!Of(s)) <= MaxPerSource
               /\ MaxPerIp > 0 => Cardinality(entered \cap Sock!Of(s)) <= MaxPerIp
    <3>1. before \cap Sock!Of(s) \subseteq Sock!ShareHolders(s) BY DEF Sock!ShareHolders, Sock!Of
    <3>2. entered \cap Sock!Of(s) \subseteq Sock!SlotHolders(s) BY DEF Sock!SlotHolders, Sock!Of
    <3>3. /\ Cardinality(before \cap Sock!Of(s)) <= Cardinality(Sock!ShareHolders(s))
          /\ Cardinality(entered \cap Sock!Of(s)) <= Cardinality(Sock!SlotHolders(s))
      BY <1>1, <1>2, <3>1, <3>2
    <3>4. /\ Cardinality(before \cap Sock!Of(s)) <= Sock!Count(pendingPerSource, s)
          /\ Cardinality(entered \cap Sock!Of(s)) <= Sock!Count(connPerIp, s)
      BY <3>3, SockCardinality DEF SocketsInv, Sock!CountsExact
    <3>5. before \cap Sock!Of(s) \in SUBSET Conns /\ entered \cap Sock!Of(s) \in SUBSET Conns OBVIOUS
    <3>6. Cardinality(before \cap Sock!Of(s)) \in Nat /\ Cardinality(entered \cap Sock!Of(s)) \in Nat
      BY <1>1, <3>5
    <3> QED BY <3>4, <3>6, CountsNatural DEF SocketsInv, WithinLimits, SocketBounds
  <2> QED BY <2>7, <2>8, SockCardinality DEF Sock!CeilingsHold
<1> QED BY <1>4, <1>5 DEF Sock!SocketsCounted, SocketsInv

(* However the accept loop, the tasks and their guards interleave, each      *)
(* per-source map counts exactly the sockets that hold a share of it, no    *)
(* entry without holders is left behind, and the sockets that exist stay    *)
(* within the ceilings of the server and of their source.                   *)
THEOREM SocketsAlwaysCounted ==
  ASSUME SocketBounds
  PROVE  Sock!Spec => []SocketsCounted
<1>1. Sock!Init => SocketsInv BY SocketsInit
<1>2. SocketsInv /\ (Sock!Next \/ UNCHANGED Sock!vars) => SocketsInv' BY SocketsStep
<1>3. SocketsInv => SocketsCounted BY SocketsBounded DEF SocketsCounted
<1> QED BY <1>1, <1>2, <1>3, PTL DEF Sock!Spec

-----------------------------------------------------------------------------
(* LoginId.  The LowID range holds an even and an odd id below its top.    *)
IdBounds ==
  /\ IsFiniteSet(Users) /\ HighOf \in [Users -> Nat] /\ ThisIp \in Nat
  /\ LowTop \in Nat /\ LowTop >= 3 /\ MaxProbes \in Nat /\ MaxChecks \in Nat

Steps == {"out", "probe", "hairpin", "plain", "in"}
Probing == {"probe", "hairpin", "plain"}

IdTypes ==
  /\ nextLow \in 1 .. LowTop /\ step \in [Users -> Steps]
  /\ given \in [Users -> [id : Nat, high : BOOLEAN]]
  /\ checks \in [Users -> 0 .. MaxChecks] /\ marks \subseteq Users
  /\ permits \in 0 .. MaxProbes /\ checkPermits \in 0 .. MaxChecks

(* The checks that run, each with its number among its user's, and the     *)
(* logins that hold a probe's permit.                                      *)
RunSet(c) == {x \in Users \X (1 .. MaxChecks) : x[2] <= c[x[1]]}
OpenChecks == Cardinality(RunSet(checks))
Held(s) == {u \in Users : s[u] \in Probing}
Holding == Cardinality(Held(step))

PermitsAdd == permits + OpenChecks + Holding = MaxProbes /\ checkPermits + OpenChecks = MaxChecks

IdInv == IdTypes /\ Id!IdsProper /\ PermitsAdd

-----------------------------------------------------------------------------
LEMMA LoginIdCardinality == \A S : Id!Cardinality(S) = Cardinality(S)
BY DEF Id!Cardinality, Cardinality

LEMMA AllocateGood ==
  ASSUME IdBounds, NEW n \in 1 .. LowTop
  PROVE  /\ Id!AllocateLowId(n)[1] = IF n = LowTop THEN 1 ELSE n
         /\ Id!AllocateLowId(n)[2] = IF n = LowTop THEN 1 ELSE n + 1
<1>1. CASE n = LowTop
  <2>1. Id!AllocateLowId(n) = <<1, 1>> BY <1>1 DEF Id!AllocateLowId, IdBounds
  <2> QED BY <1>1, <2>1
<1>2. CASE n # LowTop
  <2>1. Id!AllocateLowId(n) = <<n, n + 1>> BY <1>2 DEF Id!AllocateLowId, IdBounds
  <2> QED BY <1>2, <2>1
<1> QED BY <1>1, <1>2

(* Four tries meet both parities, also across the wrap.                    *)
LEMMA LowIdGood ==
  ASSUME IdBounds, nextLow \in 1 .. LowTop, NEW u \in Users
  PROVE  /\ Id!LowIdFor(u)[1] \in 1 .. LowTop - 1 /\ Id!LowIdFor(u)[2] \in 1 .. LowTop
         /\ Id!LowIdFor(u)[1] % 2 = 1 <=> u \in Odd
<1> DEFINE A(n) == Id!AllocateLowId(n)
           a1 == A(nextLow)
           a2 == A(a1[2])
           a3 == A(a2[2])
           a4 == A(a3[2])
           f == [k \in 1 .. 4 |-> IF k = 1 THEN a1 ELSE IF k = 2 THEN a2 ELSE IF k = 3 THEN a3 ELSE a4]
           t == CHOOSE tries : tries = [k \in 1 .. 4 |-> A(IF k = 1 THEN nextLow ELSE tries[k - 1][2])]
           want == IF u \in Odd THEN 1 ELSE 0
           fits == {k \in 1 .. 4 : t[k][1] % 2 = want}
           k0 == CHOOSE k \in fits : \A j \in fits : k <= j
<1>1. LowTop \in Nat /\ LowTop >= 3 BY DEF IdBounds
<1>2. /\ a1[1] = IF nextLow = LowTop THEN 1 ELSE nextLow
      /\ a1[2] = IF nextLow = LowTop THEN 1 ELSE nextLow + 1
  BY AllocateGood
<1>3. a1[2] \in 1 .. LowTop BY <1>1, <1>2
<1>4. /\ a2[1] = IF a1[2] = LowTop THEN 1 ELSE a1[2]
      /\ a2[2] = IF a1[2] = LowTop THEN 1 ELSE a1[2] + 1
  BY <1>3, AllocateGood
<1>5. a2[2] \in 1 .. LowTop BY <1>1, <1>3, <1>4
<1>6. /\ a3[1] = IF a2[2] = LowTop THEN 1 ELSE a2[2]
      /\ a3[2] = IF a2[2] = LowTop THEN 1 ELSE a2[2] + 1
  BY <1>5, AllocateGood
<1>7. a3[2] \in 1 .. LowTop BY <1>1, <1>5, <1>6
<1>8. /\ a4[1] = IF a3[2] = LowTop THEN 1 ELSE a3[2]
      /\ a4[2] = IF a3[2] = LowTop THEN 1 ELSE a3[2] + 1
  BY <1>7, AllocateGood
<1>9. f = [k \in 1 .. 4 |-> A(IF k = 1 THEN nextLow ELSE f[k - 1][2])]
  <2>1. f[1] = a1 /\ f[2] = a2 /\ f[3] = a3 /\ f[4] = a4
    <3> HIDE DEF a1, a2, a3, a4
    <3> QED OBVIOUS
  <2>2. f = [k \in 1 .. 4 |-> f[k]] BY Zenon
  <2> HIDE DEF f
  <2>3. ASSUME NEW k \in 1 .. 4 PROVE f[k] = A(IF k = 1 THEN nextLow ELSE f[k - 1][2])
    <3> HIDE DEF A
    <3>1. CASE k = 1 BY <2>1, <3>1
    <3>2. CASE k = 2 BY <2>1, <3>2
    <3>3. CASE k = 3 BY <2>1, <3>3
    <3>4. CASE k = 4 BY <2>1, <3>4
    <3> QED BY <3>1, <3>2, <3>3, <3>4
  <2> HIDE DEF A
  <2> QED BY <2>2, <2>3
<1>10. t = [k \in 1 .. 4 |-> A(IF k = 1 THEN nextLow ELSE t[k - 1][2])]
  <2> HIDE DEF f, A
  <2> QED BY <1>9
<1>11. t[1] = a1 /\ t[2] = a2 /\ t[3] = a3 /\ t[4] = a4
  <2> HIDE DEF t, A
  <2>1. \A k \in 1 .. 4 : t[k] = A(IF k = 1 THEN nextLow ELSE t[k - 1][2]) BY <1>10
  <2>2. t[1] = a1 BY <2>1
  <2>3. t[2] = a2
    <3>1. 2 \in 1 .. 4 /\ 2 - 1 = 1 /\ 2 # 1 OBVIOUS
    <3> HIDE DEF a1
    <3> QED BY <2>1, <2>2, <3>1
  <2>4. t[3] = a3
    <3>1. 3 \in 1 .. 4 /\ 3 - 1 = 2 /\ 3 # 1 OBVIOUS
    <3> HIDE DEF a1, a2
    <3> QED BY <2>1, <2>3, <3>1
  <2>5. t[4] = a4
    <3>1. 4 \in 1 .. 4 /\ 4 - 1 = 3 /\ 4 # 1 OBVIOUS
    <3> HIDE DEF a1, a2, a3
    <3> QED BY <2>1, <2>4, <3>1
  <2> QED BY <2>2, <2>3, <2>4, <2>5
<1> HIDE DEF t, a1, a2, a3, a4, A
<1>12. \A k \in 1 .. 4 : t[k][1] \in 1 .. LowTop - 1 /\ t[k][2] \in 1 .. LowTop
  <2>1. a1[1] \in 1 .. LowTop - 1 BY <1>1, <1>2
  <2>2. a2[1] \in 1 .. LowTop - 1 BY <1>1, <1>3, <1>4
  <2>3. a3[1] \in 1 .. LowTop - 1 BY <1>1, <1>5, <1>6
  <2>4. a4[1] \in 1 .. LowTop - 1 /\ a4[2] \in 1 .. LowTop BY <1>1, <1>7, <1>8
  <2>5. \A k \in 1 .. 4 : k = 1 \/ k = 2 \/ k = 3 \/ k = 4 OBVIOUS
  <2> QED BY <1>3, <1>5, <1>7, <1>11, <2>1, <2>2, <2>3, <2>4, <2>5
<1>13. want \in {0, 1} /\ (want = 1 <=> u \in Odd) OBVIOUS
<1> HIDE DEF want
<1>14. \E k \in 1 .. 4 : t[k][1] % 2 = want
  <2>1. CASE nextLow < LowTop - 1
    <3>1. a1[1] = nextLow /\ a2[1] = nextLow + 1 BY <1>1, <1>2, <1>4, <2>1
    <3>2. nextLow % 2 = want \/ (nextLow + 1) % 2 = want BY <1>13
    <3> QED BY <1>11, <3>1, <3>2
  <2>2. CASE nextLow = LowTop - 1
    <3>1. a1[2] = LowTop BY <1>1, <1>2, <2>2
    <3>2. a2[2] = 1 BY <1>1, <1>4, <3>1
    <3>3. a3[1] = 1 /\ a3[2] = 2 BY <1>1, <1>6, <3>2
    <3>4. a4[1] = 2 BY <1>1, <1>8, <3>3
    <3>5. 1 % 2 = 1 /\ 2 % 2 = 0 OBVIOUS
    <3> QED BY <1>11, <1>13, <3>3, <3>4, <3>5
  <2>3. CASE nextLow = LowTop
    <3>1. a1[1] = 1 /\ a1[2] = 1 BY <1>1, <1>2, <2>3
    <3>2. a2[1] = 1 /\ a2[2] = 2 BY <1>1, <1>4, <3>1
    <3>3. a3[1] = 2 BY <1>1, <1>6, <3>2
    <3>4. 1 % 2 = 1 /\ 2 % 2 = 0 OBVIOUS
    <3> QED BY <1>11, <1>13, <3>1, <3>3, <3>4
  <2>4. nextLow < LowTop - 1 \/ nextLow = LowTop - 1 \/ nextLow = LowTop BY <1>1
  <2> QED BY <2>1, <2>2, <2>3, <2>4
<1>15. fits # {} /\ fits \subseteq 1 .. 4 BY <1>14
<1>16. \A k \in fits : t[k][1] % 2 = want OBVIOUS
<1> HIDE DEF fits
<1>17. \E k \in fits : \A j \in fits : k <= j
  <2>1. CASE 1 \in fits BY <1>15, <2>1
  <2>2. CASE 1 \notin fits /\ 2 \in fits
    <3>1. \A j \in fits : 2 <= j BY <1>15, <2>2
    <3> QED BY <2>2, <3>1
  <2>3. CASE 1 \notin fits /\ 2 \notin fits /\ 3 \in fits
    <3>1. \A j \in fits : 3 <= j BY <1>15, <2>3
    <3> QED BY <2>3, <3>1
  <2>4. CASE 1 \notin fits /\ 2 \notin fits /\ 3 \notin fits
    <3>1. \A j \in fits : j = 4 BY <1>15, <2>4
    <3>2. PICK k \in fits : k = 4 BY <1>15, <3>1
    <3>3. \A j \in fits : k <= j BY <3>1, <3>2
    <3> QED BY <3>2, <3>3
  <2> QED BY <2>1, <2>2, <2>3, <2>4
<1>18. k0 \in fits BY <1>17
<1>19. Id!LowIdFor(u) = t[k0]
  BY Zenon DEF Id!LowIdFor, t, k0, fits, want, A
<1> HIDE DEF k0
<1>20. k0 \in 1 .. 4 /\ t[k0][1] % 2 = want BY <1>15, <1>16, <1>18
<1> QED BY <1>12, <1>13, <1>19, <1>20
-----------------------------------------------------------------------------
(* How one more check, or one fewer, is counted.                           *)
LEMMA RunFinite ==
  ASSUME IdBounds, NEW c
  PROVE  IsFiniteSet(RunSet(c)) /\ Cardinality(RunSet(c)) \in Nat
<1>1. IsFiniteSet(1 .. MaxChecks) BY FS_Interval DEF IdBounds
<1>2. IsFiniteSet(Users \X (1 .. MaxChecks)) BY <1>1, FS_Product DEF IdBounds
<1>3. RunSet(c) \in SUBSET (Users \X (1 .. MaxChecks)) BY DEF RunSet
<1>4. IsFiniteSet(RunSet(c)) BY <1>2, <1>3, FS_Subset
<1> QED BY <1>4, FS_CardinalityType

LEMMA RunMore ==
  ASSUME IdBounds, NEW c \in [Users -> 0 .. MaxChecks], NEW u \in Users, c[u] < MaxChecks
  PROVE  Cardinality(RunSet([c EXCEPT ![u] = @ + 1])) = Cardinality(RunSet(c)) + 1
<1> DEFINE d == [c EXCEPT ![u] = @ + 1]
           x == <<u, c[u] + 1>>
<1>1. MaxChecks \in Nat /\ c[u] \in 0 .. MaxChecks /\ c[u] + 1 \in 1 .. MaxChecks BY DEF IdBounds
<1>2. d[u] = c[u] + 1 /\ \A v \in Users \ {u} : d[v] = c[v] OBVIOUS
<1> HIDE DEF d
<1>3. ASSUME NEW v \in Users, NEW k \in 1 .. MaxChecks
      PROVE  k <= d[v] <=> k <= c[v] \/ (v = u /\ k = c[u] + 1)
  <2>1. CASE v = u BY <1>1, <1>2, <2>1
  <2>2. CASE v # u
    <3>1. d[v] = c[v] BY <1>2, <2>2
    <3> QED BY <2>2, <3>1
  <2> QED BY <2>1, <2>2
<1>4. RunSet(d) = RunSet(c) \cup {x}
  <2>1. ASSUME NEW v \in Users, NEW k \in 1 .. MaxChecks
        PROVE  <<v, k>> \in RunSet(d) <=> <<v, k>> \in RunSet(c) \/ <<v, k>> = x
    <3>1. <<v, k>> \in RunSet(d) <=> k <= d[v] BY DEF RunSet
    <3>2. <<v, k>> \in RunSet(c) <=> k <= c[v] BY DEF RunSet
    <3>3. <<v, k>> = x <=> v = u /\ k = c[u] + 1 OBVIOUS
    <3> HIDE DEF x
    <3> QED BY Zenon, <1>3, <3>1, <3>2, <3>3
  <2>2. x \in Users \X (1 .. MaxChecks) BY <1>1
  <2>3. RunSet(d) \subseteq Users \X (1 .. MaxChecks) /\ RunSet(c) \subseteq Users \X (1 .. MaxChecks)
    BY DEF RunSet
  <2> HIDE DEF x
  <2> QED BY <2>1, <2>2, <2>3
<1>5. x \notin RunSet(c) BY <1>1 DEF RunSet
<1>6. Cardinality(RunSet(c) \cup {x}) = Cardinality(RunSet(c)) + 1
  <2>1. IsFiniteSet(RunSet(c)) BY RunFinite
  <2> HIDE DEF x
  <2> QED BY <1>5, <2>1, FS_AddElement
<1> QED BY <1>4, <1>6 DEF d

LEMMA RunLess ==
  ASSUME IdBounds, NEW c \in [Users -> 0 .. MaxChecks], NEW u \in Users, c[u] > 0
  PROVE  /\ [c EXCEPT ![u] = @ - 1] \in [Users -> 0 .. MaxChecks]
         /\ Cardinality(RunSet(c)) = Cardinality(RunSet([c EXCEPT ![u] = @ - 1])) + 1
<1> DEFINE d == [c EXCEPT ![u] = @ - 1]
<1>1. MaxChecks \in Nat /\ c[u] \in 1 .. MaxChecks BY DEF IdBounds
<1>2. c[u] - 1 \in 0 .. MaxChecks BY <1>1
<1>3. d \in [Users -> 0 .. MaxChecks] /\ d[u] = c[u] - 1 BY <1>2
<1>4. d[u] < MaxChecks /\ d[u] + 1 = c[u] BY <1>1, <1>3
<1>5. [d EXCEPT ![u] = @ + 1] = c
  <2>1. \A v \in Users : [d EXCEPT ![u] = @ + 1][v] = c[v] BY <1>1
  <2> QED BY <2>1
<1> HIDE DEF d
<1>6. Cardinality(RunSet([d EXCEPT ![u] = @ + 1])) = Cardinality(RunSet(d)) + 1
  BY <1>3, <1>4, RunMore
<1> QED BY <1>3, <1>5, <1>6 DEF d

(* While a check's permit is free, no user has as many as there are.       *)
LEMMA RunRoom ==
  ASSUME IdBounds, NEW c \in [Users -> 0 .. MaxChecks], NEW u \in Users,
         Cardinality(RunSet(c)) < MaxChecks
  PROVE  c[u] < MaxChecks
<1> SUFFICES ASSUME c[u] = MaxChecks PROVE FALSE
  BY DEF IdBounds
<1> DEFINE S == {u} \X (1 .. MaxChecks)
           b == [k \in 1 .. MaxChecks |-> <<u, k>>]
<1>1. S \in SUBSET RunSet(c)
  <2>1. ASSUME NEW k \in 1 .. MaxChecks PROVE <<u, k>> \in RunSet(c)
    <3>1. k <= c[u] OBVIOUS
    <3> QED BY <3>1 DEF RunSet
  <2> QED BY <2>1
<1>2. b \in Bijection(1 .. MaxChecks, S)
  BY DEF Bijection, Injection, Surjection, IsInjective
<1>3. ExistsBijection(1 .. MaxChecks, S)
  <2> HIDE DEF b, S
  <2> QED BY <1>2 DEF ExistsBijection
<1>4. IsFiniteSet(1 .. MaxChecks) /\ Cardinality(1 .. MaxChecks) = MaxChecks
  <2>1. MaxChecks \in Nat BY DEF IdBounds
  <2>2. IsFiniteSet(1 .. MaxChecks) /\ Cardinality(1 .. MaxChecks) = IF 1 > MaxChecks THEN 0 ELSE MaxChecks - 1 + 1
    BY <2>1, FS_Interval
  <2> QED BY <2>1, <2>2
<1> HIDE DEF S
<1>5. Cardinality(S) = MaxChecks BY <1>3, <1>4, FS_Bijection
<1>6. Cardinality(S) <= Cardinality(RunSet(c)) BY <1>1, RunFinite, FS_Subset
<1> QED BY <1>5, <1>6, RunFinite DEF IdBounds

(* How a login that starts or ends its probe is counted.                   *)
LEMMA HeldCounts ==
  ASSUME IdBounds, NEW s \in [Users -> Steps], NEW u \in Users, NEW x \in Steps
  PROVE  LET t == [s EXCEPT ![u] = x]
             n == Cardinality(Held(s))
             m == Cardinality(Held(t))
         IN /\ n \in Nat /\ m \in Nat
            /\ s[u] \in Probing /\ x \in Probing => m = n
            /\ s[u] \notin Probing /\ x \notin Probing => m = n
            /\ s[u] \in Probing /\ x \notin Probing => n = m + 1
            /\ s[u] \notin Probing /\ x \in Probing => m = n + 1
<1> DEFINE t == [s EXCEPT ![u] = x]
<1>1. t[u] = x /\ \A v \in Users \ {u} : t[v] = s[v] OBVIOUS
<1> HIDE DEF t
<1>2. \A r : IsFiniteSet(Held(r)) /\ Cardinality(Held(r)) \in Nat
  <2> SUFFICES ASSUME NEW r PROVE IsFiniteSet(Held(r)) /\ Cardinality(Held(r)) \in Nat
    OBVIOUS
  <2>1. Held(r) \in SUBSET Users BY DEF Held
  <2>2. IsFiniteSet(Held(r)) BY <2>1, FS_Subset DEF IdBounds
  <2> QED BY <2>2, FS_CardinalityType
<1>3. (s[u] \in Probing <=> x \in Probing) => Held(t) = Held(s) BY <1>1 DEF Held
<1>4. ASSUME s[u] \in Probing, x \notin Probing PROVE Cardinality(Held(s)) = Cardinality(Held(t)) + 1
  <2>1. Held(s) = Held(t) \cup {u} /\ u \notin Held(t) BY <1>1, <1>4 DEF Held
  <2> QED BY <1>2, <2>1, FS_AddElement
<1>5. ASSUME s[u] \notin Probing, x \in Probing PROVE Cardinality(Held(t)) = Cardinality(Held(s)) + 1
  <2>1. Held(t) = Held(s) \cup {u} /\ u \notin Held(s) BY <1>1, <1>5 DEF Held
  <2> QED BY <1>2, <2>1, FS_AddElement
<1> QED BY <1>2, <1>3, <1>4, <1>5 DEF t
-----------------------------------------------------------------------------
(* Of a step that gives a user an id: it is proper, the others keep theirs. *)
LEMMA LowGiven ==
  ASSUME IdBounds, IdTypes, Id!IdsProper, NEW u \in Users, Id!Low(u)
  PROVE  /\ nextLow' \in 1 .. LowTop /\ step' = [step EXCEPT ![u] = "in"]
         /\ given' \in [Users -> [id : Nat, high : BOOLEAN]] /\ Id!IdsProper'
<1> DEFINE r == Id!LowIdFor(u)
           g == [id |-> r[1], high |-> FALSE]
<1>1. r[1] \in 1 .. LowTop - 1 /\ r[2] \in 1 .. LowTop /\ (r[1] % 2 = 1 <=> u \in Odd)
  BY LowIdGood DEF IdTypes
<1>2. given' = [given EXCEPT ![u] = g] /\ nextLow' = r[2] /\ step' = [step EXCEPT ![u] = "in"]
  BY Zenon DEF Id!Low
<1> HIDE DEF r
<1>3. r[1] \in Nat /\ g.id = r[1] /\ g.high = FALSE BY <1>1
<1>4. g \in [id : Nat, high : BOOLEAN] BY Zenon, <1>3
<1> HIDE DEF g
<1>5. /\ given' \in [Users -> [id : Nat, high : BOOLEAN]]
      /\ given'[u] = g /\ \A v \in Users \ {u} : given'[v] = given[v]
  BY Zenon, <1>2, <1>4 DEF IdTypes
<1>6. \A v \in Users \ {u} : step'[v] = step[v] BY Zenon, <1>2 DEF IdTypes
<1>7. ASSUME NEW v \in Users, step'[v] = "in"
      PROVE  IF given'[v].high THEN given'[v].id > LowTop
             ELSE given'[v].id \in 1 .. LowTop - 1 /\ (given'[v].id % 2 = 1 <=> v \in Odd)
  <2>1. CASE v = u BY Zenon, <1>1, <1>3, <1>5, <2>1
  <2>2. CASE v # u BY Zenon, <1>5, <1>6, <1>7, <2>2 DEF Id!IdsProper
  <2> QED BY <2>1, <2>2
<1>8. Id!IdsProper' BY Zenon, <1>7 DEF Id!IdsProper
<1>9. nextLow' \in 1 .. LowTop BY Zenon, <1>1, <1>2
<1> QED BY Zenon, <1>2, <1>5, <1>8, <1>9

LEMMA IdGiven ==
  ASSUME IdBounds, IdTypes, Id!IdsProper, NEW u \in Users, NEW i \in Nat, Id!HighOrLowId(u, i)
  PROVE  /\ nextLow' \in 1 .. LowTop /\ step' = [step EXCEPT ![u] = "in"]
         /\ given' \in [Users -> [id : Nat, high : BOOLEAN]] /\ Id!IdsProper'
<1>1. CASE ~(i > LowTop)
  <2>1. Id!Low(u) BY Zenon, <1>1 DEF Id!HighOrLowId
  <2> QED BY Zenon, <2>1, LowGiven
<1>2. CASE i > LowTop
  <2> DEFINE g == [id |-> i, high |-> TRUE]
  <2>1. given' = [given EXCEPT ![u] = g] /\ nextLow' = nextLow /\ step' = [step EXCEPT ![u] = "in"]
    BY Zenon, <1>2 DEF Id!HighOrLowId
  <2>2. g \in [id : Nat, high : BOOLEAN] /\ g.id = i /\ g.high BY Zenon
  <2> HIDE DEF g
  <2>3. /\ given' \in [Users -> [id : Nat, high : BOOLEAN]]
        /\ given'[u] = g /\ \A v \in Users \ {u} : given'[v] = given[v]
    BY Zenon, <2>1, <2>2 DEF IdTypes
  <2>4. \A v \in Users \ {u} : step'[v] = step[v] BY Zenon, <2>1 DEF IdTypes
  <2>5. ASSUME NEW v \in Users, step'[v] = "in"
        PROVE  IF given'[v].high THEN given'[v].id > LowTop
               ELSE given'[v].id \in 1 .. LowTop - 1 /\ (given'[v].id % 2 = 1 <=> v \in Odd)
    <3>1. CASE v = u BY Zenon, <1>2, <2>2, <2>3, <3>1
    <3>2. CASE v # u BY Zenon, <2>3, <2>4, <2>5, <3>2 DEF Id!IdsProper
    <3> QED BY <3>1, <3>2
  <2>6. Id!IdsProper' BY Zenon, <2>5 DEF Id!IdsProper
  <2>7. nextLow' \in 1 .. LowTop BY <2>1 DEF IdTypes
  <2> QED BY Zenon, <2>1, <2>3, <2>6, <2>7
<1> QED BY <1>1, <1>2

(* A step that gives no id leaves the ids proper, if nobody gets in by it. *)
LEMMA ProperKept ==
  ASSUME IdTypes, Id!IdsProper, given' = given, NEW u \in Users, NEW x \in Steps \ {"in"},
         step' = [step EXCEPT ![u] = x]
  PROVE  Id!IdsProper'
<1>1. \A v \in Users : step'[v] = "in" => step[v] = "in" BY DEF IdTypes
<1> QED BY Zenon, <1>1 DEF Id!IdsProper

LEMMA StepCounts ==
  ASSUME IdBounds, IdTypes, NEW u \in Users, NEW x \in Steps, step' = [step EXCEPT ![u] = x]
  PROVE  /\ step' \in [Users -> Steps] /\ Holding \in Nat /\ Holding' \in Nat
         /\ step[u] \in Probing /\ x \in Probing => Holding' = Holding
         /\ step[u] \notin Probing /\ x \notin Probing => Holding' = Holding
         /\ step[u] \in Probing /\ x \notin Probing => Holding = Holding' + 1
         /\ step[u] \notin Probing /\ x \in Probing => Holding' = Holding + 1
<1>1. step \in [Users -> Steps] BY DEF IdTypes
<1>2. step' \in [Users -> Steps] BY <1>1
<1>3. Holding' = Cardinality(Held([step EXCEPT ![u] = x])) BY DEF Holding, Held
<1>4. Holding = Cardinality(Held(step)) BY DEF Holding
<1> QED BY Zenon, <1>1, <1>2, <1>3, <1>4, HeldCounts

LEMMA RunningCounted == IdBounds => OpenChecks \in Nat
BY RunFinite DEF OpenChecks

LEMMA RunningKept == checks' = checks => OpenChecks' = OpenChecks
BY DEF OpenChecks, RunSet

LEMMA IdStart ==
  ASSUME IdBounds, IdInv, NEW u \in Users, Id!AssignStart(u)
  PROVE  IdInv'
<1>1. step[u] = "out" /\ UNCHANGED <<checks, marks, checkPermits>> BY DEF Id!AssignStart
<1>2. IdTypes /\ Id!IdsProper /\ PermitsAdd BY DEF IdInv
<1>3. OpenChecks \in Nat /\ OpenChecks' = OpenChecks BY <1>1, RunningCounted, RunningKept
<1>4. CASE Id!Low(u) /\ permits' = permits
  <2>1. /\ nextLow' \in 1 .. LowTop /\ step' = [step EXCEPT ![u] = "in"]
        /\ given' \in [Users -> [id : Nat, high : BOOLEAN]] /\ Id!IdsProper'
    BY Zenon, <1>2, <1>4, LowGiven
  <2>2. Holding' = Holding /\ step' \in [Users -> Steps]
    BY <1>1, <1>2, <2>1, StepCounts DEF Steps, Probing
  <2>3. PermitsAdd' BY <1>1, <1>2, <1>3, <1>4, <2>2 DEF PermitsAdd
  <2>4. IdTypes' BY Zenon, <1>1, <1>2, <1>4, <2>1, <2>2 DEF IdTypes
  <2> QED BY Zenon, <2>1, <2>3, <2>4 DEF IdInv
<1>5. CASE ~(Id!Low(u) /\ permits' = permits)
  <2>1. /\ permits # 0 /\ permits' = permits - 1 /\ step' = [step EXCEPT ![u] = "probe"]
        /\ UNCHANGED <<nextLow, given>>
    BY <1>5 DEF Id!AssignStart
  <2>2. Holding \in Nat /\ Holding' = Holding + 1 /\ step' \in [Users -> Steps]
    BY <1>1, <1>2, <2>1, StepCounts DEF Steps, Probing
  <2>3. permits' \in 0 .. MaxProbes BY <1>2, <2>1 DEF IdTypes, IdBounds
  <2>4. permits \in Nat /\ MaxProbes \in Nat BY <1>2 DEF IdTypes, IdBounds
  <2>5. PermitsAdd' BY <1>1, <1>2, <1>3, <2>1, <2>2, <2>4 DEF PermitsAdd
  <2>6. IdTypes' BY Zenon, <1>1, <1>2, <2>1, <2>2, <2>3 DEF IdTypes
  <2>7. Id!IdsProper' BY <1>2, <2>1, ProperKept DEF Steps
  <2> QED BY Zenon, <2>5, <2>6, <2>7 DEF IdInv
<1> QED BY <1>4, <1>5

(* The login's permit is given back or is the check's. *)
LEMMA IdOpens ==
  ASSUME IdBounds, IdInv, NEW u \in Users, Id!PortOpen(u)
  PROVE  IdInv'
<1>1. step[u] = "probe" /\ marks' = marks /\ Id!SpawnCheck(u) BY DEF Id!PortOpen
<1>2. IdTypes /\ Id!IdsProper /\ PermitsAdd BY DEF IdInv
<1>3. /\ nextLow' \in 1 .. LowTop /\ step' = [step EXCEPT ![u] = "in"]
      /\ given' \in [Users -> [id : Nat, high : BOOLEAN]] /\ Id!IdsProper'
  <2>1. Id!Low(u) \/ Id!HighOrLowId(u, HighOf[u]) BY Zenon DEF Id!PortOpen
  <2>2. HighOf[u] \in Nat BY DEF IdBounds
  <2> QED BY Zenon, <1>2, <2>1, <2>2, LowGiven, IdGiven
<1>4. Holding \in Nat /\ Holding' \in Nat /\ Holding = Holding' + 1 /\ step' \in [Users -> Steps]
  BY <1>1, <1>2, <1>3, StepCounts DEF Steps, Probing
<1>5. /\ OpenChecks \in Nat /\ permits \in Nat /\ checkPermits \in Nat /\ MaxProbes \in Nat /\ MaxChecks \in Nat
      /\ checks \in [Users -> 0 .. MaxChecks]
  BY <1>2, RunningCounted DEF IdTypes, IdBounds
<1>6. CASE checkPermits > 0 /\ checks' = [checks EXCEPT ![u] = @ + 1] /\ checkPermits' = checkPermits - 1 /\ permits' = permits
  <2>1. OpenChecks < MaxChecks BY <1>2, <1>5, <1>6 DEF PermitsAdd
  <2>2. checks[u] < MaxChecks BY <1>5, <2>1, RunRoom DEF OpenChecks
  <2>3. OpenChecks' = OpenChecks + 1
    <3>1. OpenChecks' = Cardinality(RunSet([checks EXCEPT ![u] = @ + 1])) BY <1>6 DEF OpenChecks, RunSet
    <3> QED BY Zenon, <1>5, <2>2, <3>1, RunMore DEF OpenChecks
  <2>4. PermitsAdd'
    <3>1. permits' = permits /\ checkPermits' = checkPermits - 1 BY <1>6
    <3>2. permits + OpenChecks + Holding = MaxProbes /\ checkPermits + OpenChecks = MaxChecks
      BY <1>2 DEF PermitsAdd
    <3>3. OpenChecks \in Nat /\ Holding' \in Nat /\ permits \in Nat /\ checkPermits \in Nat /\ Holding = Holding' + 1
      BY <1>4, <1>5
    <3>4. permits' + OpenChecks' + Holding' = MaxProbes /\ checkPermits' + OpenChecks' = MaxChecks
      BY <2>3, <3>1, <3>2, <3>3
    <3> QED BY <3>4 DEF PermitsAdd
  <2>5. checks' \in [Users -> 0 .. MaxChecks] /\ checkPermits' \in 0 .. MaxChecks
    <3>1. checks[u] + 1 \in 0 .. MaxChecks BY <1>5, <2>2
    <3>2. checkPermits \in 0 .. MaxChecks BY <1>2 DEF IdTypes
    <3> QED BY <1>5, <1>6, <3>1, <3>2
  <2>6. IdTypes' BY Zenon, <1>1, <1>2, <1>3, <1>4, <1>6, <2>5 DEF IdTypes
  <2> QED BY Zenon, <1>3, <2>4, <2>6 DEF IdInv
<1>7. CASE permits' = permits + 1 /\ UNCHANGED <<checks, checkPermits>>
  <2>1. OpenChecks' = OpenChecks BY <1>7, RunningKept
  <2>2. /\ permits' = permits + 1 /\ checkPermits' = checkPermits
        /\ permits + OpenChecks + Holding = MaxProbes /\ checkPermits + OpenChecks = MaxChecks
    BY <1>2, <1>7 DEF PermitsAdd
  <2>6. OpenChecks \in Nat /\ Holding' \in Nat /\ permits \in Nat /\ Holding = Holding' + 1
    BY <1>4, <1>5
  <2>3. /\ permits' \in 0 .. MaxProbes
        /\ permits' + OpenChecks' + Holding' = MaxProbes /\ checkPermits' + OpenChecks' = MaxChecks
    <3>1. permits + OpenChecks + Holding = MaxProbes BY Zenon, <2>2
    <3>2. OpenChecks \in Nat /\ Holding' \in Nat /\ permits \in Nat BY <2>6
    <3>3. (permits + 1) + OpenChecks + Holding' = MaxProbes BY <2>6, <3>1, <3>2
    <3>4. permits + 1 \in 0 .. MaxProbes BY <3>2, <3>3
    <3> QED BY Zenon, <2>1, <2>2, <3>3, <3>4
  <2>5. PermitsAdd' BY <2>3 DEF PermitsAdd
  <2>4. IdTypes' BY Zenon, <1>1, <1>2, <1>3, <1>4, <1>7, <2>3 DEF IdTypes
  <2> QED BY Zenon, <1>3, <2>4, <2>5 DEF IdInv
<1>8. \/ checkPermits > 0 /\ checks' = [checks EXCEPT ![u] = @ + 1] /\ checkPermits' = checkPermits - 1 /\ permits' = permits
      \/ permits' = permits + 1 /\ UNCHANGED <<checks, checkPermits>>
  BY Zenon, <1>1 DEF Id!SpawnCheck
<1> QED BY Zenon, <1>6, <1>7, <1>8

(* A login's probe that ends with an id, its permit given back. *)
LEMMA ProbeGivesBack ==
  ASSUME IdBounds, IdInv, NEW u \in Users, step[u] \in Probing, permits' = permits + 1,
         Id!Low(u) \/ \E i \in Nat : Id!HighOrLowId(u, i), UNCHANGED <<checks, marks, checkPermits>>
  PROVE  IdInv'
<1>1. IdTypes /\ Id!IdsProper /\ PermitsAdd BY DEF IdInv
<1>2. /\ nextLow' \in 1 .. LowTop /\ step' = [step EXCEPT ![u] = "in"]
      /\ given' \in [Users -> [id : Nat, high : BOOLEAN]] /\ Id!IdsProper'
  BY Zenon, <1>1, LowGiven, IdGiven
<1>3. Holding \in Nat /\ Holding' \in Nat /\ Holding = Holding' + 1 /\ step' \in [Users -> Steps]
  BY <1>1, <1>2, StepCounts DEF Steps, Probing
<1>4. OpenChecks \in Nat /\ OpenChecks' = OpenChecks BY RunningCounted, RunningKept
<1>5. permits \in Nat /\ checkPermits \in Nat /\ MaxProbes \in Nat BY <1>1 DEF IdTypes, IdBounds
<1>6. /\ permits' = permits + 1 /\ checkPermits' = checkPermits
      /\ permits + OpenChecks + Holding = MaxProbes /\ checkPermits + OpenChecks = MaxChecks
  BY <1>1 DEF PermitsAdd
<1>10. OpenChecks \in Nat /\ Holding' \in Nat /\ permits \in Nat /\ Holding = Holding' + 1
  BY <1>3, <1>4, <1>5
<1>7. /\ permits' \in 0 .. MaxProbes
      /\ permits' + OpenChecks' + Holding' = MaxProbes /\ checkPermits' + OpenChecks' = MaxChecks
  <2>1. permits + OpenChecks + Holding = MaxProbes BY Zenon, <1>6
  <2>2. (permits + 1) + OpenChecks + Holding' = MaxProbes BY <1>10, <2>1
  <2>3. permits + 1 \in 0 .. MaxProbes
    <3>1. OpenChecks \in Nat /\ Holding' \in Nat /\ permits \in Nat BY <1>10
    <3> QED BY <2>2, <3>1
  <2> QED BY Zenon, <1>4, <1>6, <2>2, <2>3
<1>9. PermitsAdd' BY <1>7 DEF PermitsAdd
<1>8. IdTypes' BY Zenon, <1>1, <1>2, <1>3, <1>7 DEF IdTypes
<1> QED BY Zenon, <1>2, <1>8, <1>9 DEF IdInv

(* One that goes on to its next try keeps it. *)
LEMMA ProbeGoesOn ==
  ASSUME IdBounds, IdInv, NEW u \in Users, step[u] \in Probing, NEW x \in Probing,
         step' = [step EXCEPT ![u] = x],
         UNCHANGED <<nextLow, given, permits>>, UNCHANGED <<checks, marks, checkPermits>>
  PROVE  IdInv'
<1>1. IdTypes /\ Id!IdsProper /\ PermitsAdd BY DEF IdInv
<1>2. x \in Steps \ {"in"} BY DEF Steps, Probing
<1>3. Holding' = Holding /\ step' \in [Users -> Steps] BY <1>1, <1>2, StepCounts
<1>4. OpenChecks' = OpenChecks BY RunningKept
<1>5. PermitsAdd' BY <1>1, <1>3, <1>4 DEF PermitsAdd
<1>6. IdTypes' BY Zenon, <1>1, <1>3 DEF IdTypes
<1>7. Id!IdsProper' BY <1>1, <1>2, ProperKept
<1> QED BY Zenon, <1>5, <1>6, <1>7 DEF IdInv

LEMMA IdClosed ==
  ASSUME IdBounds, IdInv, NEW u \in Users, Id!PortClosed(u)
  PROVE  IdInv'
<1>1. step[u] \in Probing /\ UNCHANGED <<checks, marks, checkPermits>> BY DEF Id!PortClosed, Probing
<1>2. CASE u \in Lan
  <2>1. step' = [step EXCEPT ![u] = "hairpin"] /\ UNCHANGED <<nextLow, given, permits>>
    BY <1>2 DEF Id!PortClosed
  <2>2. "hairpin" \in Probing BY DEF Probing
  <2> QED BY <1>1, <2>1, <2>2, ProbeGoesOn
<1>3. CASE u \notin Lan
  <2>1. Id!Low(u) /\ permits' = permits + 1 BY Zenon, <1>3 DEF Id!PortClosed
  <2> QED BY Zenon, <1>1, <2>1, ProbeGivesBack
<1> QED BY <1>2, <1>3

LEMMA IdHairpin ==
  ASSUME IdBounds, IdInv, NEW u \in Users, Id!HairpinCryptRefused(u)
  PROVE  IdInv'
<1>1. step[u] \in Probing /\ step' = [step EXCEPT ![u] = "plain"] /\ "plain" \in Probing
  BY DEF Id!HairpinCryptRefused, Probing
<1>2. UNCHANGED <<nextLow, given, permits>> /\ UNCHANGED <<checks, marks, checkPermits>>
  BY DEF Id!HairpinCryptRefused
<1> QED BY <1>1, <1>2, ProbeGoesOn

LEMMA IdAnswered ==
  ASSUME IdBounds, IdInv, NEW u \in Users, NEW same \in BOOLEAN, Id!HairpinAnswer(u, same)
  PROVE  IdInv'
<1>1. step[u] \in Probing /\ UNCHANGED <<checks, marks, checkPermits>> /\ permits' = permits + 1
  BY DEF Id!HairpinAnswer, Probing
<1>2. Id!Low(u) \/ Id!HighOrLowId(u, ThisIp) BY Zenon DEF Id!HairpinAnswer
<1>3. ThisIp \in Nat BY DEF IdBounds
<1> QED BY Zenon, <1>1, <1>2, <1>3, ProbeGivesBack

(* A check that is done gives back both its permits, whatever it found. *)
LEMMA IdChecked ==
  ASSUME IdBounds, IdInv, NEW u \in Users, NEW found, Id!CheckDone(u, found)
  PROVE  IdInv'
<1>1. /\ checks[u] > 0 /\ checks' = [checks EXCEPT ![u] = @ - 1]
      /\ permits' = permits + 1 /\ checkPermits' = checkPermits + 1 /\ UNCHANGED <<nextLow, step, given>>
  BY DEF Id!CheckDone
<1>2. marks' \subseteq Users
  <2>1. marks \subseteq Users BY DEF IdInv, IdTypes
  <2>2. marks' = marks \/ marks' = marks \ {u} \/ marks' = marks \cup {u} BY Zenon DEF Id!CheckDone
  <2> QED BY <2>1, <2>2
<1>3. IdTypes /\ Id!IdsProper /\ PermitsAdd BY DEF IdInv
<1>4. /\ permits \in Nat /\ checkPermits \in Nat /\ MaxProbes \in Nat /\ MaxChecks \in Nat
      /\ checks \in [Users -> 0 .. MaxChecks]
  BY <1>3 DEF IdTypes, IdBounds
<1>5. checks' \in [Users -> 0 .. MaxChecks] /\ OpenChecks = OpenChecks' + 1
  <2>1. OpenChecks' = Cardinality(RunSet([checks EXCEPT ![u] = @ - 1])) BY <1>1 DEF OpenChecks, RunSet
  <2>2. OpenChecks = Cardinality(RunSet(checks)) BY DEF OpenChecks
  <2> QED BY Zenon, <1>1, <1>4, <2>1, <2>2, RunLess
<1>6. OpenChecks' \in Nat
  <2>1. OpenChecks' = Cardinality(RunSet(checks')) BY DEF OpenChecks, RunSet
  <2> QED BY <2>1, RunFinite
<1>7. Holding' = Holding /\ Holding \in Nat
  <2>1. Holding' = Holding BY <1>1 DEF Holding, Held
  <2>2. Holding \in Nat
    <3>1. step \in [Users -> Steps] /\ "in" \in Steps BY <1>3 DEF IdTypes, Steps
    <3> QED BY Zenon, <3>1, HeldCounts DEF Holding
  <2> QED BY <2>1, <2>2
<1>8. /\ permits' = permits + 1 /\ checkPermits' = checkPermits + 1
      /\ permits + OpenChecks + Holding = MaxProbes /\ checkPermits + OpenChecks = MaxChecks
  BY <1>1, <1>3 DEF PermitsAdd
<1>13. permits \in Nat /\ checkPermits \in Nat /\ OpenChecks' \in Nat /\ OpenChecks = OpenChecks' + 1
  BY <1>4, <1>5, <1>6
<1>9. /\ permits' \in 0 .. MaxProbes /\ checkPermits' \in 0 .. MaxChecks
      /\ permits' + OpenChecks' + Holding' = MaxProbes /\ checkPermits' + OpenChecks' = MaxChecks
  <2>1. Holding \in Nat /\ Holding' \in Nat BY <1>7
  <2>2. permits + OpenChecks + Holding = MaxProbes /\ checkPermits + OpenChecks = MaxChecks BY Zenon, <1>8
  <2>3. permits + OpenChecks + Holding = MaxProbes BY <2>2
  <2>4. (permits + 1) + OpenChecks' + Holding = MaxProbes BY <1>13, <2>1, <2>3
  <2>5. checkPermits + OpenChecks = MaxChecks BY <2>2
  <2>6. (checkPermits + 1) + OpenChecks' = MaxChecks BY <1>13, <2>5
  <2>7. permits \in Nat /\ checkPermits \in Nat /\ OpenChecks' \in Nat BY <1>13
  <2>8. permits + 1 \in 0 .. MaxProbes BY <2>1, <2>4, <2>7
  <2>9. checkPermits + 1 \in 0 .. MaxChecks BY <2>6, <2>7
  <2> QED BY Zenon, <1>7, <1>8, <2>4, <2>6, <2>8, <2>9
<1>12. PermitsAdd' BY <1>9 DEF PermitsAdd
<1>10. IdTypes' BY Zenon, <1>1, <1>2, <1>3, <1>5, <1>9 DEF IdTypes
<1>11. Id!IdsProper' BY Zenon, <1>1, <1>3 DEF Id!IdsProper
<1> QED BY Zenon, <1>10, <1>11, <1>12 DEF IdInv

LEMMA IdLeaves ==
  ASSUME IdBounds, IdInv, NEW u \in Users, Id!Leave(u)
  PROVE  IdInv'
<1>1. /\ step[u] = "in" /\ step' = [step EXCEPT ![u] = "out"] /\ given' = [given EXCEPT ![u] = Id!NoIdYet]
      /\ UNCHANGED <<nextLow, checks, marks, permits, checkPermits>>
  BY DEF Id!Leave
<1>2. IdTypes /\ Id!IdsProper /\ PermitsAdd BY DEF IdInv
<1>3. Holding' = Holding /\ step' \in [Users -> Steps]
  BY <1>1, <1>2, StepCounts DEF Steps, Probing
<1>4. OpenChecks' = OpenChecks BY <1>1, RunningKept
<1>5. PermitsAdd' BY <1>1, <1>2, <1>3, <1>4 DEF PermitsAdd
<1>6. Id!NoIdYet \in [id : Nat, high : BOOLEAN]
  <2>1. 0 \in Nat OBVIOUS
  <2> QED BY Zenon, <2>1 DEF Id!NoIdYet
<1>7. /\ given' \in [Users -> [id : Nat, high : BOOLEAN]]
      /\ \A v \in Users \ {u} : given'[v] = given[v]
  BY Zenon, <1>1, <1>2, <1>6 DEF IdTypes
<1>8. IdTypes' BY Zenon, <1>1, <1>2, <1>3, <1>7 DEF IdTypes
<1>9. \A v \in Users : step'[v] = "in" => v # u /\ step[v] = "in" BY <1>1, <1>2 DEF IdTypes
<1>10. Id!IdsProper' BY Zenon, <1>2, <1>7, <1>9 DEF Id!IdsProper
<1> QED BY Zenon, <1>5, <1>8, <1>10 DEF IdInv

(* Where ids and permits are left alone. *)
LEMMA IdRests ==
  ASSUME IdInv, UNCHANGED <<nextLow, step, given, checks, permits, checkPermits>>, marks' \subseteq Users
  PROVE  IdInv'
<1>1. IdTypes' BY DEF IdInv, IdTypes
<1>2. Id!IdsProper' BY Zenon DEF IdInv, Id!IdsProper
<1>3. OpenChecks' = OpenChecks /\ Holding' = Holding BY DEF OpenChecks, RunSet, Holding, Held
<1>4. PermitsAdd' BY <1>3 DEF IdInv, PermitsAdd
<1> QED BY <1>1, <1>2, <1>4 DEF IdInv

LEMMA IdInit ==
  ASSUME IdBounds, Id!Init
  PROVE  IdInv
<1>1. /\ nextLow = 1 /\ step = [u \in Users |-> "out"] /\ given = [u \in Users |-> Id!NoIdYet]
      /\ checks = [u \in Users |-> 0] /\ marks = {} /\ permits = MaxProbes /\ checkPermits = MaxChecks
  BY DEF Id!Init
<1>2. Id!NoIdYet \in [id : Nat, high : BOOLEAN]
  <2>1. 0 \in Nat OBVIOUS
  <2> QED BY Zenon, <2>1 DEF Id!NoIdYet
<1>3. given \in [Users -> [id : Nat, high : BOOLEAN]] BY Zenon, <1>1, <1>2
<1>4. /\ nextLow \in 1 .. LowTop /\ step \in [Users -> Steps] /\ checks \in [Users -> 0 .. MaxChecks]
      /\ marks \subseteq Users /\ permits \in 0 .. MaxProbes /\ checkPermits \in 0 .. MaxChecks
  BY <1>1 DEF IdBounds, Steps
<1>5. IdTypes BY Zenon, <1>3, <1>4 DEF IdTypes
<1>6. \A u \in Users : step[u] # "in" BY <1>1
<1>7. Id!IdsProper BY Zenon, <1>6 DEF Id!IdsProper
<1>8. Held(step) = {} BY <1>1 DEF Held, Probing
<1>9. RunSet(checks) = {}
  <2>1. \A u \in Users : checks[u] = 0 BY <1>1
  <2>2. \A u \in Users, k \in 1 .. MaxChecks : ~(k <= checks[u]) BY <2>1
  <2> QED BY <2>2 DEF RunSet
<1>10. OpenChecks = 0 /\ Holding = 0 BY <1>8, <1>9, FS_EmptySet DEF OpenChecks, Holding
<1>11. PermitsAdd BY <1>1, <1>10 DEF PermitsAdd, IdBounds
<1> QED BY <1>5, <1>7, <1>11 DEF IdInv

LEMMA IdStep ==
  ASSUME IdBounds, IdInv, [Id!Next]_(Id!vars)
  PROVE  IdInv'
<1>1. ASSUME NEW u \in Users, Id!MarkEnds(u) PROVE IdInv'
  <2>1. UNCHANGED <<nextLow, step, given, checks, permits, checkPermits>> /\ marks' = marks \ {u}
    BY <1>1 DEF Id!MarkEnds
  <2>2. marks' \subseteq Users BY <2>1 DEF IdInv, IdTypes
  <2> QED BY <2>1, <2>2, IdRests
<1>2. CASE UNCHANGED Id!vars
  <2>1. UNCHANGED <<nextLow, step, given, checks, permits, checkPermits>> /\ marks' = marks
    BY <1>2 DEF Id!vars
  <2>2. marks' \subseteq Users BY <2>1 DEF IdInv, IdTypes
  <2> QED BY <2>1, <2>2, IdRests
<1> QED
  BY Zenon, <1>1, <1>2, IdStart, IdOpens, IdClosed, IdHairpin, IdAnswered, IdChecked, IdLeaves DEF Id!Next

LEMMA IdImplies ==
  ASSUME IdBounds, IdInv
  PROVE  IdsGiven
<1>1. Id!TypeOK
  <2>1. \A u \in Users : given[u].id \in Nat /\ given[u].high \in BOOLEAN
    BY Zenon DEF IdInv, IdTypes
  <2> QED BY Zenon, <2>1 DEF IdInv, IdTypes, Steps, Id!TypeOK
<1>2. Id!PermitsKept
  <2>1. OpenChecks = Id!Cardinality({c \in Users \X (1 .. MaxChecks) : c[2] <= checks[c[1]]})
    BY Zenon, LoginIdCardinality DEF OpenChecks, RunSet
  <2>2. Holding = Id!Cardinality({u \in Users : step[u] \in {"probe", "hairpin", "plain"}})
    BY Zenon, LoginIdCardinality DEF Holding, Held, Probing
  <2> QED BY Zenon, <2>1, <2>2 DEF IdInv, PermitsAdd, Id!PermitsKept
<1> QED BY Zenon, <1>1, <1>2 DEF IdInv, IdsGiven, Id!IdsGiven

(* An id says whether its holder can be reached: a HighID is above the      *)
(* LowID range and a LowID in it and of its parity, across the wrap of the  *)
(* counter; and every path of a login and of a check in the background      *)
(* gives its permits back, for any number of users and any ceilings.        *)
THEOREM IdsAlwaysGiven ==
  ASSUME IdBounds
  PROVE  Id!Spec => []IdsGiven
<1>1. Id!Init => IdInv BY IdInit
<1>2. IdInv /\ [Id!Next]_(Id!vars) => IdInv' BY IdStep
<1>3. IdInv => IdsGiven BY IdImplies
<1> QED BY <1>1, <1>2, <1>3, PTL DEF Id!Spec

-----------------------------------------------------------------------------
(* Greeting.  Where clients are and what the operator may set. *)
GreetBounds ==
  /\ \A c \in DOMAIN Visitors : /\ Visitors[c].from \in {"public", "dotzero", "lan", "ipv6"}
                                /\ Visitors[c].crypt \in BOOLEAN
  /\ \A cfg \in Settings : cfg.soft \in Nat /\ cfg.hard \in Nat /\ cfg.batch \in Nat
  /\ Batches \subseteq Nat

Guests == Greet!Who
Session(stage0, high, id0, ip, policy, idchange, ident, relays) ==
  [stage |-> stage0, high |-> high, id |-> id0, ip |-> ip, policy |-> policy, idchange |-> idchange,
   ident |-> ident, relays |-> relays]
Fixed(s) == s = Session(s.stage, s.high, s.id, s.ip, s.policy, s.idchange, s.ident, s.relays)

(* A HighID is the session's address, and one seen from outside. *)
HighReached(c, s) ==
  s.high =>
    /\ s.id = s.ip
    /\ \/ Visitors[c].from = "public" /\ s.id = <<"client", c>>
       \/ Visitors[c].from = "lan" /\ s.id = <<"server", "public">>

SenseIn(p) ==
  p.none \/ (p.soft \in Nat /\ p.hard \in Nat /\ p.batch \in Nat /\ p.soft > 0 /\ p.hard > p.batch)

(* What a session was told by the stage it is in. *)
ToldByStage(s, o) ==
  /\ s.stage \in {"probed", "registered"} => ~s.ident.sent /\ ~s.idchange.sent /\ o = Greet!NoOffer
  /\ s.stage = "in" => s.idchange.sent /\ (s.policy.none \/ s.ident.sent)

IdentIsPolicy(s) ==
  s.ident.sent =>
    /\ s.ident.terms = s.policy /\ s.ident.port = BoundPort
    /\ ~s.policy.none => s.ident.soft = s.policy.soft /\ s.ident.hard = s.policy.hard

ChangeUsable(c, s) ==
  s.idchange.sent =>
    /\ s.idchange.aux = BoundPort /\ s.idchange.obf = BoundPort
    /\ \/ s.idchange.ip = Greet!NoAddress
       \/ Visitors[c].from = "public" /\ s.idchange.ip = <<"client", c>>
       \/ Visitors[c].from = "lan" /\ s.idchange.ip = <<"server", "public">>
    /\ s.high => s.idchange.ip = s.idchange.id

OfferHeld(s, o) ==
  /\ o.n \in Nat
  /\ ~s.policy.none => /\ o.n > 0 /\ o.n <= s.policy.batch => o.became = "indexed"
                       /\ o.n >= s.policy.hard => o.became = "closed"
  /\ o.became = "ignored" => s.ident.sent /\ ~s.policy.none

GuestInv(c, s, o) ==
  /\ Fixed(s) /\ HighReached(c, s) /\ SenseIn(s.policy) /\ ToldByStage(s, o)
  /\ IdentIsPolicy(s) /\ ChangeUsable(c, s) /\ OfferHeld(s, o)

Frames(t) ==
  [op : {"fail"}] \cup
  {f \in [op : {"callback"}, from : Guests, ip : {<<"client", c>> : c \in Guests} \cup {<<"server", "public">>},
          crypt : BOOLEAN] : f.crypt => Visitors[f.from].crypt /\ Visitors[t].crypt}

GreetInv ==
  /\ liveCfg \in Settings
  /\ sessions = [c \in Guests |-> sessions[c]] /\ offersMade = [c \in Guests |-> offersMade[c]]
  /\ inbox = [c \in Guests |-> inbox[c]]
  /\ \A c \in Guests : GuestInv(c, sessions[c], offersMade[c])
  /\ \A c \in Guests : inbox[c] \in Seq(Frames(c))

-----------------------------------------------------------------------------
(* The address a login is given, and those it is told of. *)
LEMMA HighIsAddress ==
  ASSUME GreetBounds, NEW c \in Guests, NEW high \in BOOLEAN,
         high => Visitors[c].from \in {"public", "lan"} /\ (Visitors[c].from = "lan" => liveCfg.address = "public")
  PROVE  high =>
           /\ Greet!AssignedId(c, high) = Greet!SourceIp(c, high)
           /\ \/ Visitors[c].from = "public" /\ Greet!AssignedId(c, high) = <<"client", c>>
              \/ Visitors[c].from = "lan" /\ Greet!AssignedId(c, high) = <<"server", "public">>
<1> SUFFICES ASSUME high
             PROVE /\ Greet!AssignedId(c, high) = Greet!SourceIp(c, high)
                   /\ \/ Visitors[c].from = "public" /\ Greet!AssignedId(c, high) = <<"client", c>>
                      \/ Visitors[c].from = "lan" /\ Greet!AssignedId(c, high) = <<"server", "public">>
  OBVIOUS
<1>1. Greet!AssignedId(c, high) = Greet!SourceIp(c, high) BY DEF Greet!AssignedId
<1>2. CASE Visitors[c].from = "public"
  <2>1. Greet!SourceIp(c, high) = <<"client", c>> BY <1>2 DEF Greet!SourceIp
  <2> QED BY <1>1, <1>2, <2>1
<1>3. CASE Visitors[c].from = "lan"
  <2>1. Greet!SourceIp(c, high) = <<"server", "public">> BY <1>3 DEF Greet!SourceIp
  <2> QED BY <1>1, <1>3, <2>1
<1> QED BY <1>2, <1>3

LEMMA PolicySense ==
  ASSUME GreetBounds, liveCfg \in Settings, NEW c \in Guests
  PROVE  SenseIn(Greet!PolicyForLogin(c))
<1>1. liveCfg.soft \in Nat /\ liveCfg.hard \in Nat /\ liveCfg.batch \in Nat BY DEF GreetBounds
<1>2. SenseIn(Greet!NoPolicy) BY DEF SenseIn, Greet!NoPolicy
<1>3. ASSUME liveCfg.soft > 0, liveCfg.hard > liveCfg.batch
      PROVE  SenseIn([none |-> FALSE, soft |-> liveCfg.soft, hard |-> liveCfg.hard, batch |-> liveCfg.batch,
                      interval |-> liveCfg.interval])
  BY <1>1, <1>3 DEF SenseIn
<1> QED BY <1>2, <1>3 DEF Greet!PolicyForLogin, Greet!Policy

LEMMA ReportedUsable ==
  ASSUME GreetBounds, GreetInv, NEW c \in Guests
  PROVE  \/ Greet!ReportedClientIp(c) = Greet!NoAddress
         \/ Visitors[c].from = "public" /\ Greet!ReportedClientIp(c) = <<"client", c>>
         \/ Visitors[c].from = "lan" /\ Greet!ReportedClientIp(c) = <<"server", "public">>
<1>1. CASE sessions[c].high
  <2>1. Greet!ReportedClientIp(c) = sessions[c].id BY <1>1 DEF Greet!ReportedClientIp
  <2>2. HighReached(c, sessions[c]) BY DEF GreetInv, GuestInv
  <2> QED BY <1>1, <2>1, <2>2 DEF HighReached
<1>2. CASE ~sessions[c].high
  <2>1. CASE Visitors[c].from = "public"
    BY <1>2, <2>1 DEF Greet!ReportedClientIp
  <2>2. CASE Visitors[c].from = "lan" /\ liveCfg.address = "public"
    BY <1>2, <2>2 DEF Greet!ReportedClientIp
  <2>3. CASE Visitors[c].from # "public" /\ ~(Visitors[c].from = "lan" /\ liveCfg.address = "public")
    BY <1>2, <2>3 DEF Greet!ReportedClientIp
  <2> QED BY <2>1, <2>2, <2>3
<1> QED BY <1>1, <1>2

-----------------------------------------------------------------------------
(* What is told is told; nothing else is. *)
LEMMA InvTold ==
  ASSUME GreetBounds, GreetInv
  PROVE  Greet!ClientsTold
<1>1. Greet!TermsKept
  <2> SUFFICES ASSUME NEW c \in Guests
               PROVE  /\ sessions[c].ident.sent /\ ~sessions[c].ident.terms.none =>
                           /\ sessions[c].ident.soft > 0 /\ sessions[c].ident.hard > sessions[c].ident.terms.batch
                           /\ offersMade[c].n > 0 /\ offersMade[c].n <= sessions[c].ident.terms.batch =>
                                offersMade[c].became = "indexed"
                           /\ offersMade[c].n >= sessions[c].ident.hard => offersMade[c].became = "closed"
                           /\ sessions[c].ident.soft = sessions[c].policy.soft
                           /\ sessions[c].ident.hard = sessions[c].policy.hard
                      /\ offersMade[c].became = "ignored" => sessions[c].ident.sent /\ ~sessions[c].ident.terms.none
    BY Zenon DEF Greet!TermsKept, Guests
  <2>1. SenseIn(sessions[c].policy) /\ IdentIsPolicy(sessions[c]) /\ OfferHeld(sessions[c], offersMade[c])
    BY Zenon DEF GreetInv, GuestInv
  <2> QED BY <2>1 DEF SenseIn, IdentIsPolicy, OfferHeld
<1>2. Greet!AddressesUsable
  <2> SUFFICES ASSUME NEW c \in Guests
               PROVE  /\ sessions[c].idchange.sent =>
                           /\ sessions[c].idchange.aux = BoundPort /\ sessions[c].idchange.obf = BoundPort
                           /\ \/ sessions[c].idchange.ip = Greet!NoAddress
                              \/ sessions[c].idchange.ip[1] \in {"client", "server"}
                           /\ sessions[c].idchange.ip[1] = "server" =>
                                Visitors[c].from = "lan" /\ sessions[c].idchange.ip[2] = "public"
                           /\ sessions[c].idchange.ip[1] = "client" => Visitors[c].from = "public"
                           /\ sessions[c].high => sessions[c].idchange.ip = sessions[c].idchange.id
                      /\ sessions[c].ident.sent => sessions[c].ident.port = BoundPort
                      /\ sessions[c].ident.sent /\ sessions[c].stage = "in" => sessions[c].idchange.sent
    BY Zenon DEF Greet!AddressesUsable, Guests
  <2>1. /\ ChangeUsable(c, sessions[c]) /\ IdentIsPolicy(sessions[c])
        /\ ToldByStage(sessions[c], offersMade[c])
    BY Zenon DEF GreetInv, GuestInv
  <2>2. Greet!NoAddress[1] = "zero" BY DEF Greet!NoAddress
  <2>3. <<"client", c>>[1] = "client" /\ <<"server", "public">>[1] = "server" /\ <<"server", "public">>[2] = "public"
    OBVIOUS
  <2> QED BY <2>1, <2>2, <2>3 DEF ChangeUsable, IdentIsPolicy, ToldByStage
<1>3. Greet!CallbacksUsable
  <2> SUFFICES ASSUME NEW t \in Guests, NEW i \in DOMAIN inbox[t], inbox[t][i].op = "callback"
               PROVE  /\ inbox[t][i].ip[1] \in {"client", "server"}
                      /\ inbox[t][i].crypt => Visitors[inbox[t][i].from].crypt /\ Visitors[t].crypt
    BY Zenon DEF Greet!CallbacksUsable, Guests
  <2>1. inbox[t] \in Seq(Frames(t)) BY Zenon DEF GreetInv
  <2>2. inbox[t][i] \in Frames(t) BY <2>1
  <2>3. PICK f \in Frames(t) : f = inbox[t][i] BY <2>2
  <2>4. f \notin [op : {"fail"}] BY <2>3
  <2>5. /\ f.ip \in {<<"client", c>> : c \in Guests} \cup {<<"server", "public">>}
        /\ f.crypt => Visitors[f.from].crypt /\ Visitors[t].crypt
    BY <2>4 DEF Frames
  <2>6. f.ip[1] \in {"client", "server"}
    <3>1. CASE f.ip = <<"server", "public">> BY <3>1
    <3>2. CASE f.ip # <<"server", "public">>
      <4>1. PICK c \in Guests : f.ip = <<"client", c>> BY <2>5, <3>2
      <4> QED BY <4>1
    <3> QED BY <3>1, <3>2
  <2> QED BY <2>3, <2>5, <2>6
<1> QED BY <1>1, <1>2, <1>3 DEF Greet!ClientsTold

-----------------------------------------------------------------------------
(* A client that is out. *)
LEMMA OutGood ==
  \A c \in Guests : GuestInv(c, Greet!Out, Greet!NoOffer)
BY DEF GuestInv, Fixed, Session, HighReached, SenseIn, ToldByStage, IdentIsPolicy, ChangeUsable, OfferHeld,
   Greet!Out, Greet!NoOffer, Greet!NoPolicy, Greet!Nothing

LEMMA GreetInit ==
  ASSUME GreetBounds, Greet!Init
  PROVE  GreetInv
<1>1. \A c \in Guests : GuestInv(c, Greet!Out, Greet!NoOffer) BY OutGood
<1>2. /\ liveCfg \in Settings /\ sessions = [c \in Guests |-> Greet!Out]
      /\ inbox = [c \in Guests |-> <<>>] /\ offersMade = [c \in Guests |-> Greet!NoOffer]
  BY DEF Greet!Init, Guests
<1>3. \A c \in Guests : GuestInv(c, sessions[c], offersMade[c]) BY <1>1, <1>2, Zenon
<1>4. \A c \in Guests : inbox[c] = <<>> BY <1>2, Zenon
<1>5. \A c \in Guests : inbox[c] \in Seq(Frames(c))
  <2> SUFFICES ASSUME NEW c \in Guests PROVE inbox[c] \in Seq(Frames(c)) OBVIOUS
  <2>1. inbox[c] = <<>> BY <1>4
  <2> QED BY <2>1
<1>6. /\ sessions = [c \in Guests |-> sessions[c]] /\ offersMade = [c \in Guests |-> offersMade[c]]
      /\ inbox = [c \in Guests |-> inbox[c]]
  BY <1>2
<1> QED BY <1>2, <1>3, <1>5, <1>6, Zenon DEF GreetInv

(* A step about one client. *)
LEMMA OneGuest ==
  ASSUME GreetInv, NEW c \in Guests, liveCfg' = liveCfg,
         sessions' = [d \in Guests |-> IF d = c THEN sessions'[c] ELSE sessions[d]],
         offersMade' = [d \in Guests |-> IF d = c THEN offersMade'[c] ELSE offersMade[d]],
         GuestInv(c, sessions'[c], offersMade'[c]),
         inbox' = [d \in Guests |-> inbox'[d]], \A d \in Guests : inbox'[d] \in Seq(Frames(d))
  PROVE  GreetInv'
<1>1. liveCfg' \in Settings BY DEF GreetInv
<1>2. ASSUME NEW d \in Guests PROVE GuestInv(d, sessions'[d], offersMade'[d])
  <2>1. CASE d = c BY <2>1
  <2>2. CASE d # c
    <3>1. sessions'[d] = sessions[d] /\ offersMade'[d] = offersMade[d] BY <2>2, Zenon
    <3>2. GuestInv(d, sessions[d], offersMade[d]) BY DEF GreetInv
    <3> QED BY <3>1, <3>2
  <2> QED BY <2>1, <2>2
<1>3. /\ sessions' = [d \in Guests |-> sessions'[d]] /\ offersMade' = [d \in Guests |-> offersMade'[d]]
  <2>1. ASSUME NEW f, NEW x, NEW y, f = [d \in Guests |-> IF d = c THEN x ELSE y[d]]
        PROVE  f = [d \in Guests |-> f[d]]
    BY <2>1
  <2> QED BY <2>1
<1>4. \A d \in Guests : GuestInv(d, sessions'[d], offersMade'[d]) BY <1>2
<1> QED BY <1>1, <1>3, <1>4, Zenon DEF GreetInv

(* Nothing of the channels changes, or one is emptied. *)
LEMMA SameInbox ==
  ASSUME GreetInv, inbox' = inbox
  PROVE  inbox' = [d \in Guests |-> inbox'[d]] /\ \A d \in Guests : inbox'[d] \in Seq(Frames(d))
BY Zenon DEF GreetInv

LEMMA EmptiedInbox ==
  ASSUME GreetInv, NEW c \in Guests, inbox' = [inbox EXCEPT ![c] = <<>>]
  PROVE  inbox' = [d \in Guests |-> inbox'[d]] /\ \A d \in Guests : inbox'[d] \in Seq(Frames(d))
<1>1. inbox = [d \in Guests |-> inbox[d]] /\ \A d \in Guests : inbox[d] \in Seq(Frames(d)) BY Zenon DEF GreetInv
<1>2. inbox' = [d \in Guests |-> IF d = c THEN <<>> ELSE inbox[d]] BY <1>1
<1>3. inbox' = [d \in Guests |-> inbox'[d]] BY <1>2
<1>4. ASSUME NEW d \in Guests PROVE inbox'[d] \in Seq(Frames(d))
  <2>1. CASE d = c
    <3>1. inbox'[d] = <<>> BY <1>2, <2>1, Zenon
    <3>2. <<>> \in Seq(Frames(d)) OBVIOUS
    <3> QED BY <3>1, <3>2, Zenon
  <2>2. CASE d # c
    <3>1. inbox'[d] = inbox[d] BY <1>2, <2>2, Zenon
    <3> QED BY <1>1, <3>1
  <2> QED BY <2>1, <2>2
<1> QED BY <1>3, <1>4

LEMMA PushedInbox ==
  ASSUME GreetInv, NEW t \in Guests, NEW f \in Frames(t), Greet!Push(t, f)
  PROVE  inbox' = [d \in Guests |-> inbox'[d]] /\ \A d \in Guests : inbox'[d] \in Seq(Frames(d))
<1>1. inbox = [d \in Guests |-> inbox[d]] /\ \A d \in Guests : inbox[d] \in Seq(Frames(d)) BY Zenon DEF GreetInv
<1>2. CASE inbox' = inbox BY <1>2, SameInbox
<1>3. CASE inbox' = [inbox EXCEPT ![t] = Append(@, f)]
  <2>1. inbox' = [d \in Guests |-> IF d = t THEN Append(inbox[t], f) ELSE inbox[d]] BY <1>1, <1>3
  <2>2. inbox' = [d \in Guests |-> inbox'[d]] BY <2>1
  <2>3. ASSUME NEW d \in Guests PROVE inbox'[d] \in Seq(Frames(d))
    <3>1. CASE d = t
      <4>1. inbox'[t] = Append(inbox[t], f) BY <2>1, Zenon
      <4>2. inbox[t] \in Seq(Frames(t)) BY <1>1
      <4>3. Append(inbox[t], f) \in Seq(Frames(t)) BY <4>2
      <4> QED BY <3>1, <4>1, <4>3
    <3>2. CASE d # t
      <4>1. inbox'[d] = inbox[d] BY <2>1, <3>2, Zenon
      <4> QED BY <1>1, <4>1
    <3> QED BY <3>1, <3>2
  <2> QED BY <2>2, <2>3
<1> QED BY <1>2, <1>3, Zenon DEF Greet!Push

(* A session with other fields. *)
LEMMA GuestFields ==
  ASSUME GreetInv, NEW c \in Guests
  PROVE  /\ Fixed(sessions[c]) /\ HighReached(c, sessions[c]) /\ SenseIn(sessions[c].policy)
         /\ ToldByStage(sessions[c], offersMade[c])
         /\ IdentIsPolicy(sessions[c]) /\ ChangeUsable(c, sessions[c]) /\ OfferHeld(sessions[c], offersMade[c])
         /\ sessions = [d \in Guests |-> sessions[d]] /\ offersMade = [d \in Guests |-> offersMade[d]]
BY Zenon DEF GreetInv, GuestInv

LEMMA SameOffers ==
  ASSUME GreetInv, NEW c \in Guests, offersMade' = offersMade
  PROVE  offersMade' = [d \in Guests |-> IF d = c THEN offersMade'[c] ELSE offersMade[d]]
<1>1. offersMade = [d \in Guests |-> offersMade[d]] BY Zenon DEF GreetInv
<1> QED BY <1>1

LEMMA OtherField ==
  ASSUME GreetInv, NEW c \in Guests, NEW s, sessions' = [sessions EXCEPT ![c] = s]
  PROVE  sessions' = [d \in Guests |-> IF d = c THEN sessions'[c] ELSE sessions[d]] /\ sessions'[c] = s
<1>1. sessions = [d \in Guests |-> sessions[d]] BY Zenon DEF GreetInv
<1> QED BY <1>1

-----------------------------------------------------------------------------
(* Setting fields of a session. *)
LEMMA LoginFields ==
  ASSUME NEW s, Fixed(s), NEW x, NEW y, NEW z, NEW w
  PROVE  [s EXCEPT !.stage = x, !.high = y, !.id = z, !.ip = w] =
           Session(x, y, z, w, s.policy, s.idchange, s.ident, s.relays)
<1> DEFINE a == s.stage
           b == s.high
           d == s.id
           e == s.ip
           f == s.policy
           g == s.idchange
           h == s.ident
           i == s.relays
<1>1. s = Session(a, b, d, e, f, g, h, i) BY DEF Fixed
<1> HIDE DEF a, b, d, e, f, g, h, i
<1> DEFINE t1 == [s EXCEPT !.stage = x]
<1>2. t1 = Session(x, b, d, e, f, g, h, i) BY <1>1 DEF Session
<1> HIDE DEF t1
<1> DEFINE t2 == [t1 EXCEPT !.high = y]
<1>3. t2 = Session(x, y, d, e, f, g, h, i) BY <1>2 DEF Session
<1> HIDE DEF t2
<1> DEFINE t3 == [t2 EXCEPT !.id = z]
<1>4. t3 = Session(x, y, z, e, f, g, h, i) BY <1>3 DEF Session
<1> HIDE DEF t3
<1>5. [t3 EXCEPT !.ip = w] = Session(x, y, z, w, f, g, h, i) BY <1>4 DEF Session
<1>6. [s EXCEPT !.stage = x, !.high = y, !.id = z, !.ip = w] = [t3 EXCEPT !.ip = w] BY Zenon DEF t1, t2, t3
<1> QED BY <1>5, <1>6, Zenon DEF a, b, d, e, f, g, h, i

LEMMA TermFields ==
  ASSUME NEW s, Fixed(s), NEW x, NEW y
  PROVE  [s EXCEPT !.stage = x, !.policy = y] =
           Session(x, s.high, s.id, s.ip, y, s.idchange, s.ident, s.relays)
<1> DEFINE a == s.stage
           b == s.high
           d == s.id
           e == s.ip
           f == s.policy
           g == s.idchange
           h == s.ident
           i == s.relays
<1>1. s = Session(a, b, d, e, f, g, h, i) BY DEF Fixed
<1> HIDE DEF a, b, d, e, f, g, h, i
<1> DEFINE t1 == [s EXCEPT !.stage = x]
<1>2. t1 = Session(x, b, d, e, f, g, h, i) BY <1>1 DEF Session
<1> HIDE DEF t1
<1>3. [t1 EXCEPT !.policy = y] = Session(x, b, d, e, y, g, h, i) BY <1>2 DEF Session
<1>4. [s EXCEPT !.stage = x, !.policy = y] = [t1 EXCEPT !.policy = y] BY Zenon DEF t1
<1> QED BY <1>3, <1>4, Zenon DEF a, b, d, e, f, g, h, i

LEMMA ToldFields ==
  ASSUME NEW s, Fixed(s), NEW x, NEW y, NEW z
  PROVE  [s EXCEPT !.stage = x, !.idchange = y, !.ident = z] =
           Session(x, s.high, s.id, s.ip, s.policy, y, z, s.relays)
<1> DEFINE a == s.stage
           b == s.high
           d == s.id
           e == s.ip
           f == s.policy
           g == s.idchange
           h == s.ident
           i == s.relays
<1>1. s = Session(a, b, d, e, f, g, h, i) BY DEF Fixed
<1> HIDE DEF a, b, d, e, f, g, h, i
<1> DEFINE t1 == [s EXCEPT !.stage = x]
<1>2. t1 = Session(x, b, d, e, f, g, h, i) BY <1>1 DEF Session
<1> HIDE DEF t1
<1> DEFINE t2 == [t1 EXCEPT !.idchange = y]
<1>3. t2 = Session(x, b, d, e, f, y, h, i) BY <1>2 DEF Session
<1> HIDE DEF t2
<1>4. [t2 EXCEPT !.ident = z] = Session(x, b, d, e, f, y, z, i) BY <1>3 DEF Session
<1>5. [s EXCEPT !.stage = x, !.idchange = y, !.ident = z] = [t2 EXCEPT !.ident = z] BY Zenon DEF t1, t2
<1> QED BY <1>4, <1>5, Zenon DEF a, b, d, e, f, g, h, i

LEMMA IdentField ==
  ASSUME NEW s, Fixed(s), NEW x
  PROVE  [s EXCEPT !.ident = x] =
           Session(s.stage, s.high, s.id, s.ip, s.policy, s.idchange, x, s.relays)
<1> DEFINE a == s.stage
           b == s.high
           d == s.id
           e == s.ip
           f == s.policy
           g == s.idchange
           h == s.ident
           i == s.relays
<1>1. s = Session(a, b, d, e, f, g, h, i) BY DEF Fixed
<1> HIDE DEF a, b, d, e, f, g, h, i
<1>2. [s EXCEPT !.ident = x] = Session(a, b, d, e, f, g, x, i) BY <1>1 DEF Session
<1> QED BY <1>2, Zenon DEF a, b, d, e, f, g, h, i

LEMMA StageField ==
  ASSUME NEW s, Fixed(s), NEW x
  PROVE  [s EXCEPT !.stage = x] =
           Session(x, s.high, s.id, s.ip, s.policy, s.idchange, s.ident, s.relays)
<1> DEFINE a == s.stage
           b == s.high
           d == s.id
           e == s.ip
           f == s.policy
           g == s.idchange
           h == s.ident
           i == s.relays
<1>1. s = Session(a, b, d, e, f, g, h, i) BY DEF Fixed
<1> HIDE DEF a, b, d, e, f, g, h, i
<1>2. [s EXCEPT !.stage = x] = Session(x, b, d, e, f, g, h, i) BY <1>1 DEF Session
<1> QED BY <1>2, Zenon DEF a, b, d, e, f, g, h, i

LEMMA RelaysField ==
  ASSUME NEW s, Fixed(s), NEW x
  PROVE  [s EXCEPT !.relays = x] =
           Session(s.stage, s.high, s.id, s.ip, s.policy, s.idchange, s.ident, x)
<1> DEFINE a == s.stage
           b == s.high
           d == s.id
           e == s.ip
           f == s.policy
           g == s.idchange
           h == s.ident
           i == s.relays
<1>1. s = Session(a, b, d, e, f, g, h, i) BY DEF Fixed
<1> HIDE DEF a, b, d, e, f, g, h, i
<1>2. [s EXCEPT !.relays = x] = Session(a, b, d, e, f, g, h, x) BY <1>1 DEF Session
<1> QED BY <1>2, Zenon DEF a, b, d, e, f, g, h, i

LEMMA FieldsOf ==
  ASSUME NEW a, NEW b, NEW d, NEW e, NEW f, NEW g, NEW h, NEW i
  PROVE  /\ Session(a, b, d, e, f, g, h, i).stage = a /\ Session(a, b, d, e, f, g, h, i).high = b
         /\ Session(a, b, d, e, f, g, h, i).id = d /\ Session(a, b, d, e, f, g, h, i).ip = e
         /\ Session(a, b, d, e, f, g, h, i).policy = f /\ Session(a, b, d, e, f, g, h, i).idchange = g
         /\ Session(a, b, d, e, f, g, h, i).ident = h /\ Session(a, b, d, e, f, g, h, i).relays = i
         /\ Fixed(Session(a, b, d, e, f, g, h, i))
<1>1. /\ Session(a, b, d, e, f, g, h, i).stage = a /\ Session(a, b, d, e, f, g, h, i).high = b
      /\ Session(a, b, d, e, f, g, h, i).id = d /\ Session(a, b, d, e, f, g, h, i).ip = e
      /\ Session(a, b, d, e, f, g, h, i).policy = f /\ Session(a, b, d, e, f, g, h, i).idchange = g
      /\ Session(a, b, d, e, f, g, h, i).ident = h /\ Session(a, b, d, e, f, g, h, i).relays = i
  BY Zenon DEF Session
<1> QED BY <1>1, Zenon DEF Fixed

LEMMA LoginGreets ==
  ASSUME GreetBounds, GreetInv, NEW c \in Guests, NEW high \in BOOLEAN, Greet!Login(c, high)
  PROVE  GreetInv'
<1> DEFINE s == [Greet!Out EXCEPT !.stage = "probed", !.high = high, !.id = Greet!AssignedId(c, high),
                                  !.ip = Greet!SourceIp(c, high)]
<1>1. /\ sessions' = [sessions EXCEPT ![c] = s] /\ offersMade' = [offersMade EXCEPT ![c] = Greet!NoOffer]
      /\ inbox' = inbox /\ liveCfg' = liveCfg
      /\ high => Visitors[c].from \in {"public", "lan"} /\ (Visitors[c].from = "lan" => liveCfg.address = "public")
  BY DEF Greet!Login
<1>2. s = Session("probed", high, Greet!AssignedId(c, high), Greet!SourceIp(c, high), Greet!NoPolicy,
                  Greet!Nothing, Greet!Nothing, 0)
  <2>2. /\ Greet!Out.policy = Greet!NoPolicy /\ Greet!Out.idchange = Greet!Nothing
        /\ Greet!Out.ident = Greet!Nothing /\ Greet!Out.relays = 0
    BY Zenon DEF Greet!Out
  <2>3. Fixed(Greet!Out) BY DEF Fixed, Greet!Out, Session
  <2>4. s = Session("probed", high, Greet!AssignedId(c, high), Greet!SourceIp(c, high), Greet!Out.policy,
                    Greet!Out.idchange, Greet!Out.ident, Greet!Out.relays)
    BY <2>3, LoginFields, Zenon
  <2> HIDE DEF s
  <2> QED BY <2>2, <2>4
<1> HIDE DEF s
<1>3. GuestInv(c, s, Greet!NoOffer)
  <2>1. Fixed(s) /\ s.ident = Greet!Nothing /\ s.idchange = Greet!Nothing /\ s.policy = Greet!NoPolicy
        /\ s.stage = "probed" /\ s.id = Greet!AssignedId(c, high) /\ s.ip = Greet!SourceIp(c, high)
    BY <1>2, FieldsOf
  <2>2. s.high = high BY <1>2, FieldsOf
  <2>3. HighReached(c, s)
    <3>1. high => /\ Greet!AssignedId(c, high) = Greet!SourceIp(c, high)
                  /\ \/ Visitors[c].from = "public" /\ Greet!AssignedId(c, high) = <<"client", c>>
                     \/ Visitors[c].from = "lan" /\ Greet!AssignedId(c, high) = <<"server", "public">>
      BY <1>1, HighIsAddress
    <3> QED BY <2>1, <2>2, <3>1, Zenon DEF HighReached
  <2>4. SenseIn(s.policy) /\ ToldByStage(s, Greet!NoOffer) /\ IdentIsPolicy(s) /\ ChangeUsable(c, s)
        /\ OfferHeld(s, Greet!NoOffer)
    BY <2>1 DEF SenseIn, ToldByStage, IdentIsPolicy, ChangeUsable, OfferHeld, Greet!NoPolicy, Greet!Nothing,
                Greet!NoOffer
  <2> QED BY <2>1, <2>3, <2>4, Zenon DEF GuestInv
<1>4. sessions' = [d \in Guests |-> IF d = c THEN sessions'[c] ELSE sessions[d]] /\ sessions'[c] = s
  BY <1>1, OtherField
<1>5. /\ offersMade' = [d \in Guests |-> IF d = c THEN offersMade'[c] ELSE offersMade[d]]
      /\ offersMade'[c] = Greet!NoOffer
  <2>1. offersMade = [d \in Guests |-> offersMade[d]] BY GuestFields
  <2> QED BY <1>1, <2>1
<1>6. GuestInv(c, sessions'[c], offersMade'[c]) BY <1>3, <1>4, <1>5, Zenon
<1> QED BY <1>1, <1>4, <1>5, <1>6, SameInbox, OneGuest

LEMMA RegisterGreets ==
  ASSUME GreetBounds, GreetInv, NEW c \in Guests, Greet!Register(c)
  PROVE  GreetInv'
<1> DEFINE p == Greet!PolicyForLogin(c)
           s == [sessions[c] EXCEPT !.stage = "registered", !.policy = p]
           o == offersMade[c]
<1>1. /\ sessions[c].stage = "probed" /\ sessions' = [sessions EXCEPT ![c] = s]
      /\ offersMade' = offersMade /\ inbox' = inbox /\ liveCfg' = liveCfg
  BY DEF Greet!Register
<1>2. SenseIn(p)
  <2>1. liveCfg \in Settings BY DEF GreetInv
  <2> QED BY <2>1, PolicySense
<1>3. GuestInv(c, s, o)
  <2> HIDE DEF p
  <2>1. s = Session("registered", sessions[c].high, sessions[c].id, sessions[c].ip, p, sessions[c].idchange,
                    sessions[c].ident, sessions[c].relays)
    <3>1. Fixed(sessions[c]) BY GuestFields
    <3> QED BY <3>1, TermFields, Zenon
  <2> HIDE DEF s
  <2>2. /\ Fixed(s) /\ s.id = sessions[c].id /\ s.ip = sessions[c].ip /\ s.policy = p
        /\ s.stage = "registered" /\ s.ident = sessions[c].ident /\ s.idchange = sessions[c].idchange
    BY <2>1, FieldsOf
  <2>3. s.high = sessions[c].high BY <2>1, FieldsOf
  <2>4. ~sessions[c].ident.sent /\ ~sessions[c].idchange.sent /\ o = Greet!NoOffer
    BY <1>1, GuestFields DEF ToldByStage
  <2>5. HighReached(c, s) BY <2>2, <2>3, GuestFields, Zenon DEF HighReached
  <2>6. ToldByStage(s, o) /\ IdentIsPolicy(s) /\ ChangeUsable(c, s)
    BY <2>2, <2>4 DEF ToldByStage, IdentIsPolicy, ChangeUsable
  <2>7. OfferHeld(s, o)
    BY <1>2, <2>2, <2>4 DEF OfferHeld, SenseIn, Greet!NoOffer
  <2> QED BY <1>2, <2>2, <2>5, <2>6, <2>7, Zenon DEF GuestInv
<1> HIDE DEF s, p
<1>4. sessions' = [d \in Guests |-> IF d = c THEN sessions'[c] ELSE sessions[d]] /\ sessions'[c] = s
  BY <1>1, OtherField
<1>5. GuestInv(c, sessions'[c], offersMade'[c]) BY <1>1, <1>3, <1>4, Zenon
<1> QED BY <1>1, <1>4, <1>5, SameOffers, SameInbox, OneGuest

(* The ident of a session, at its login or for a server list. *)
LEMMA IdentGood ==
  ASSUME GreetInv, NEW c \in Guests
  PROVE  /\ Greet!BuildServerIdent(c).sent /\ Greet!BuildServerIdent(c).terms = sessions[c].policy
         /\ Greet!BuildServerIdent(c).port = BoundPort
         /\ ~sessions[c].policy.none =>
              /\ Greet!BuildServerIdent(c).soft = sessions[c].policy.soft
              /\ Greet!BuildServerIdent(c).hard = sessions[c].policy.hard
<1> DEFINE p == sessions[c].policy
           soft == IF p.none THEN liveCfg.soft ELSE p.soft
           hard == IF p.none THEN liveCfg.hard ELSE p.hard
<1>1. Greet!BuildServerIdent(c) = [sent |-> TRUE, port |-> BoundPort, terms |-> p, soft |-> soft, hard |-> hard]
  BY DEF Greet!BuildServerIdent
<1>2. ~p.none => soft = p.soft /\ hard = p.hard OBVIOUS
<1> HIDE DEF soft, hard, p
<1>3. /\ Greet!BuildServerIdent(c).terms = p /\ Greet!BuildServerIdent(c).port = BoundPort
      /\ Greet!BuildServerIdent(c).soft = soft /\ Greet!BuildServerIdent(c).hard = hard
  BY <1>1
<1>4. Greet!BuildServerIdent(c).sent BY <1>1
<1> QED BY <1>2, <1>3, <1>4 DEF p

LEMMA WelcomeGreets ==
  ASSUME GreetBounds, GreetInv, NEW c \in Guests, Greet!Welcome(c)
  PROVE  GreetInv'
<1> DEFINE change == Greet!IdChange(c)
           ident == IF Greet!IdentAtLogin(c) THEN Greet!BuildServerIdent(c) ELSE Greet!Nothing
           s == [sessions[c] EXCEPT !.stage = "in", !.idchange = change, !.ident = ident]
           o == offersMade[c]
<1>1. /\ sessions[c].stage = "registered" /\ sessions' = [sessions EXCEPT ![c] = s]
      /\ offersMade' = offersMade /\ inbox' = inbox /\ liveCfg' = liveCfg
  BY DEF Greet!Welcome
<1>2. ~sessions[c].policy.none => ident = Greet!BuildServerIdent(c) BY DEF Greet!IdentAtLogin
<1>3. ident = Greet!BuildServerIdent(c) \/ ident = Greet!Nothing OBVIOUS
<1>4. /\ change.sent /\ change.id = sessions[c].id /\ change.aux = BoundPort /\ change.obf = BoundPort
      /\ change.ip = Greet!ReportedClientIp(c)
  <2> DEFINE own == IF liveCfg.natt /\ Visitors[c].natt THEN <<c>> ELSE <<>>
  <2>1. change = [sent |-> TRUE, id |-> sessions[c].id, flags |-> Greet!TcpFlags, aux |-> BoundPort,
                  ip |-> Greet!ReportedClientIp(c), obf |-> BoundPort, own |-> own]
    BY DEF Greet!IdChange
  <2> HIDE DEF own, change
  <2>2. change.id = sessions[c].id /\ change.aux = BoundPort /\ change.obf = BoundPort
        /\ change.ip = Greet!ReportedClientIp(c)
    BY <2>1
  <2>3. change.sent BY <2>1
  <2> QED BY <2>2, <2>3
<1>5. sessions[c].high => Greet!ReportedClientIp(c) = sessions[c].id BY DEF Greet!ReportedClientIp
<1>6. GuestInv(c, s, o)
  <2> HIDE DEF change, ident
  <2>1. s = Session("in", sessions[c].high, sessions[c].id, sessions[c].ip, sessions[c].policy, change, ident,
                    sessions[c].relays)
    <3>1. Fixed(sessions[c]) BY GuestFields
    <3> QED BY <3>1, ToldFields, Zenon
  <2> HIDE DEF s
  <2>2. /\ Fixed(s) /\ s.id = sessions[c].id /\ s.ip = sessions[c].ip /\ s.policy = sessions[c].policy
        /\ s.stage = "in" /\ s.ident = ident /\ s.idchange = change
    BY <2>1, FieldsOf
  <2>3. s.high = sessions[c].high BY <2>1, FieldsOf
  <2>4. o = Greet!NoOffer BY <1>1, GuestFields DEF ToldByStage
  <2>5. HighReached(c, s) BY <2>2, <2>3, GuestFields, Zenon DEF HighReached
  <2>6. ToldByStage(s, o)
    BY <1>2, <1>4, <2>2, <2>4, IdentGood DEF ToldByStage
  <2>7. IdentIsPolicy(s)
    BY <1>3, <2>2, IdentGood DEF IdentIsPolicy, Greet!Nothing
  <2>8. ChangeUsable(c, s)
    BY <1>4, <1>5, <2>2, <2>3, ReportedUsable, Zenon DEF ChangeUsable
  <2>9. OfferHeld(s, o)
    BY <2>2, <2>4, GuestFields DEF OfferHeld, SenseIn, Greet!NoOffer
  <2> QED BY <2>2, <2>5, <2>6, <2>7, <2>8, <2>9, GuestFields, Zenon DEF GuestInv
<1> HIDE DEF s, ident, change
<1>7. sessions' = [d \in Guests |-> IF d = c THEN sessions'[c] ELSE sessions[d]] /\ sessions'[c] = s
  BY <1>1, OtherField
<1>8. GuestInv(c, sessions'[c], offersMade'[c]) BY <1>1, <1>6, <1>7, Zenon
<1> QED BY <1>1, <1>7, <1>8, SameOffers, SameInbox, OneGuest

(* OP_GETSERVERLIST brings the ident of a session that had none: a legacy   *)
(* client has no terms.                                                    *)
LEMMA ServerListGreets ==
  ASSUME GreetBounds, GreetInv, NEW c \in Guests, Greet!GetServerList(c)
  PROVE  GreetInv'
<1> DEFINE ident == Greet!BuildServerIdent(c)
           s == [sessions[c] EXCEPT !.ident = ident]
           o == offersMade[c]
<1>1. /\ sessions[c].stage = "in" /\ sessions' = [sessions EXCEPT ![c] = s]
      /\ offersMade' = offersMade /\ inbox' = inbox /\ liveCfg' = liveCfg
  BY DEF Greet!GetServerList
<1>2. s = Session(sessions[c].stage, sessions[c].high, sessions[c].id, sessions[c].ip, sessions[c].policy,
                  sessions[c].idchange, ident, sessions[c].relays)
  <2>1. Fixed(sessions[c]) BY GuestFields
  <2> QED BY <2>1, IdentField, Zenon
<1> HIDE DEF s, ident
<1>3. GuestInv(c, s, o)
  <2>1. /\ Fixed(s) /\ s.id = sessions[c].id /\ s.ip = sessions[c].ip /\ s.policy = sessions[c].policy
        /\ s.stage = "in" /\ s.ident = ident /\ s.idchange = sessions[c].idchange
    BY <1>1, <1>2, FieldsOf
  <2>2. s.high = sessions[c].high BY <1>2, FieldsOf
  <2>3. ident.sent BY IdentGood DEF ident
  <2>4. HighReached(c, s) BY <2>1, <2>2, GuestFields, Zenon DEF HighReached
  <2>5. ToldByStage(s, o) BY <2>1, <2>3, GuestFields, <1>1 DEF ToldByStage
  <2>6. IdentIsPolicy(s) BY <2>1, IdentGood DEF IdentIsPolicy, ident
  <2>7. ChangeUsable(c, s) BY <2>1, <2>2, GuestFields, Zenon DEF ChangeUsable
  <2>8. OfferHeld(s, o) BY <2>1, <2>3, GuestFields, Zenon DEF OfferHeld
  <2> QED BY <2>1, <2>4, <2>5, <2>6, <2>7, <2>8, GuestFields, Zenon DEF GuestInv
<1>4. sessions' = [d \in Guests |-> IF d = c THEN sessions'[c] ELSE sessions[d]] /\ sessions'[c] = s
  BY <1>1, OtherField
<1>5. GuestInv(c, sessions'[c], offersMade'[c]) BY <1>1, <1>3, <1>4, Zenon
<1> QED BY <1>1, <1>4, <1>5, SameOffers, SameInbox, OneGuest

(* An offer is measured by the session's terms, or the operator's limit.   *)
LEMMA OfferGreets ==
  ASSUME GreetBounds, GreetInv, NEW c \in Guests, NEW n \in Batches, Greet!OfferFiles(c, n)
  PROVE  GreetInv'
<1> DEFINE p == sessions[c].policy
           hard == IF p.none THEN liveCfg.hard ELSE p.hard
           became == IF hard > 0 /\ n >= hard THEN "closed"
                     ELSE IF ~p.none /\ n > p.batch THEN "ignored" ELSE "indexed"
           o == [n |-> n, became |-> became]
           ended == [sessions[c] EXCEPT !.stage = "out"]
           s == IF became = "closed" THEN ended ELSE sessions[c]
<1>1. /\ sessions[c].stage = "in" /\ offersMade' = [offersMade EXCEPT ![c] = o] /\ liveCfg' = liveCfg
      /\ sessions' = IF became = "closed" THEN [sessions EXCEPT ![c] = ended] ELSE sessions
      /\ inbox' = IF became = "closed" THEN [inbox EXCEPT ![c] = <<>>] ELSE inbox
  BY DEF Greet!OfferFiles
<1>2. n \in Nat /\ SenseIn(p) BY GuestFields DEF GreetBounds
<1>3. ~p.none => /\ n > 0 /\ n <= p.batch => became = "indexed"
                 /\ n >= p.hard => became = "closed"
  <2> SUFFICES ASSUME ~p.none
               PROVE /\ n > 0 /\ n <= p.batch => became = "indexed"
                     /\ n >= p.hard => became = "closed"
    OBVIOUS
  <2>1. hard = p.hard OBVIOUS
  <2>2. p.soft \in Nat /\ p.hard \in Nat /\ p.batch \in Nat /\ p.hard > p.batch BY <1>2 DEF SenseIn
  <2> HIDE DEF hard, p
  <2>3. n > 0 /\ n <= p.batch => ~(n >= hard) BY <1>2, <2>1, <2>2
  <2>4. n > 0 /\ n <= p.batch => ~(n > p.batch) BY <1>2, <2>2
  <2>5. n >= p.hard => hard > 0 /\ n >= hard BY <1>2, <2>1, <2>2
  <2> QED BY <2>3, <2>4, <2>5, Zenon DEF became
<1>4. became = "ignored" => ~p.none
  <2> HIDE DEF hard, p
  <2> QED BY DEF became
<1>5. o.n = n /\ o.became = became BY Zenon
<1>6. ended = Session("out", sessions[c].high, sessions[c].id, sessions[c].ip, sessions[c].policy,
                      sessions[c].idchange, sessions[c].ident, sessions[c].relays)
  <2>1. Fixed(sessions[c]) BY GuestFields
  <2> QED BY <2>1, StageField, Zenon
<1> HIDE DEF o, became, hard, ended
<1>7. /\ Fixed(s) /\ s.id = sessions[c].id /\ s.ip = sessions[c].ip /\ s.policy = sessions[c].policy
      /\ s.ident = sessions[c].ident /\ s.idchange = sessions[c].idchange /\ s.stage \in {"in", "out"}
      /\ s.stage = "in" => s = sessions[c]
  <2>1. CASE became = "closed"
    <3>1. s = ended BY <2>1
    <3> HIDE DEF s, p
    <3> QED BY <3>1, <1>6, FieldsOf
  <2>2. CASE became # "closed" BY <1>1, <2>2, GuestFields
  <2> QED BY <2>1, <2>2
<1>8. s.high = sessions[c].high
  <2>1. CASE became = "closed"
    <3>1. s = ended BY <2>1
    <3> HIDE DEF s, p
    <3> QED BY <3>1, <1>6, FieldsOf
  <2>2. CASE became # "closed" BY <2>2
  <2> QED BY <2>1, <2>2
<1>9. GuestInv(c, s, o)
  <2> HIDE DEF s
  <2>1. HighReached(c, s) BY <1>7, <1>8, GuestFields, Zenon DEF HighReached
  <2>2. ToldByStage(s, o)
    <3>1. s.stage # "probed" /\ s.stage # "registered" BY <1>7
    <3>2. s.stage = "in" => s.idchange.sent /\ (s.policy.none \/ s.ident.sent)
      BY <1>7, GuestFields DEF ToldByStage
    <3> QED BY <3>1, <3>2 DEF ToldByStage
  <2>3. IdentIsPolicy(s) BY <1>7, GuestFields, Zenon DEF IdentIsPolicy
  <2>4. ChangeUsable(c, s) BY <1>7, <1>8, GuestFields, Zenon DEF ChangeUsable
  <2>5. OfferHeld(s, o)
    <3>1. ~p.none => sessions[c].ident.sent BY <1>1, GuestFields DEF ToldByStage
    <3> QED BY <1>2, <1>3, <1>4, <1>5, <1>7, <3>1 DEF OfferHeld
  <2> QED BY <1>7, <2>1, <2>2, <2>3, <2>4, <2>5, GuestFields, Zenon DEF GuestInv
<1>10. sessions' = [d \in Guests |-> IF d = c THEN sessions'[c] ELSE sessions[d]] /\ sessions'[c] = s
  <2>1. CASE became = "closed"
    <3>1. sessions' = [sessions EXCEPT ![c] = ended] /\ s = ended BY <1>1, <2>1
    <3> HIDE DEF s
    <3> QED BY <3>1, OtherField
  <2>2. CASE became # "closed"
    <3>1. sessions' = sessions /\ s = sessions[c] BY <1>1, <2>2
    <3>2. sessions = [d \in Guests |-> sessions[d]] BY GuestFields
    <3> HIDE DEF s
    <3> QED BY <3>1, <3>2
  <2> QED BY <2>1, <2>2
<1> HIDE DEF s
<1>11. /\ offersMade' = [d \in Guests |-> IF d = c THEN offersMade'[c] ELSE offersMade[d]]
       /\ offersMade'[c] = o
  <2>1. offersMade = [d \in Guests |-> offersMade[d]] BY GuestFields
  <2> QED BY <1>1, <2>1
<1>12. inbox' = [d \in Guests |-> inbox'[d]] /\ \A d \in Guests : inbox'[d] \in Seq(Frames(d))
  BY <1>1, SameInbox, EmptiedInbox
<1>13. GuestInv(c, sessions'[c], offersMade'[c]) BY <1>9, <1>10, <1>11, Zenon
<1> QED BY <1>1, <1>10, <1>11, <1>12, <1>13, OneGuest

LEMMA LeaveGreets ==
  ASSUME GreetBounds, GreetInv, NEW c \in Guests, Greet!Leave(c)
  PROVE  GreetInv'
<1>1. /\ sessions' = [sessions EXCEPT ![c] = Greet!Out] /\ offersMade' = [offersMade EXCEPT ![c] = Greet!NoOffer]
      /\ inbox' = [inbox EXCEPT ![c] = <<>>] /\ liveCfg' = liveCfg
  BY DEF Greet!Leave
<1>2. sessions' = [d \in Guests |-> IF d = c THEN sessions'[c] ELSE sessions[d]] /\ sessions'[c] = Greet!Out
  BY <1>1, OtherField
<1>3. /\ offersMade' = [d \in Guests |-> IF d = c THEN offersMade'[c] ELSE offersMade[d]]
      /\ offersMade'[c] = Greet!NoOffer
  <2>1. offersMade = [d \in Guests |-> offersMade[d]] BY GuestFields
  <2> QED BY <1>1, <2>1
<1>4. GuestInv(c, Greet!Out, Greet!NoOffer) BY OutGood
<1>5. GuestInv(c, sessions'[c], offersMade'[c]) BY <1>2, <1>3, <1>4, Zenon
<1> QED BY <1>1, <1>2, <1>3, <1>5, EmptiedInbox, OneGuest

(* A callback is passed on for a HighID only, whose address is seen from    *)
(* outside.                                                                *)
LEMMA CallbackFrame ==
  ASSUME GreetBounds, GreetInv, NEW c \in Guests, NEW t \in Guests, sessions[c].high
  PROVE  Greet!CallbackRequested(c, t) \in Frames(t)
<1> DEFINE ip == IF Visitors[c].from = "ipv6" THEN Greet!NoAddress ELSE sessions[c].ip
           crypt2 == Visitors[c].crypt /\ Visitors[t].crypt
<1>1. Greet!CallbackRequested(c, t) = [op |-> "callback", from |-> c, ip |-> ip, crypt |-> crypt2]
  BY DEF Greet!CallbackRequested
<1>2. HighReached(c, sessions[c]) BY GuestFields
<1>3. ip \in {<<"client", d>> : d \in Guests} \cup {<<"server", "public">>}
  <2>1. CASE Visitors[c].from = "public" /\ sessions[c].id = <<"client", c>>
    <3>1. ip = <<"client", c>> BY <1>2, <2>1 DEF HighReached
    <3> HIDE DEF ip
    <3> QED BY <3>1
  <2>2. CASE Visitors[c].from = "lan" /\ sessions[c].id = <<"server", "public">>
    <3>1. ip = <<"server", "public">> BY <1>2, <2>2 DEF HighReached
    <3> HIDE DEF ip
    <3> QED BY <3>1
  <2> QED BY <1>2, <2>1, <2>2, Zenon DEF HighReached
<1>4. crypt2 \in BOOLEAN /\ (crypt2 => Visitors[c].crypt /\ Visitors[t].crypt) BY Zenon
<1> HIDE DEF ip, crypt2
<1> DEFINE f == [op |-> "callback", from |-> c, ip |-> ip, crypt |-> crypt2]
<1>5. f \in [op : {"callback"}, from : Guests, ip : {<<"client", d>> : d \in Guests} \cup {<<"server", "public">>},
             crypt : BOOLEAN]
  <2> DEFINE Ips == {<<"client", d>> : d \in Guests} \cup {<<"server", "public">>}
  <2>1. ip \in Ips BY <1>3
  <2> HIDE DEF Ips
  <2>2. f \in [op : {"callback"}, from : Guests, ip : Ips, crypt : BOOLEAN] BY <1>4, <2>1
  <2> QED BY <2>2 DEF Ips
<1>6. f.crypt => Visitors[f.from].crypt /\ Visitors[t].crypt
  <2>1. f.from = c /\ f.crypt = crypt2 BY Zenon
  <2> HIDE DEF f
  <2> QED BY <1>4, <2>1, Zenon
<1> HIDE DEF f
<1>7. f \in Frames(t) BY <1>5, <1>6, Zenon DEF Frames
<1> QED BY <1>1, <1>7, Zenon DEF f

LEMMA CallbackGreets ==
  ASSUME GreetBounds, GreetInv, NEW c \in Guests, NEW t \in Guests, Greet!CallbackRequest(c, t)
  PROVE  GreetInv'
<1> DEFINE s == [sessions[c] EXCEPT !.relays = @ + 1]
           o == offersMade[c]
<1>1. /\ sessions' = [sessions EXCEPT ![c] = s] /\ offersMade' = offersMade /\ liveCfg' = liveCfg
      /\ \/ Greet!Push(c, [op |-> "fail"])
         \/ inbox' = inbox
         \/ sessions[c].high /\ Greet!Push(t, Greet!CallbackRequested(c, t))
  BY DEF Greet!CallbackRequest
<1>2. s = Session(sessions[c].stage, sessions[c].high, sessions[c].id, sessions[c].ip, sessions[c].policy,
                  sessions[c].idchange, sessions[c].ident, sessions[c].relays + 1)
  <2>1. Fixed(sessions[c]) BY GuestFields
  <2> QED BY <2>1, RelaysField, Zenon
<1> HIDE DEF s
<1>3. GuestInv(c, s, o)
  <2>1. /\ Fixed(s) /\ s.id = sessions[c].id /\ s.ip = sessions[c].ip /\ s.policy = sessions[c].policy
        /\ s.stage = sessions[c].stage /\ s.ident = sessions[c].ident /\ s.idchange = sessions[c].idchange
    BY <1>2, FieldsOf
  <2>2. s.high = sessions[c].high BY <1>2, FieldsOf
  <2>3. HighReached(c, s) BY <2>1, <2>2, GuestFields, Zenon DEF HighReached
  <2>4. ToldByStage(s, o) BY <2>1, GuestFields, Zenon DEF ToldByStage
  <2>5. IdentIsPolicy(s) BY <2>1, GuestFields, Zenon DEF IdentIsPolicy
  <2>6. ChangeUsable(c, s)
    <3>1. ChangeUsable(c, sessions[c]) BY GuestFields
    <3> QED BY <2>1, <2>2, <3>1, Zenon DEF ChangeUsable
  <2>7. OfferHeld(s, o) BY <2>1, GuestFields, Zenon DEF OfferHeld
  <2> QED BY <2>1, <2>3, <2>4, <2>5, <2>6, <2>7, GuestFields, Zenon DEF GuestInv
<1>4. sessions' = [d \in Guests |-> IF d = c THEN sessions'[c] ELSE sessions[d]] /\ sessions'[c] = s
  BY <1>1, OtherField
<1>5. GuestInv(c, sessions'[c], offersMade'[c]) BY <1>1, <1>3, <1>4, Zenon
<1>6. inbox' = [d \in Guests |-> inbox'[d]] /\ \A d \in Guests : inbox'[d] \in Seq(Frames(d))
  <2>1. CASE Greet!Push(c, [op |-> "fail"])
    <3>1. [op |-> "fail"] \in Frames(c)
      <4>1. [op |-> "fail"] \in [op : {"fail"}] OBVIOUS
      <4> QED BY <4>1, Zenon DEF Frames
    <3> QED BY <2>1, <3>1, PushedInbox
  <2>2. CASE inbox' = inbox BY <2>2, SameInbox
  <2>3. CASE sessions[c].high /\ Greet!Push(t, Greet!CallbackRequested(c, t))
    BY <2>3, CallbackFrame, PushedInbox
  <2> QED BY <1>1, <2>1, <2>2, <2>3
<1> QED BY <1>1, <1>4, <1>5, <1>6, SameOffers, OneGuest

LEMMA DeliverGreets ==
  ASSUME GreetBounds, GreetInv, NEW c \in Guests, Greet!Deliver(c)
  PROVE  GreetInv'
<1>1. /\ inbox[c] # <<>> /\ inbox' = [inbox EXCEPT ![c] = Tail(@)]
      /\ sessions' = sessions /\ offersMade' = offersMade /\ liveCfg' = liveCfg
  BY DEF Greet!Deliver
<1>2. inbox = [d \in Guests |-> inbox[d]] /\ \A d \in Guests : inbox[d] \in Seq(Frames(d)) BY Zenon DEF GreetInv
<1>3. inbox' = [d \in Guests |-> IF d = c THEN Tail(inbox[c]) ELSE inbox[d]] BY <1>1, <1>2
<1>4. inbox' = [d \in Guests |-> inbox'[d]] BY <1>3
<1>5. ASSUME NEW d \in Guests PROVE inbox'[d] \in Seq(Frames(d))
  <2>1. CASE d = c
    <3>1. inbox'[d] = Tail(inbox[d]) BY <1>3, <2>1, Zenon
    <3>2. inbox[d] \in Seq(Frames(d)) /\ inbox[d] # <<>> BY <1>1, <1>2, <2>1
    <3>3. Tail(inbox[d]) \in Seq(Frames(d)) BY <3>2
    <3> QED BY <3>1, <3>3, Zenon
  <2>2. CASE d # c
    <3>1. inbox'[d] = inbox[d] BY <1>3, <2>2, Zenon
    <3> QED BY <1>2, <3>1
  <2> QED BY <2>1, <2>2
<1>6. \A d \in Guests : inbox'[d] \in Seq(Frames(d)) BY <1>5
<1> QED BY <1>1, <1>4, <1>6, Zenon DEF GreetInv

LEMMA GreetNext ==
  ASSUME GreetBounds, GreetInv, [Greet!Next]_(Greet!greetingVars)
  PROVE  GreetInv'
<1>1. CASE UNCHANGED Greet!greetingVars
  BY <1>1, Zenon DEF GreetInv, Greet!greetingVars
<1>2. CASE \E cfg \in Settings : Greet!Edit(cfg)
  <2>1. liveCfg' \in Settings /\ sessions' = sessions /\ inbox' = inbox /\ offersMade' = offersMade
    BY <1>2 DEF Greet!Edit
  <2> QED BY <2>1, Zenon DEF GreetInv
<1>3. ASSUME NEW c \in Guests,
             \/ \E high \in BOOLEAN : Greet!Login(c, high)
             \/ Greet!Register(c) \/ Greet!Welcome(c) \/ Greet!GetServerList(c) \/ Greet!Leave(c) \/ Greet!Deliver(c)
             \/ \E n \in Batches : Greet!OfferFiles(c, n)
             \/ \E t \in Guests : Greet!CallbackRequest(c, t)
      PROVE  GreetInv'
  BY <1>3, LoginGreets, RegisterGreets, WelcomeGreets, ServerListGreets, LeaveGreets, DeliverGreets, OfferGreets,
     CallbackGreets
<1> QED BY <1>1, <1>2, <1>3, Zenon DEF Greet!Next, Guests

(* Whatever the operator saves between a login's steps, a session is held   *)
(* to the terms it was told, and it was told ports that are listened on and *)
(* addresses that can be used; so are those it is called back at.          *)
THEOREM ClientsAlwaysTold ==
  ASSUME GreetBounds
  PROVE  Greet!Spec => []ClientsTold
<1>1. Greet!Init => GreetInv BY GreetInit
<1>2. GreetInv /\ [Greet!Next]_(Greet!greetingVars) => GreetInv' BY GreetNext
<1>3. GreetInv => ClientsTold BY InvTold DEF ClientsTold
<1> QED BY <1>1, <1>2, <1>3, PTL DEF Greet!Spec

-----------------------------------------------------------------------------
(* SeedLoops.  A task is of a seed that was on the list at the last tick,  *)
(* and one that runs has a failure left.                                   *)
SeedBounds == MaxFailures \in Nat \ {0} /\ MaxReloads \in Nat

SeedInv ==
  /\ Seed!TypeOK
  /\ \A s \in Seeds :
       /\ loop[s] # "none" => s \in prevDesired
       /\ loop[s] = "runs" => failures[s] < MaxFailures

LEMMA SeedInit ==
  ASSUME SeedBounds, Seed!Init
  PROVE  SeedInv
BY DEF SeedBounds, Seed!Init, Seed!TypeOK, SeedInv

(* What a tick of the supervisor does. *)
LEMMA Supervised ==
  ASSUME SeedBounds, SeedInv, Seed!Supervise, NEW s \in Seeds
  PROVE  /\ loop'[s] # "none" => s \in configured
         /\ loop'[s] \in {"none", "runs"}
         /\ s \in configured /\ s \notin prevDesired => loop'[s] = "runs"
         /\ failures'[s] \in 0 .. MaxFailures
         /\ loop'[s] = "runs" => failures'[s] < MaxFailures
<1> DEFINE gaveUp == Seed!Cleared \cup {x \in configured : loop[x] = "ended"}
           starts == {x \in configured \ gaveUp : loop[x] # "runs"}
<1>1. /\ loop' = [x \in Seeds |-> IF x \notin configured \/ x \in gaveUp THEN "none" ELSE "runs"]
      /\ failures' = [x \in Seeds |-> IF loop'[x] = "none" \/ x \in starts THEN 0 ELSE failures[x]]
  BY DEF Seed!Supervise
<1>2. loop'[s] = IF s \notin configured \/ s \in gaveUp THEN "none" ELSE "runs" BY <1>1, Zenon
<1>3. failures'[s] = IF loop'[s] = "none" \/ s \in starts THEN 0 ELSE failures[s] BY <1>1, Zenon
<1>4. ASSUME s \in configured, s \notin prevDesired PROVE s \notin gaveUp
  <2>1. configured # prevDesired BY <1>4
  <2>2. Seed!Cleared = {} BY <2>1 DEF Seed!Cleared
  <2>3. loop[s] = "none" BY <1>4 DEF SeedInv
  <2> QED BY <2>2, <2>3
<1>5. failures[s] \in 0 .. MaxFailures /\ (loop[s] = "runs" => failures[s] < MaxFailures)
  BY DEF SeedInv, Seed!TypeOK
<1>6. s \in configured /\ s \notin gaveUp /\ s \notin starts => loop[s] = "runs" OBVIOUS
<1>7. 0 \in 0 .. MaxFailures /\ 0 < MaxFailures BY DEF SeedBounds
<1> HIDE DEF gaveUp, starts
<1> QED BY <1>2, <1>3, <1>4, <1>5, <1>6, <1>7

LEMMA SeedNext ==
  ASSUME SeedBounds, SeedInv, [Seed!Next]_(Seed!vars)
  PROVE  SeedInv'
<1>1. CASE UNCHANGED Seed!vars BY <1>1 DEF SeedInv, Seed!TypeOK, Seed!vars
<1>2. CASE \E S \in SUBSET Seeds : Seed!Reload(S)
  BY <1>2 DEF SeedBounds, SeedInv, Seed!TypeOK, Seed!Reload
<1>3. ASSUME NEW s \in Seeds, Seed!HandshakeOk(s) PROVE SeedInv'
  BY <1>3 DEF SeedBounds, SeedInv, Seed!TypeOK, Seed!HandshakeOk
<1>4. ASSUME NEW s \in Seeds, Seed!HandshakeFails(s) PROVE SeedInv'
  <2>1. /\ loop[s] = "runs" /\ failures' = [failures EXCEPT ![s] = @ + 1]
        /\ loop' = [loop EXCEPT ![s] = IF failures'[s] >= MaxFailures THEN "ended" ELSE @]
        /\ UNCHANGED <<configured, prevDesired, givenUp, reloads>>
    BY <1>4 DEF Seed!HandshakeFails
  <2>2. /\ failures \in [Seeds -> 0 .. MaxFailures] /\ loop \in [Seeds -> {"none", "runs", "ended"}]
        /\ failures[s] < MaxFailures
    BY <2>1 DEF SeedInv, Seed!TypeOK
  <2>3. failures'[s] = failures[s] + 1 /\ failures' \in [Seeds -> 0 .. MaxFailures]
    BY <2>1, <2>2 DEF SeedBounds
  <2>4. /\ loop'[s] = IF failures'[s] >= MaxFailures THEN "ended" ELSE "runs"
        /\ \A x \in Seeds : x # s => loop'[x] = loop[x] /\ failures'[x] = failures[x]
        /\ loop' \in [Seeds -> {"none", "runs", "ended"}]
    BY <2>1, <2>2
  <2>5. Seed!TypeOK' BY <2>1, <2>3, <2>4 DEF SeedInv, Seed!TypeOK
  <2>6. ASSUME NEW x \in Seeds
        PROVE  /\ loop'[x] # "none" => x \in prevDesired'
               /\ loop'[x] = "runs" => failures'[x] < MaxFailures
    <3>1. CASE x = s
      <4>1. s \in prevDesired' BY <2>1 DEF SeedInv
      <4> QED BY <2>2, <2>3, <2>4, <3>1, <4>1 DEF SeedBounds
    <3>2. CASE x # s BY <2>1, <2>4, <3>2 DEF SeedInv
    <3> QED BY <3>1, <3>2
  <2> QED BY <2>5, <2>6 DEF SeedInv
<1>5. CASE Seed!Supervise
  <2>1. /\ prevDesired' = configured /\ UNCHANGED <<configured, reloads>>
        /\ givenUp' = Seed!Cleared \cup {x \in configured : loop[x] = "ended"}
    BY <1>5 DEF Seed!Supervise
  <2>2. givenUp' \subseteq Seeds BY <2>1 DEF SeedInv, Seed!TypeOK, Seed!Cleared
  <2>3. \E l, f : loop' = [x \in Seeds |-> l[x]] /\ failures' = [x \in Seeds |-> f[x]]
    <3>1. loop' = [x \in Seeds |-> loop'[x]] BY <1>5 DEF Seed!Supervise
    <3>2. failures' = [x \in Seeds |-> failures'[x]] BY <1>5 DEF Seed!Supervise
    <3> QED BY <3>1, <3>2
  <2>4. loop' \in [Seeds -> {"none", "runs", "ended"}] /\ failures' \in [Seeds -> 0 .. MaxFailures]
    <3>1. \A x \in Seeds : loop'[x] \in {"none", "runs"} /\ failures'[x] \in 0 .. MaxFailures
      BY <1>5, Supervised
    <3> QED BY <2>3, <3>1
  <2>5. Seed!TypeOK' BY <2>1, <2>2, <2>4 DEF SeedInv, Seed!TypeOK
  <2>6. \A x \in Seeds :
          /\ loop'[x] # "none" => x \in prevDesired'
          /\ loop'[x] = "runs" => failures'[x] < MaxFailures
    BY <1>5, <2>1, Supervised
  <2> QED BY <2>5, <2>6, Zenon DEF SeedInv
<1> QED BY <1>1, <1>2, <1>3, <1>4, <1>5 DEF Seed!Next

SeedsFollow ==
  \A s \in Seeds :
    /\ s \in prevDesired' \ prevDesired => loop'[s] = "runs"
    /\ s \in prevDesired \ prevDesired' => loop'[s] = "none"

(* A tick starts the seeds that are new on the list, given up or not, and   *)
(* stops those no longer on it; no other step sees the list.               *)
LEMMA SeedStep ==
  ASSUME SeedBounds, SeedInv, [Seed!Next]_(Seed!vars)
  PROVE  SeedsFollow
<1> SUFFICES ASSUME NEW s \in Seeds
             PROVE  /\ s \in prevDesired' \ prevDesired => loop'[s] = "runs"
                    /\ s \in prevDesired \ prevDesired' => loop'[s] = "none"
  BY DEF SeedsFollow
<1>1. CASE Seed!Supervise
  <2>1. prevDesired' = configured BY <1>1 DEF Seed!Supervise
  <2> QED BY <1>1, <2>1, Supervised
<1>2. CASE prevDesired' = prevDesired BY <1>2
<1>3. Seed!Supervise \/ prevDesired' = prevDesired
  BY DEF Seed!Next, Seed!vars, Seed!Reload, Seed!HandshakeOk, Seed!HandshakeFails
<1> QED BY <1>1, <1>2, <1>3

(* However the list is edited, while seeds fail and give up: a seed that is *)
(* listed anew is tried, one that is no longer listed is not.              *)
THEOREM SeedsAlwaysFollow ==
  ASSUME SeedBounds
  PROVE  Seed!Spec => SeedsFollowConfig
<1>1. Seed!Init => SeedInv BY SeedInit
<1>2. SeedInv /\ [Seed!Next]_(Seed!vars) => SeedInv' BY SeedNext
<1>3. SeedInv => Seed!TypeOK BY DEF SeedInv
<1>4. SeedInv /\ [Seed!Next]_(Seed!vars) => SeedsFollow BY SeedStep
<1>5. Seed!Spec => []Seed!TypeOK BY <1>1, <1>2, <1>3, PTL DEF Seed!Spec
<1>6. Seed!Spec => [][SeedsFollow]_(Seed!vars) BY <1>1, <1>2, <1>4, PTL DEF Seed!Spec
<1> QED BY <1>5, <1>6 DEF SeedsFollowConfig, Seed!SeedsFollowConfig, SeedsFollow

-----------------------------------------------------------------------------
(* UdpChannels.  Clients are no servers, and crypt pings are of the size    *)
(* clients send.                                                           *)
ChannelBounds ==
  /\ Clients \cap UdpServers = {} /\ At \in [UdpServers -> Addrs] /\ Exits \in [Clients -> SUBSET Addrs]
  /\ PingSizes \subseteq 4 .. 19 /\ MaxPings \in Nat /\ MaxSent \in Nat

Ops == {"9f", "query", "a6", "97", "probe"}
Datagram(op, w, from, key, way, sized, ctx) ==
  [op |-> op, w |-> w, from |-> from, key |-> key, way |-> way, sized |-> sized, ctx |-> ctx]

(* A key is not the part of a ping that was not sent yet. *)
Made(key) == \A s \in UdpServers, n \in Nat : key = Udp!Part(s, n) => n <= pings

GoodDatagram(m) ==
  /\ m.op \in Ops /\ m.w \in Udp!Who /\ m.from \in Udp!SourcesOf(m.w) /\ m.way \in Udp!Ways
  /\ m.op = "probe" => m.w \in UdpServers
  /\ m.key # Udp!NoKey /\ Made(m.key)

(* What was decoded and not answered has its key in the cache, unless a     *)
(* sweep took it, or brings the key that rescued it.                       *)
BusyInv ==
  busy # Udp!Idle =>
    /\ GoodDatagram(busy)
    /\ busy.ctx = Udp!NoKey \/ (busy.ctx = busy.key /\ busy.way = "6b")
    /\ <<busy.from, busy.w>> \in DOMAIN cache => cache[<<busy.from, busy.w>>] = <<busy.key, busy.way>>

PartsMade == \A s \in UdpServers : Made(stash[s]) /\ Made(onWire[s])
LastMade == last # Udp!Idle => Made(last.m.key)
ChannelTypes ==
  /\ keyHeld = [w \in Udp!Who |-> keyHeld[w]] /\ stash = [s \in UdpServers |-> stash[s]]
  /\ onWire = [s \in UdpServers |-> onWire[s]] /\ known = [s \in UdpServers |-> known[s]]

ChannelInv ==
  /\ Udp!TypeOK /\ ChannelTypes /\ PartsMade /\ LastMade /\ BusyInv
  /\ Udp!Heard /\ Udp!ReplyReadable

-----------------------------------------------------------------------------
LEMMA KeysDiffer ==
  /\ \A a : Udp!OurKey(a) # Udp!NoKey /\ Made(Udp!OurKey(a))
  /\ Made(Udp!NoKey)
  /\ \A s, n : Udp!Part(s, n) # Udp!NoKey /\ Udp!Replaced(s, n) # Udp!NoKey /\ Made(Udp!Replaced(s, n))
  /\ \A s, t, m, n : Udp!Part(s, m) = Udp!Part(t, n) => m = n
<1>1. \A a : Udp!OurKey(a) # Udp!NoKey
  BY DEF Udp!OurKey, Udp!NoKey
<1>2. \A s, n : Udp!Part(s, n) # Udp!NoKey /\ Udp!Replaced(s, n) # Udp!NoKey
  BY DEF Udp!Part, Udp!Replaced, Udp!NoKey
<1>3. \A a, s, n : Udp!OurKey(a) # Udp!Part(s, n)
  BY DEF Udp!OurKey, Udp!Part
<1>4. \A s, t, m, n : Udp!Replaced(s, m) # Udp!Part(t, n)
  BY DEF Udp!Replaced, Udp!Part
<1>5. \A s, t, m, n : Udp!Part(s, m) = Udp!Part(t, n) => m = n
  BY DEF Udp!Part
<1> QED BY <1>1, <1>2, <1>3, <1>4, <1>5 DEF Made

LEMMA ChannelInit ==
  ASSUME ChannelBounds, Udp!Init
  PROVE  ChannelInv
<1>1. /\ keyHeld = [w \in Udp!Who |-> Udp!NoKey] /\ stash = [s \in UdpServers |-> Udp!NoKey]
      /\ onWire = stash /\ known = stash /\ challenges = {} /\ cache = [p \in {} |-> Udp!NoKey]
      /\ pingers = {} /\ seen = {} /\ busy = Udp!Idle /\ last = Udp!Idle /\ pings = 0 /\ sent = 0
  BY DEF Udp!Init
<1>2. ChannelTypes BY <1>1, Zenon DEF ChannelTypes
<1>3. Udp!TypeOK BY <1>1 DEF Udp!TypeOK, ChannelBounds
<1>4. PartsMade BY <1>1, KeysDiffer DEF PartsMade
<1>5. LastMade /\ BusyInv /\ Udp!Heard /\ Udp!ReplyReadable
  BY <1>1 DEF LastMade, BusyInv, Udp!Heard, Udp!ReplyReadable
<1> QED BY <1>2, <1>3, <1>4, <1>5 DEF ChannelInv

(* A ping sent makes no key of the past a key to come. *)
LEMMA MadeStays ==
  ASSUME pings \in Nat, pings' \in Nat, pings <= pings', NEW key, Made(key)
  PROVE  \A s \in UdpServers, n \in Nat : key = Udp!Part(s, n) => n <= pings'
BY DEF Made

-----------------------------------------------------------------------------
(* The cache with one entry more. *)
CacheGood(c) == \A p \in DOMAIN c : p[1] \in Udp!SourcesOf(p[2]) /\ c[p][2] \in Udp!Ways

LEMMA CachedNow ==
  ASSUME CacheGood(cache), NEW a, NEW w, NEW key, NEW way \in Udp!Ways, a \in Udp!SourcesOf(w),
         Udp!CacheAs(<<a, w>>, key, way)
  PROVE  CacheGood(cache') /\ cache'[<<a, w>>] = <<key, way>>
<1> DEFINE p == <<a, w>>
<1>1. cache' = [q \in DOMAIN cache \cup {p} |-> IF q = p THEN <<key, way>> ELSE cache[q]]
  BY DEF Udp!CacheAs
<1>2. p[1] = a /\ p[2] = w /\ <<key, way>>[2] = way OBVIOUS
<1> HIDE DEF p
<1>3. DOMAIN cache' = DOMAIN cache \cup {p} /\ cache'[p] = <<key, way>> BY <1>1
<1>4. ASSUME NEW q \in DOMAIN cache' PROVE q[1] \in Udp!SourcesOf(q[2]) /\ cache'[q][2] \in Udp!Ways
  <2>1. CASE q = p BY <1>2, <1>3, <2>1
  <2>2. CASE q # p
    <3>1. q \in DOMAIN cache /\ cache'[q] = cache[q] BY <1>1, <1>3, <2>2
    <3> QED BY <3>1 DEF CacheGood
  <2> QED BY <2>1, <2>2
<1> QED BY <1>3, <1>4 DEF CacheGood, p

LEMMA SourceAddress ==
  ASSUME ChannelBounds, NEW w \in Udp!Who
  PROVE  Udp!SourcesOf(w) \subseteq Addrs
BY DEF ChannelBounds, Udp!Who, Udp!SourcesOf

(* Of what ChannelInv says, what a datagram's arrival leaves alone. *)
LEMMA SameKeys ==
  ASSUME ChannelInv, UNCHANGED <<keyHeld, stash, onWire, known, challenges, pingers, pings>>,
         sent' \in 0 .. MaxSent, seen' \subseteq Addrs, CacheGood(cache')
  PROVE  Udp!TypeOK' /\ ChannelTypes' /\ PartsMade'
<1>1. Udp!TypeOK' BY DEF ChannelInv, Udp!TypeOK, CacheGood
<1>2. ChannelTypes' /\ PartsMade' BY DEF ChannelInv, ChannelTypes, PartsMade, Made
<1> QED BY <1>1, <1>2

LEMMA Decoded ==
  ASSUME ChannelInv, UNCHANGED <<keyHeld, stash, onWire, known, challenges, pingers, pings, last>>,
         sent' \in 0 .. MaxSent, seen' \subseteq Addrs, CacheGood(cache'),
         NEW b, busy' = b, GoodDatagram(b), b.ctx = Udp!NoKey \/ (b.ctx = b.key /\ b.way = "6b"),
         <<b.from, b.w>> \in DOMAIN cache' => cache'[<<b.from, b.w>>] = <<b.key, b.way>>
  PROVE  ChannelInv'
<1>1. Udp!TypeOK' /\ ChannelTypes' /\ PartsMade' BY SameKeys
<1>2. BusyInv' BY DEF BusyInv, GoodDatagram, Made
<1>3. LastMade' BY DEF ChannelInv, LastMade, Made
<1>4. Udp!Heard' /\ Udp!ReplyReadable' BY DEF ChannelInv, Udp!Heard, Udp!ReplyReadable
<1> QED BY <1>1, <1>2, <1>3, <1>4 DEF ChannelInv

(* A datagram that is not decoded. *)
LEMMA NotDecoded ==
  ASSUME ChannelInv, UNCHANGED <<keyHeld, stash, onWire, known, challenges, pingers, pings, cache, busy>>,
         sent' \in 0 .. MaxSent, seen' \subseteq Addrs, busy = Udp!Idle,
         NEW m, GoodDatagram(m), NEW what, Udp!Outcome(m, what, Udp!Nothing),
         \/ what = "unaffordable"
         \/ /\ what = "undecodable" /\ m.key # Udp!OurKey(m.from)
            /\ m.w \in UdpServers => m.key # stash[m.w]
  PROVE  ChannelInv' /\ last'.op = m.op /\ last'.m = m /\ last'.what = what
<1>1. last' = [op |-> m.op, m |-> m, what |-> what, reply |-> Udp!Nothing] BY DEF Udp!Outcome
<1>2. last'.op = m.op /\ last'.m = m /\ last'.what = what BY <1>1
<1>3. m.op # "ping" BY DEF GoodDatagram, Ops
<1>4. CacheGood(cache') BY DEF ChannelInv, Udp!TypeOK, CacheGood
<1>5. Udp!TypeOK' /\ ChannelTypes' /\ PartsMade' BY <1>4, SameKeys
<1>6. BusyInv' BY DEF BusyInv
<1>7. LastMade' BY <1>2 DEF LastMade, GoodDatagram, Made
<1>8. Udp!Heard' BY <1>2, <1>3 DEF Udp!Heard
<1>9. Udp!ReplyReadable' BY <1>2 DEF Udp!ReplyReadable
<1> QED BY <1>2, <1>5, <1>6, <1>7, <1>8, <1>9 DEF ChannelInv

LEMMA WithContext ==
  ASSUME NEW m, m = Datagram(m.op, m.w, m.from, m.key, m.way, m.sized, m.ctx), GoodDatagram(m)
  PROVE  /\ GoodDatagram([m EXCEPT !.ctx = m.key]) /\ [m EXCEPT !.ctx = m.key].ctx = m.key
         /\ [m EXCEPT !.ctx = m.key].key = m.key /\ [m EXCEPT !.ctx = m.key].way = m.way
         /\ [m EXCEPT !.ctx = m.key].from = m.from /\ [m EXCEPT !.ctx = m.key].w = m.w
<1> DEFINE k == m.key
<1> HIDE DEF k
<1>1. [m EXCEPT !.ctx = k] = Datagram(m.op, m.w, m.from, m.key, m.way, m.sized, k) BY DEF Datagram
<1> DEFINE n == [m EXCEPT !.ctx = k]
<1>2. n = Datagram(m.op, m.w, m.from, m.key, m.way, m.sized, k) BY <1>1
<1> HIDE DEF n
<1>3. n.op = m.op /\ n.w = m.w /\ n.from = m.from /\ n.key = m.key /\ n.way = m.way /\ n.ctx = k
  BY <1>2 DEF Datagram
<1>4. GoodDatagram(n) BY <1>3, Zenon DEF GoodDatagram
<1> QED BY <1>3, <1>4, Zenon DEF n, k

(* What Receive makes of a datagram: it is dealt with next, or was not      *)
(* decoded.                                                                *)
LEMMA Received ==
  ASSUME ChannelBounds, ChannelInv, NEW m, m = Datagram(m.op, m.w, m.from, m.key, m.way, m.sized, m.ctx),
         GoodDatagram(m), m.ctx = Udp!NoKey, Udp!Receive(m), UNCHANGED keyHeld, sent' \in 0 .. MaxSent
  PROVE  /\ ChannelInv'
         /\ \/ last' = last
            \/ last'.what = "unaffordable"
            \/ /\ last'.m = m /\ last'.op = m.op
               /\ ~(m.sized /\ m.from \notin seen /\ m.key \in Udp!NearbyKeys(m.from) /\ m.way = "6b")
                    \/ m.op \notin Udp!Rescuable
<1> DEFINE p == <<m.from, m.w>>
           looked == m.sized /\ m.from \notin seen /\ m.key \in Udp!NearbyKeys(m.from) /\ m.way = "6b"
<1>1. busy = Udp!Idle /\ UNCHANGED <<stash, onWire, known, challenges, pingers, pings>> BY DEF Udp!Receive
<1>2. CacheGood(cache) /\ seen \subseteq Addrs BY DEF ChannelInv, Udp!TypeOK, CacheGood
<1>3. m.from \in Addrs BY SourceAddress DEF GoodDatagram
<1>4. m.w \in Udp!Who /\ m.from \in Udp!SourcesOf(m.w) /\ m.way \in Udp!Ways BY DEF GoodDatagram
<1>5. CASE Udp!Cached(p) = <<m.key, m.way>> /\ busy' = m /\ UNCHANGED <<cache, seen, last>>
  <2>1. p \in DOMAIN cache' => cache'[p] = <<m.key, m.way>> BY <1>5 DEF Udp!Cached
  <2>2. ChannelInv' BY <1>1, <1>2, <1>5, <2>1, Decoded
  <2> QED BY <1>5, <2>2
<1>6. CASE Udp!Outcome(m, "unaffordable", Udp!Nothing) /\ UNCHANGED <<cache, seen, busy>>
  BY <1>1, <1>2, <1>6, NotDecoded
<1>7. CASE Udp!Found(m, m.way)
  <2>1. Udp!CacheAs(p, m.key, m.way) /\ busy' = m /\ UNCHANGED <<seen, last>> BY <1>7 DEF Udp!Found
  <2>2. CacheGood(cache') /\ cache'[p] = <<m.key, m.way>> BY <1>2, <1>4, <2>1, CachedNow
  <2>3. ChannelInv' BY <1>1, <1>2, <2>1, <2>2, Decoded
  <2> QED BY <2>1, <2>3
<1>8. CASE m.key \notin Udp!KeysTried(m.from) /\ Udp!Undecodable(m)
  <2>1. seen' \subseteq Addrs BY <1>2, <1>3, <1>8 DEF Udp!Undecodable
  <2>2. CASE looked /\ m.op \in Udp!Rescuable
    <3> DEFINE n == [m EXCEPT !.ctx = m.key]
    <3>1. Udp!CacheAs(p, m.key, "6b") /\ busy' = n /\ UNCHANGED last
      BY <1>8, <2>2 DEF Udp!Undecodable
    <3>2. /\ GoodDatagram(n) /\ n.ctx = m.key /\ n.key = m.key /\ n.way = m.way /\ n.from = m.from /\ n.w = m.w
      BY WithContext
    <3> HIDE DEF n
    <3>3. CacheGood(cache') /\ cache'[p] = <<m.key, "6b">>
      <4>1. "6b" \in Udp!Ways BY DEF Udp!Ways
      <4> QED BY <1>2, <1>4, <3>1, <4>1, CachedNow
    <3>4. ChannelInv' BY <1>1, <2>1, <2>2, <3>1, <3>2, <3>3, Decoded
    <3> QED BY <3>1, <3>4
  <2>3. CASE ~(looked /\ m.op \in Udp!Rescuable)
    <3>1. Udp!Outcome(m, "undecodable", Udp!Nothing) /\ UNCHANGED <<cache, busy>>
      BY <1>8, <2>3 DEF Udp!Undecodable
    <3>2. m.key # Udp!OurKey(m.from) BY <1>8 DEF Udp!KeysTried
    <3>3. m.w \in UdpServers => m.key # stash[m.w]
      <4> SUFFICES ASSUME m.w \in UdpServers, m.key = stash[m.w] PROVE FALSE
        OBVIOUS
      <4>1. m.from = At[m.w] BY <1>4 DEF Udp!SourcesOf
      <4>2. stash[m.w] # Udp!NoKey BY DEF GoodDatagram
      <4>3. stash[m.w] \in Udp!KeysTried(m.from) BY <4>1, <4>2 DEF Udp!KeysTried
      <4> QED BY <1>8, <4>3
    <3>4. ChannelInv' /\ last'.op = m.op /\ last'.m = m BY <1>1, <2>1, <3>1, <3>2, <3>3, NotDecoded
    <3> QED BY <2>3, <3>4
  <2> QED BY <2>2, <2>3
<1> QED BY <1>5, <1>6, <1>7, <1>8 DEF Udp!Receive

-----------------------------------------------------------------------------
(* The actions.  A datagram as it is sent. *)
LEMMA DatagramFields ==
  ASSUME NEW op, NEW w, NEW from, NEW key, NEW way, NEW sized, NEW ctx
  PROVE  /\ Datagram(op, w, from, key, way, sized, ctx).op = op /\ Datagram(op, w, from, key, way, sized, ctx).w = w
         /\ Datagram(op, w, from, key, way, sized, ctx).from = from /\ Datagram(op, w, from, key, way, sized, ctx).key = key
         /\ Datagram(op, w, from, key, way, sized, ctx).way = way /\ Datagram(op, w, from, key, way, sized, ctx).sized = sized
         /\ Datagram(op, w, from, key, way, sized, ctx).ctx = ctx
BY Zenon DEF Datagram

LEMMA Shape ==
  ASSUME NEW m, NEW op, NEW w, NEW from, NEW key, NEW way, NEW sized, NEW ctx,
         m = Datagram(op, w, from, key, way, sized, ctx)
  PROVE  /\ m.op = op /\ m.w = w /\ m.from = from /\ m.key = key /\ m.way = way
         /\ m.sized = sized /\ m.ctx = ctx
         /\ m = Datagram(m.op, m.w, m.from, m.key, m.way, m.sized, m.ctx)
<1>1. /\ m.op = op /\ m.w = w /\ m.from = from /\ m.key = key /\ m.way = way
      /\ m.sized = sized /\ m.ctx = ctx
  BY DatagramFields
<1> QED BY <1>1, Zenon

(* A keepalive or a query that the network's keys would have rescued is     *)
(* rescued.                                                                *)
Rescues ==
  last' # last /\ last'.what = "undecodable" /\ last'.op \in Udp!Rescuable =>
    ~last'.m.sized \/ last'.m.from \in seen
      \/ \A b \in Udp!Near(last'.m.from) : b \in pingers => last'.m.key # Udp!OurKey(b)

(* The keys that were given are ours. *)
LEMMA GivenKey ==
  ASSUME ChannelInv, NEW w \in Udp!Who, keyHeld[w] # Udp!NoKey
  PROVE  Made(keyHeld[w])
<1>1. PICK a \in Addrs : keyHeld[w] = Udp!OurKey(a) BY DEF ChannelInv, Udp!TypeOK
<1> QED BY <1>1, KeysDiffer

LEMMA ClientStep ==
  ASSUME ChannelBounds, ChannelInv, NEW c \in Clients, NEW a \in Exits[c], NEW op \in {"9f", "query", "a6"},
         NEW sized \in BOOLEAN, Udp!ClientSends(c, a, op, sized)
  PROVE  ChannelInv' /\ Rescues
<1> DEFINE m == Datagram(op, c, a, keyHeld[c], "6b", sized, Udp!NoKey)
<1>1. /\ keyHeld[c] # Udp!NoKey /\ sent < MaxSent /\ sent' = sent + 1 /\ Udp!Receive(m) /\ UNCHANGED keyHeld
  BY DEF Udp!ClientSends, Datagram
<1>2. sent' \in 0 .. MaxSent BY <1>1 DEF ChannelInv, Udp!TypeOK, ChannelBounds
<1>3. /\ m.op = op /\ m.w = c /\ m.from = a /\ m.key = keyHeld[c] /\ m.way = "6b" /\ m.ctx = Udp!NoKey
      /\ m = Datagram(m.op, m.w, m.from, m.key, m.way, m.sized, m.ctx)
  <2>1. m = Datagram(op, c, a, keyHeld[c], "6b", sized, Udp!NoKey) OBVIOUS
  <2> HIDE DEF m
  <2> QED BY <2>1, Shape
<1> HIDE DEF m
<1>5. GoodDatagram(m)
  <2>1. c \in Udp!Who /\ c \notin UdpServers /\ a \in Udp!SourcesOf(c)
    BY DEF ChannelBounds, Udp!Who, Udp!SourcesOf
  <2>2. Made(keyHeld[c]) BY <1>1, <2>1, GivenKey
  <2> QED BY <1>1, <1>3, <2>1, <2>2 DEF GoodDatagram, Ops, Udp!Ways
<1>6. /\ ChannelInv'
      /\ \/ last' = last
         \/ last'.what = "unaffordable"
         \/ /\ last'.m = m /\ last'.op = m.op
            /\ ~(m.sized /\ m.from \notin seen /\ m.key \in Udp!NearbyKeys(m.from) /\ m.way = "6b")
                 \/ m.op \notin Udp!Rescuable
  BY <1>1, <1>2, <1>3, <1>5, Received
<1>7. Rescues
  <2> SUFFICES ASSUME last' # last, last'.what = "undecodable", last'.op \in Udp!Rescuable
               PROVE  ~last'.m.sized \/ last'.m.from \in seen
                        \/ \A b \in Udp!Near(last'.m.from) : b \in pingers => last'.m.key # Udp!OurKey(b)
    BY Zenon DEF Rescues
  <2>1. last'.m = m /\ ~(m.sized /\ m.from \notin seen /\ m.key \in Udp!NearbyKeys(m.from))
    BY <1>3, <1>6
  <2>2. m.key \notin Udp!NearbyKeys(m.from) =>
          \A b \in Udp!Near(m.from) : b \in pingers => m.key # Udp!OurKey(b)
    BY DEF Udp!NearbyKeys
  <2> QED BY <2>1, <2>2, Zenon
<1> QED BY <1>6, <1>7

LEMMA ServerStep ==
  ASSUME ChannelBounds, ChannelInv, NEW s \in UdpServers, Udp!ServerSends(s)
  PROVE  ChannelInv' /\ Rescues
<1>1. sent < MaxSent /\ sent' = sent + 1 /\ UNCHANGED keyHeld BY DEF Udp!ServerSends
<1>2. sent' \in 0 .. MaxSent BY <1>1 DEF ChannelInv, Udp!TypeOK, ChannelBounds
<1>3. s \in Udp!Who /\ At[s] \in Udp!SourcesOf(s) BY DEF Udp!Who, Udp!SourcesOf
<1>4. ASSUME NEW op \in {"97", "probe"}, NEW key, key # Udp!NoKey, Made(key), NEW way \in Udp!Ways,
             Udp!Receive(Datagram(op, s, At[s], key, way, FALSE, Udp!NoKey))
      PROVE  ChannelInv' /\ Rescues
  <2> DEFINE m == Datagram(op, s, At[s], key, way, FALSE, Udp!NoKey)
  <2>1. /\ m.op = op /\ m.w = s /\ m.from = At[s] /\ m.key = key /\ m.way = way /\ m.ctx = Udp!NoKey
        /\ m = Datagram(m.op, m.w, m.from, m.key, m.way, m.sized, m.ctx)
    <3> DEFINE sized == FALSE
    <3>1. m = Datagram(op, s, At[s], key, way, sized, Udp!NoKey) OBVIOUS
    <3> HIDE DEF m, sized
    <3> QED BY <3>1, Shape
  <2>2. Udp!Receive(m) BY <1>4
  <2> HIDE DEF m
  <2>3. GoodDatagram(m) BY <1>3, <1>4, <2>1 DEF GoodDatagram, Ops
  <2>4. /\ ChannelInv'
        /\ \/ last' = last
           \/ last'.what = "unaffordable"
           \/ last'.m = m /\ last'.op = m.op
    BY <1>1, <1>2, <2>1, <2>2, <2>3, Received
  <2>5. m.op \notin Udp!Rescuable BY <2>1 DEF Udp!Rescuable
  <2> QED BY <2>4, <2>5 DEF Rescues
<1>5. CASE onWire[s] # Udp!NoKey /\ Udp!Receive(Datagram("97", s, At[s], onWire[s], "a5", FALSE, Udp!NoKey))
  <2>1. Made(onWire[s]) BY DEF ChannelInv, PartsMade
  <2> QED BY <1>4, <1>5, <2>1 DEF Udp!Ways
<1>6. ASSUME keyHeld[s] # Udp!NoKey, NEW way \in Udp!Ways,
             Udp!Receive(Datagram("probe", s, At[s], keyHeld[s], way, FALSE, Udp!NoKey))
      PROVE  ChannelInv' /\ Rescues
  BY <1>3, <1>4, <1>6, GivenKey
<1> QED BY <1>5, <1>6 DEF Udp!ServerSends, Datagram

(* What is decoded is answered with its key, the other way round. *)
LEMMA AnswerStep ==
  ASSUME ChannelBounds, ChannelInv, Udp!Answer
  PROVE  ChannelInv' /\ Rescues
<1> DEFINE p == <<busy.from, busy.w>>
           reply == CASE busy.ctx # Udp!NoKey -> [key |-> busy.ctx, way |-> Udp!ReplyWay("6b")]
                      [] busy.ctx = Udp!NoKey /\ p \in DOMAIN cache ->
                           [key |-> cache[p][1], way |-> Udp!ReplyWay(cache[p][2])]
                      [] OTHER -> Udp!Nothing
<1>1. /\ busy # Udp!Idle /\ busy' = Udp!Idle /\ Udp!Outcome(busy, "handled", reply)
      /\ IF busy.op = "probe" THEN Udp!Challenged(busy.w, busy.from) ELSE UNCHANGED <<keyHeld, challenges>>
      /\ IF busy.op = "97" THEN Udp!LearnsKey(busy.w) ELSE UNCHANGED known
      /\ UNCHANGED <<stash, onWire, cache, pingers, seen, pings, sent>>
  BY DEF Udp!Answer
<1>2. /\ GoodDatagram(busy)
      /\ busy.ctx = Udp!NoKey \/ (busy.ctx = busy.key /\ busy.way = "6b")
      /\ p \in DOMAIN cache => cache[p] = <<busy.key, busy.way>>
  BY <1>1 DEF ChannelInv, BusyInv
<1>3. \/ reply = Udp!Nothing
      \/ reply.key = busy.key /\ reply.way = Udp!ReplyWay(busy.way)
  <2> HIDE DEF p
  <2>1. CASE busy.ctx # Udp!NoKey
    <3>1. reply = [key |-> busy.ctx, way |-> Udp!ReplyWay("6b")] BY <2>1
    <3> HIDE DEF reply
    <3>2. reply.key = busy.ctx /\ reply.way = Udp!ReplyWay("6b") BY <3>1
    <3> QED BY <1>2, <2>1, <3>2
  <2>2. CASE busy.ctx = Udp!NoKey /\ p \in DOMAIN cache
    <3>1. reply = [key |-> cache[p][1], way |-> Udp!ReplyWay(cache[p][2])] BY <2>2
    <3> HIDE DEF reply
    <3>2. reply.key = cache[p][1] /\ reply.way = Udp!ReplyWay(cache[p][2]) BY <3>1
    <3>3. cache[p][1] = busy.key /\ cache[p][2] = busy.way BY <1>2, <2>2
    <3> QED BY <3>2, <3>3
  <2>3. CASE busy.ctx = Udp!NoKey /\ p \notin DOMAIN cache BY <2>3
  <2> QED BY <2>1, <2>2, <2>3
<1> HIDE DEF reply
<1>4. last' = [op |-> busy.op, m |-> busy, what |-> "handled", reply |-> reply] BY <1>1 DEF Udp!Outcome
<1>5. last'.op = busy.op /\ last'.m = busy /\ last'.what = "handled" /\ last'.reply = reply BY <1>4
<1>6. Udp!ReplyReadable'
  <2>1. \/ last'.reply = Udp!Nothing
        \/ last'.reply.key = last'.m.key /\ last'.reply.way = Udp!ReplyWay(last'.m.way)
    BY <1>3, <1>5
  <2> QED BY <2>1 DEF Udp!ReplyReadable, Udp!ReplyWay
<1>7. busy.w \in Udp!Who /\ busy.from \in Addrs BY <1>2, SourceAddress DEF GoodDatagram
<1>8. /\ keyHeld' = [w \in Udp!Who |-> keyHeld'[w]]
      /\ \A w \in Udp!Who : keyHeld'[w] = Udp!NoKey \/ \E a \in Addrs : keyHeld'[w] = Udp!OurKey(a)
      /\ challenges' \subseteq UdpServers
  <2>1. /\ keyHeld = [w \in Udp!Who |-> keyHeld[w]] /\ challenges \subseteq UdpServers
        /\ \A w \in Udp!Who : keyHeld[w] = Udp!NoKey \/ \E a \in Addrs : keyHeld[w] = Udp!OurKey(a)
    BY DEF ChannelInv, ChannelTypes, Udp!TypeOK
  <2>2. CASE busy.op = "probe"
    <3>1. busy.w \in UdpServers BY <1>2, <2>2 DEF GoodDatagram
    <3>2. /\ keyHeld' = [keyHeld EXCEPT ![busy.w] = Udp!OurKey(busy.from)]
          /\ challenges' = challenges \cup {busy.w}
      BY <1>1, <2>2 DEF Udp!Challenged, Udp!Published
    <3> QED BY <1>7, <2>1, <3>1, <3>2
  <2>3. CASE busy.op # "probe"
    <3>1. keyHeld' = keyHeld /\ challenges' = challenges BY <1>1, <2>3
    <3> QED BY <2>1, <3>1, Zenon
  <2> QED BY <2>2, <2>3
<1>9. /\ known' = [s \in UdpServers |-> known'[s]]
      /\ \A s \in UdpServers : known'[s] \in {Udp!NoKey, <<"srv", s>>}
  <2>1. /\ known = [s \in UdpServers |-> known[s]]
        /\ \A s \in UdpServers : known[s] \in {Udp!NoKey, <<"srv", s>>}
    BY DEF ChannelInv, ChannelTypes, Udp!TypeOK
  <2>2. CASE busy.op = "97"
    <3>1. known' = [known EXCEPT ![busy.w] = <<"srv", busy.w>>] BY <1>1, <2>2 DEF Udp!LearnsKey
    <3>2. known' = [s \in UdpServers |-> IF s = busy.w THEN <<"srv", s>> ELSE known[s]] BY <2>1, <3>1
    <3>3. \A s \in UdpServers : known'[s] = IF s = busy.w THEN <<"srv", s>> ELSE known[s] BY <3>2
    <3>4. known' = [s \in UdpServers |-> known'[s]] BY <3>2
    <3> QED BY <2>1, <3>3, <3>4
  <2>3. CASE busy.op # "97"
    <3>1. known' = known BY <1>1, <2>3
    <3> QED BY <2>1, <3>1, Zenon
  <2> QED BY <2>2, <2>3
<1>10. Udp!TypeOK' BY <1>1, <1>8, <1>9 DEF ChannelInv, Udp!TypeOK
<1>11. ChannelTypes' /\ PartsMade'
  BY <1>1, <1>8, <1>9 DEF ChannelInv, ChannelTypes, PartsMade, Made
<1>12. LastMade' BY <1>1, <1>2, <1>5 DEF LastMade, GoodDatagram, Made
<1>13. BusyInv' BY <1>1 DEF BusyInv
<1>14. Udp!Heard' BY <1>5 DEF Udp!Heard
<1>15. Rescues BY <1>5 DEF Rescues
<1> QED BY <1>6, <1>10, <1>11, <1>12, <1>13, <1>14, <1>15 DEF ChannelInv

(* A crypt ping is answered with our key for its address, or leaves nothing *)
(* behind but that its address was seen.                                   *)
LEMMA PingStep ==
  ASSUME ChannelBounds, ChannelInv, NEW c \in Clients, NEW a \in Exits[c], NEW size \in PingSizes,
         NEW head \in Udp!Heads, Udp!CryptPing(c, a, size, head)
  PROVE  ChannelInv' /\ Rescues
<1> DEFINE m == Datagram("ping", c, a, Udp!NoKey, head, FALSE, Udp!NoKey)
<1>1. head = "challenge" => Udp!IsCryptPing(size, head) /\ Udp!Preflight("ping", size)
  BY DEF ChannelBounds, Udp!Preflight, Udp!IsCryptPing
<1>2. PICK what, seenNow, pingersNow, heldNow :
        /\ sent < MaxSent /\ sent' = sent + 1
        /\ seen' = seenNow /\ pingers' = pingersNow /\ keyHeld' = heldNow
        /\ Udp!Outcome(m, what, Udp!Nothing)
        /\ UNCHANGED <<stash, onWire, known, challenges, cache, busy, pings>>
        /\ seenNow \in {seen, seen \cup {a}} /\ pingersNow \in {pingers, pingers \cup {a}}
        /\ heldNow \in {keyHeld, [keyHeld EXCEPT ![c] = Udp!OurKey(a)]}
        /\ head = "challenge" => what \in {"handled", "unaffordable"}
  <2>0. /\ sent < MaxSent /\ sent' = sent + 1 /\ UNCHANGED <<stash, onWire, known, challenges, pings>>
        /\ \/ /\ head # "challenge" /\ Udp!Outcome(m, "ignored", Udp!Nothing)
              /\ UNCHANGED <<keyHeld, pingers, cache, seen, busy>>
           \/ /\ Udp!Outcome(m, "unaffordable", Udp!Nothing)
              /\ UNCHANGED <<keyHeld, pingers, cache, seen, busy>>
           \/ /\ Udp!Outcome(m, "handled", Udp!Nothing)
              /\ pingers' = pingers \cup {a} /\ keyHeld' = [keyHeld EXCEPT ![c] = Udp!OurKey(a)]
              /\ UNCHANGED <<cache, seen, busy>>
           \/ /\ head # "challenge" /\ Udp!Undecodable(m)
              /\ UNCHANGED <<keyHeld, pingers>>
    BY <1>1 DEF Udp!CryptPing, Udp!Published, Datagram
  <2>1. CASE head # "challenge" /\ Udp!Undecodable(m) /\ UNCHANGED <<keyHeld, pingers>>
    <3> DEFINE sized == FALSE
    <3>0. m = Datagram("ping", c, a, Udp!NoKey, head, sized, Udp!NoKey) OBVIOUS
    <3> HIDE DEF m, sized
    <3>1. m.op = "ping" /\ m.from = a BY <3>0, Shape
    <3>2. ~(m.op \in Udp!Rescuable) BY <3>1 DEF Udp!Rescuable
    <3>3. seen' \in {seen, seen \cup {a}} BY <2>1, <3>1 DEF Udp!Undecodable
    <3>4. Udp!Outcome(m, "undecodable", Udp!Nothing) /\ UNCHANGED <<cache, busy>>
      BY <2>1, <3>2 DEF Udp!Undecodable
    <3> QED BY <2>0, <2>1, <3>3, <3>4
  <2> HIDE DEF m
  <2> QED BY <2>0, <2>1
<1>3. m.op = "ping" /\ m.w = c /\ m.key = Udp!NoKey /\ m.way = head
  <2> DEFINE sized == FALSE
  <2>1. m = Datagram("ping", c, a, Udp!NoKey, head, sized, Udp!NoKey) OBVIOUS
  <2> HIDE DEF m, sized
  <2> QED BY <2>1, Shape
<1> HIDE DEF m
<1>4. last' = [op |-> m.op, m |-> m, what |-> what, reply |-> Udp!Nothing] BY <1>2 DEF Udp!Outcome
<1>5. last'.op = "ping" /\ last'.m = m /\ last'.what = what BY <1>3, <1>4
<1>6. c \in Udp!Who /\ a \in Addrs BY DEF ChannelBounds, Udp!Who
<1>7. /\ keyHeld' = [w \in Udp!Who |-> keyHeld'[w]]
      /\ \A w \in Udp!Who : keyHeld'[w] = Udp!NoKey \/ \E b \in Addrs : keyHeld'[w] = Udp!OurKey(b)
  BY <1>2, <1>6 DEF ChannelInv, ChannelTypes, Udp!TypeOK
<1>8. Udp!TypeOK' BY <1>2, <1>6, <1>7 DEF ChannelInv, Udp!TypeOK, ChannelBounds
<1>9. ChannelTypes' /\ PartsMade' BY <1>2, <1>7 DEF ChannelInv, ChannelTypes, PartsMade, Made
<1>10. LastMade' BY <1>2, <1>3, <1>5, KeysDiffer DEF LastMade, Made
<1>11. BusyInv' BY <1>2 DEF ChannelInv, BusyInv, GoodDatagram, Made
<1>12. Udp!Heard'
  <2>1. c \notin UdpServers BY DEF ChannelBounds
  <2>2. \A b : Udp!OurKey(b) # Udp!NoKey BY KeysDiffer
  <2> QED BY <1>2, <1>3, <1>5, <2>1, <2>2 DEF Udp!Heard
<1>13. Udp!ReplyReadable' BY <1>5 DEF Udp!ReplyReadable
<1>14. Rescues BY <1>5 DEF Rescues, Udp!Rescuable
<1> QED BY <1>8, <1>9, <1>10, <1>11, <1>12, <1>13, <1>14 DEF ChannelInv

(* A ping to a server takes a part no key of the past is. *)
LEMMA PingServerStep ==
  ASSUME ChannelBounds, ChannelInv, NEW s \in UdpServers, Udp!PingServer(s)
  PROVE  ChannelInv' /\ Rescues
<1>1. /\ pings < MaxPings /\ pings' = pings + 1 /\ stash' = [stash EXCEPT ![s] = Udp!Part(s, pings + 1)]
      /\ \/ onWire' = [onWire EXCEPT ![s] = Udp!Replaced(s, pings + 1)]
         \/ onWire' = [onWire EXCEPT ![s] = Udp!Part(s, pings + 1)]
      /\ UNCHANGED <<keyHeld, known, challenges, cache, pingers, seen, busy, last, sent>>
  BY DEF Udp!PingServer
<1>2. pings \in Nat /\ pings' \in Nat /\ pings <= pings' /\ pings' \in 0 .. MaxPings
  BY <1>1 DEF ChannelInv, Udp!TypeOK, ChannelBounds
<1>3. \A key : Made(key) => \A t \in UdpServers, n \in Nat : key = Udp!Part(t, n) => n <= pings'
  BY <1>2, MadeStays
<1>4. \A t \in UdpServers, n \in Nat : Udp!Part(s, pings + 1) = Udp!Part(t, n) => n <= pings'
  BY <1>1, <1>2, KeysDiffer
<1>5. \A t \in UdpServers, n \in Nat : Udp!Replaced(s, pings + 1) # Udp!Part(t, n)
  BY DEF Udp!Replaced, Udp!Part
<1>6. stash = [t \in UdpServers |-> stash[t]] /\ onWire = [t \in UdpServers |-> onWire[t]]
  BY DEF ChannelInv, ChannelTypes
<1>7. ChannelTypes' BY <1>1 DEF ChannelInv, ChannelTypes
<1>8. PartsMade'
  <2> SUFFICES ASSUME NEW t \in UdpServers PROVE Made(stash[t])' /\ Made(onWire[t])'
    BY DEF PartsMade
  <2>1. stash'[t] = stash[t] \/ stash'[t] = Udp!Part(s, pings + 1) BY <1>1, <1>6
  <2>2. onWire'[t] = onWire[t] \/ onWire'[t] = Udp!Part(s, pings + 1) \/ onWire'[t] = Udp!Replaced(s, pings + 1)
    BY <1>1, <1>6
  <2>3. Made(stash[t]) /\ Made(onWire[t]) BY DEF ChannelInv, PartsMade
  <2>4. \A u \in UdpServers, n \in Nat : stash'[t] = Udp!Part(u, n) => n <= pings' BY <1>3, <1>4, <2>1, <2>3
  <2>5. \A u \in UdpServers, n \in Nat : onWire'[t] = Udp!Part(u, n) => n <= pings' BY <1>3, <1>4, <1>5, <2>2, <2>3
  <2> QED BY <2>4, <2>5 DEF Made
<1>9. LastMade' BY <1>1, <1>3 DEF ChannelInv, LastMade, Made
<1>10. BusyInv'
  <2> SUFFICES ASSUME busy # Udp!Idle
               PROVE  /\ GoodDatagram(busy)'
                      /\ busy.ctx = Udp!NoKey \/ (busy.ctx = busy.key /\ busy.way = "6b")
                      /\ <<busy.from, busy.w>> \in DOMAIN cache =>
                           cache[<<busy.from, busy.w>>] = <<busy.key, busy.way>>
    BY <1>1 DEF BusyInv
  <2>1. /\ GoodDatagram(busy)
        /\ busy.ctx = Udp!NoKey \/ (busy.ctx = busy.key /\ busy.way = "6b")
        /\ <<busy.from, busy.w>> \in DOMAIN cache =>
             cache[<<busy.from, busy.w>>] = <<busy.key, busy.way>>
    BY DEF ChannelInv, BusyInv
  <2>2. GoodDatagram(busy)' BY <1>1, <1>3, <2>1 DEF GoodDatagram, Made
  <2> QED BY <2>1, <2>2
<1>11. Udp!Heard'
  <2> SUFFICES ASSUME last # Udp!Idle
               PROVE  /\ last.op = "ping" /\ last.m.way = "challenge" => last.what \in {"handled", "unaffordable"}
                      /\ last.m.key = Udp!OurKey(last.m.from)
                           \/ (last.m.w \in UdpServers /\ last.m.key = stash'[last.m.w]) =>
                           last.what \in {"handled", "unaffordable"}
    BY <1>1 DEF Udp!Heard
  <2>1. Made(last.m.key) BY DEF ChannelInv, LastMade
  <2>2. last.m.key # Udp!Part(s, pings + 1) BY <1>2, <2>1 DEF Made
  <2>3. last.m.w \in UdpServers /\ last.m.key = stash'[last.m.w] => last.m.key = stash[last.m.w]
    BY <1>1, <1>6, <2>2
  <2> QED BY <2>3 DEF ChannelInv, Udp!Heard
<1>12. Udp!ReplyReadable' BY <1>1 DEF ChannelInv, Udp!ReplyReadable
<1>13. Udp!TypeOK' BY <1>1, <1>2 DEF ChannelInv, Udp!TypeOK
<1>14. Rescues BY <1>1 DEF Rescues
<1> QED BY <1>7, <1>8, <1>9, <1>10, <1>11, <1>12, <1>13, <1>14 DEF ChannelInv

LEMMA ProbeReplyStep ==
  ASSUME ChannelBounds, ChannelInv, NEW s \in UdpServers, Udp!ProbePlain(s)
  PROVE  ChannelInv' /\ Rescues
<1>1. /\ busy = Udp!Idle /\ sent < MaxSent /\ sent' = sent + 1
      /\ keyHeld' = [keyHeld EXCEPT ![s] = Udp!OurKey(At[s])] /\ challenges' = challenges \cup {s}
      /\ UNCHANGED <<stash, onWire, known, cache, pingers, seen, busy, last, pings>>
  BY DEF Udp!ProbePlain, Udp!Challenged, Udp!Published
<1>2. s \in Udp!Who /\ At[s] \in Addrs BY DEF ChannelBounds, Udp!Who
<1>3. /\ keyHeld' = [w \in Udp!Who |-> keyHeld'[w]]
      /\ \A w \in Udp!Who : keyHeld'[w] = Udp!NoKey \/ \E b \in Addrs : keyHeld'[w] = Udp!OurKey(b)
  BY <1>1, <1>2 DEF ChannelInv, ChannelTypes, Udp!TypeOK
<1>4. Udp!TypeOK' BY <1>1, <1>3 DEF ChannelInv, Udp!TypeOK, ChannelBounds
<1>5. ChannelTypes' /\ PartsMade' /\ LastMade'
  BY <1>1, <1>3 DEF ChannelInv, ChannelTypes, PartsMade, LastMade, Made
<1>6. BusyInv' BY <1>1 DEF BusyInv
<1>7. Udp!Heard' /\ Udp!ReplyReadable' BY <1>1 DEF ChannelInv, Udp!Heard, Udp!ReplyReadable
<1>8. Rescues BY <1>1 DEF Rescues
<1> QED BY <1>4, <1>5, <1>6, <1>7, <1>8 DEF ChannelInv

LEMMA SweepStep ==
  ASSUME ChannelInv, Udp!Sweep
  PROVE  ChannelInv' /\ Rescues
<1>1. PICK gone \in SUBSET DOMAIN cache : cache' = [p \in DOMAIN cache \ gone |-> cache[p]] BY DEF Udp!Sweep
<1>2. UNCHANGED <<keyHeld, stash, onWire, known, challenges, pingers, seen, busy, last, pings, sent>>
  BY DEF Udp!Sweep, Udp!keyVars
<1>3. \A p \in DOMAIN cache' : p \in DOMAIN cache /\ cache'[p] = cache[p] BY <1>1
<1>4. CacheGood(cache) BY DEF ChannelInv, Udp!TypeOK, CacheGood
<1>5. CacheGood(cache') BY <1>3, <1>4 DEF CacheGood
<1>6. sent' \in 0 .. MaxSent /\ seen' \subseteq Addrs BY <1>2 DEF ChannelInv, Udp!TypeOK
<1>7. Udp!TypeOK' /\ ChannelTypes' /\ PartsMade' BY <1>2, <1>5, <1>6, SameKeys
<1>8. BusyInv'
  <2> SUFFICES ASSUME busy # Udp!Idle
               PROVE  /\ GoodDatagram(busy)'
                      /\ busy.ctx = Udp!NoKey \/ (busy.ctx = busy.key /\ busy.way = "6b")
                      /\ <<busy.from, busy.w>> \in DOMAIN cache' =>
                           cache'[<<busy.from, busy.w>>] = <<busy.key, busy.way>>
    BY <1>2 DEF BusyInv
  <2>1. /\ GoodDatagram(busy)
        /\ busy.ctx = Udp!NoKey \/ (busy.ctx = busy.key /\ busy.way = "6b")
        /\ <<busy.from, busy.w>> \in DOMAIN cache =>
             cache[<<busy.from, busy.w>>] = <<busy.key, busy.way>>
    BY DEF ChannelInv, BusyInv
  <2>2. GoodDatagram(busy)' BY <1>2, <2>1 DEF GoodDatagram, Made
  <2> QED BY <1>3, <2>1, <2>2
<1>9. LastMade' /\ Udp!Heard' /\ Udp!ReplyReadable'
  BY <1>2 DEF ChannelInv, LastMade, Made, Udp!Heard, Udp!ReplyReadable
<1>10. Rescues BY <1>2 DEF Rescues
<1> QED BY <1>7, <1>8, <1>9, <1>10 DEF ChannelInv

LEMMA ChannelNext ==
  ASSUME ChannelBounds, ChannelInv, [Udp!Next]_(Udp!vars)
  PROVE  ChannelInv' /\ Rescues
<1>1. CASE UNCHANGED <<keyHeld, stash, onWire, known, challenges, cache, pingers, busy, last, pings, sent>>
           /\ seen' \subseteq Addrs
  <2>1. CacheGood(cache') /\ sent' \in 0 .. MaxSent BY <1>1 DEF ChannelInv, Udp!TypeOK, CacheGood
  <2>2. Udp!TypeOK' /\ ChannelTypes' /\ PartsMade' BY <1>1, <2>1, SameKeys
  <2>3. BusyInv' /\ LastMade' /\ Udp!Heard' /\ Udp!ReplyReadable'
    BY <1>1 DEF ChannelInv, BusyInv, GoodDatagram, LastMade, Made, Udp!Heard, Udp!ReplyReadable
  <2>4. Rescues BY <1>1 DEF Rescues
  <2> QED BY <2>2, <2>3, <2>4 DEF ChannelInv
<1>2. CASE UNCHANGED Udp!vars
  <2>1. seen' \subseteq Addrs BY <1>2 DEF ChannelInv, Udp!TypeOK, Udp!vars
  <2> QED BY <1>1, <1>2, <2>1 DEF Udp!vars
<1>3. CASE Udp!Minute
  BY <1>1, <1>3 DEF Udp!Minute, Udp!keyVars
<1> QED BY <1>2, <1>3, AnswerStep, SweepStep, PingStep, ClientStep, PingServerStep, ServerStep, ProbeReplyStep DEF Udp!Next

(* Whatever the cache holds, however many servers share an address and      *)
(* whichever exit of its network a client writes from: what is written with *)
(* a key of ours is heard, answered with that key in the other direction,   *)
(* and rescued by the network's keys when only these fit.                  *)
THEOREM ChannelsAlwaysWork ==
  ASSUME ChannelBounds
  PROVE  Udp!Spec => ChannelsWork
<1> DEFINE Good == Udp!TypeOK /\ Udp!Heard /\ Udp!ReplyReadable
<1>1. Udp!Init => ChannelInv BY ChannelInit
<1>2. ChannelInv /\ [Udp!Next]_(Udp!vars) => ChannelInv' BY ChannelNext
<1>3. ChannelInv => Good BY DEF ChannelInv
<1>4. ChannelInv /\ [Udp!Next]_(Udp!vars) => Rescues BY ChannelNext
<1> HIDE DEF Good
<1>5. Udp!Spec => []Good BY <1>1, <1>2, <1>3, PTL DEF Udp!Spec
<1>6. Udp!Spec => [][Rescues]_(Udp!vars) BY <1>1, <1>2, <1>4, PTL DEF Udp!Spec
<1> QED BY <1>5, <1>6 DEF ChannelsWork, Udp!ChannelsWork, Udp!Rescued, Rescues, Good
=============================================================================
