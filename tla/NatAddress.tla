------------------------------ MODULE NatAddress ------------------------------
(***************************************************************************)
(* What 0x9F datagrams teach the server about where a session's UDP is:    *)
(* natt_udp_ip, natt_udp_ports, natt_proof_counter and natt_keepalive_seen *)
(* of one client, through its logins and logouts.                          *)
(*                                                                         *)
(* Datagrams are lost, delayed, reordered and duplicated: a sent one stays  *)
(* in net.  A session's number stands for its token; a port is known by    *)
(* the address it was seen at.  Handlers run to their next await, as on    *)
(* the runtime with one thread.                                            *)
(***************************************************************************)
EXTENDS Naturals, FiniteSets

CONSTANTS
  Places,        \* addresses
  MaxSessions,   \* bound: logins
  MaxSent        \* bound: 0x9F datagrams

VARIABLES
  sess, place,   \* clients: the session (0: none), its address
  lastSess,
  net,           \* 0x9F datagrams
  seen9f,        \* natt_keepalive_seen
  natIp,         \* natt_udp_ip
  proofs,        \* natt_proof_counter
  natPort        \* natt_udp_ports: where the port was seen

session == <<sess, place, lastSess>>
learnt == <<seen9f, natIp, proofs, natPort>>
vars == <<session, net, learnt>>

Nowhere == "nowhere"

TypeOK ==
  /\ sess \in 0 .. MaxSessions /\ lastSess \in 0 .. MaxSessions
  /\ place \in Places
  /\ net \subseteq [n : 1 .. MaxSent, from : Places, sess : 1 .. MaxSessions,
                    proof : BOOLEAN, obf : BOOLEAN]
  /\ seen9f \in {"no", "plain", "obf"}
  /\ natIp \in Places \cup {Nowhere}
  /\ proofs \in 0 .. MaxSent
  /\ natPort \in Places \cup {Nowhere}

Init ==
  /\ sess = 0 /\ lastSess = 0 /\ place = (CHOOSE p \in Places : TRUE) /\ net = {}
  /\ seen9f = "no" /\ natIp = Nowhere /\ proofs = 0 /\ natPort = Nowhere

(* Mutant: the proven address outlives the session. *)
LoginKeepsAddress(a) ==
  /\ lastSess < MaxSessions
  /\ lastSess' = lastSess + 1 /\ sess' = lastSess' /\ place' = a
  /\ seen9f' = "no" /\ proofs' = 0
  /\ UNCHANGED <<natIp, net, natPort>>

(* A login, of a client that was gone or whose session it replaces.  The   *)
(* end of a replaced session touches nothing here.                         *)
Login(a) ==
  /\ lastSess < MaxSessions
  /\ lastSess' = lastSess + 1 /\ sess' = lastSess' /\ place' = a
  /\ seen9f' = "no" /\ natIp' = Nowhere /\ proofs' = 0
  /\ UNCHANGED <<net, natPort>>

Logout ==
  /\ sess # 0
  /\ sess' = 0 /\ natPort' = Nowhere /\ natIp' = Nowhere /\ seen9f' = "no" /\ proofs' = 0
  /\ UNCHANGED <<place, lastSess, net>>

(* The client's proofs carry a rising counter. *)
SendKeepalive(a, proof, obf) ==
  /\ sess # 0
  /\ Cardinality(net) < MaxSent
  /\ net' = net \cup {[n |-> Cardinality(net) + 1, from |-> a, sess |-> sess,
                       proof |-> proof, obf |-> obf]}
  /\ UNCHANGED <<session, learnt>>

(* natt_proof::check. *)
Proven(m) == m.proof /\ m.sess = sess /\ m.n > proofs

(* From the session's own address or with its token's proof; once one came  *)
(* obfuscated, a plain one needs the proof.                                *)
Accepts(m) ==
  /\ m.proof => Proven(m)
  /\ m.from = place \/ Proven(m)
  /\ Proven(m) \/ m.obf \/ seen9f # "obf"

ReceiveKeepalive(m) ==
  /\ m \in net /\ sess # 0
  /\ Accepts(m)
  /\ proofs' = IF m.proof THEN m.n ELSE proofs
  /\ natIp' = IF m.from = place THEN Nowhere ELSE m.from
  /\ natPort' = m.from
  /\ seen9f' = IF seen9f = "obf" \/ m.obf THEN "obf" ELSE "plain"
  /\ UNCHANGED <<session, net>>

(* Ten minutes, then the sweep. *)
PortEnds ==
  /\ natPort # Nowhere /\ natPort' = Nowhere
  /\ UNCHANGED <<session, net, seen9f, natIp, proofs>>

Next ==
  \/ \E a \in Places : Login(a)
  \/ Logout
  \/ \E a \in Places, proof, obf \in BOOLEAN : SendKeepalive(a, proof, obf)
  \/ \E m \in net : ReceiveKeepalive(m)
  \/ PortEnds

Spec == Init /\ [][Next]_vars

-----------------------------------------------------------------------------
(* natt_ip: where peers are told to punch to. *)
NattIp == IF natIp # Nowhere THEN natIp ELSE place

(* The address handed out for a client that is elsewhere than its session   *)
(* is the one of the newest proof accepted of this session, whatever        *)
(* datagrams of this and earlier sessions arrive late or twice ("a counter  *)
(* stops an old datagram being replayed").                                  *)
ProvenAddress ==
  NattIp # place =>
    \E m \in net : m.sess = sess /\ m.proof /\ m.from = NattIp /\ m.n = proofs

(* The port handed out was seen at the address handed out with it ("a        *)
(* reconnect from another address must not be handed out with the old        *)
(* mapping").                                                                *)
PortOfAddress == sess # 0 /\ natPort # Nowhere => natPort = NattIp
=============================================================================
