------------------------------- MODULE Greeting -------------------------------
(***************************************************************************)
(* What a session is told and held to: the welcome batch of a login        *)
(* (src/src/server/login.rs), the OFFERFILES v1 terms it carries           *)
(* (offer_pacing.rs), and the callbacks it may ask for (callback.rs),      *)
(* while the operator edits the live configuration.  Between the id, the   *)
(* snapshot of the terms and the welcome batch the login waits (a probe, a *)
(* lock), and an edit may come in there as anywhere.                       *)
(***************************************************************************)
EXTENDS Naturals, Sequences, FiniteSets

CONSTANTS
  Clients,     \* client -> [from, asks, natt, ext, crypt, six]; from is
               \* "public", "dotzero", "lan" or "ipv6"
  Configs,     \* what the operator may set: [v1, soft, hard, batch, interval,
               \* natt, ext, six, probe, port, address]
  BoundPort,   \* the port the server listens on
  Counts,      \* record counts a client may declare in one OFFERFILES
  MaxEdits, MaxRelays, MaxInbox

VARIABLES
  live,        \* live_cfg
  edits,
  sessions,    \* client -> its session, see Out
  inbox,       \* client -> frames pushed to its channel
  offersMade   \* client -> the last OFFERFILES and what became of it

greetingVars == <<live, edits, sessions, inbox, offersMade>>

Who == DOMAIN Clients
NoPolicy == [none |-> TRUE]
Nothing == [sent |-> FALSE]
NoAddress == <<"zero">>
Out == [stage |-> "out", high |-> FALSE, id |-> NoAddress, ip |-> NoAddress, policy |-> NoPolicy, idchange |-> Nothing, ident |-> Nothing, relays |-> 0]
NoOffer == [n |-> 0, became |-> "none"]

-----------------------------------------------------------------------------
(* OfferPolicy::from_limits: all of the terms make sense, or none is made.  *)
Policy(cfg) ==
  IF /\ cfg.v1 /\ cfg.soft > 0 /\ cfg.batch > 0 /\ cfg.interval > 0
     /\ cfg.hard > cfg.batch
  THEN [none |-> FALSE, soft |-> cfg.soft, hard |-> cfg.hard, batch |-> cfg.batch, interval |-> cfg.interval]
  ELSE NoPolicy

(* policy_for_login: for a client that asked (client_requests_v1). *)
PolicyForLogin(c) == IF Clients[c].asks THEN Policy(live) ELSE NoPolicy

(* The address kept for a session: the one it came from, but ours for one   *)
(* verified behind our own NAT.  The id of a HighID is that address.        *)
SourceIp(c, high) ==
  CASE Clients[c].from = "ipv6" -> <<"six", c>>
    [] Clients[c].from = "lan" -> IF high THEN <<"server", live.address>> ELSE <<"private", c>>
    [] OTHER -> <<"client", c>>
AssignedId(c, high) == IF high THEN SourceIp(c, high) ELSE <<"low", c>>

(* reported_client_ip: the client's own address as it is seen from outside. *)
ReportedClientIp(c) ==
  IF sessions[c].high THEN sessions[c].id
  ELSE CASE Clients[c].from = "public" -> <<"client", c>>
         [] Clients[c].from = "lan" /\ live.address = "public" -> <<"server", live.address>>
         [] OTHER -> NoAddress

(* OP_IDCHANGE: the ports are those the server is bound to, not the live    *)
(* ones, which come into force with a restart.                              *)
TcpFlags ==
  {"base", "holepunch"} \cup (IF live.natt THEN {"natt"} ELSE {})
    \cup (IF live.natt /\ live.ext THEN {"ext"} ELSE {})
    \cup (IF live.six THEN {"ipv6", "update"} ELSE {})
    \cup (IF live.six /\ live.probe THEN {"probe"} ELSE {})
IdChange(c) ==
  [sent |-> TRUE, id |-> sessions[c].id, flags |-> TcpFlags, aux |-> BoundPort, ip |-> ReportedClientIp(c),
   obf |-> BoundPort, own |-> IF live.natt /\ Clients[c].natt THEN <<c>> ELSE <<>>]

(* OP_SERVERIDENT: the limits of the session's terms where it has some. *)
BuildServerIdentLive(c) ==
  [sent |-> TRUE, port |-> BoundPort, terms |-> sessions[c].policy, soft |-> live.soft, hard |-> live.hard]
BuildServerIdent(c) ==
  LET p == sessions[c].policy
  IN [sent |-> TRUE, port |-> BoundPort, terms |-> p,
      soft |-> IF p.none THEN live.soft ELSE p.soft,
      hard |-> IF p.none THEN live.hard ELSE p.hard]

(* ident_at_login: only a recent client can take it there. *)
IdentAtLogin(c) ==
  Clients[c].asks \/ ~sessions[c].policy.none \/ Clients[c].six \/ Clients[c].from = "ipv6" \/ Clients[c].ext

-----------------------------------------------------------------------------
Init ==
  /\ live \in Configs /\ edits = 0
  /\ sessions = [c \in Who |-> Out] /\ inbox = [c \in Who |-> <<>>] /\ offersMade = [c \in Who |-> NoOffer]

(* The operator saves another configuration. *)
Edit(cfg) ==
  /\ edits < MaxEdits /\ cfg # live
  /\ live' = cfg /\ edits' = edits + 1
  /\ UNCHANGED <<sessions, inbox, offersMade>>

(* handle_login: the probe's verdict and the id.  An IPv6 session and an    *)
(* address that ends in zero have no HighID.                                *)
Login(c, high) ==
  /\ sessions[c].stage = "out"
  /\ high => Clients[c].from \in {"public", "lan"} /\ (Clients[c].from = "lan" => live.address = "public")
  /\ sessions' = [sessions EXCEPT ![c] = [Out EXCEPT !.stage = "probed", !.high = high, !.id = AssignedId(c, high), !.ip = SourceIp(c, high)]]
  /\ offersMade' = [offersMade EXCEPT ![c] = NoOffer]
  /\ UNCHANGED <<live, edits, inbox>>

(* The terms, a channel, and a place in the table, where others find it.    *)
Register(c) ==
  /\ sessions[c].stage = "probed"
  /\ sessions' = [sessions EXCEPT ![c].stage = "registered", ![c].policy = PolicyForLogin(c)]
  /\ UNCHANGED <<live, edits, inbox, offersMade>>

(* The welcome batch. *)
Welcome(c) ==
  /\ sessions[c].stage = "registered"
  /\ sessions' = [sessions EXCEPT ![c].stage = "in", ![c].idchange = IdChange(c),
                                  ![c].ident = IF IdentAtLogin(c) THEN BuildServerIdent(c) ELSE Nothing]
  /\ UNCHANGED <<live, edits, inbox, offersMade>>

(* OP_GETSERVERLIST: the list, and the ident unless it was sent. *)
GetServerList(c) ==
  /\ sessions[c].stage = "in" /\ ~sessions[c].ident.sent
  /\ sessions' = [sessions EXCEPT ![c].ident = BuildServerIdent(c)]
  /\ UNCHANGED <<live, edits, inbox, offersMade>>

(* OP_OFFERFILES up to the indexing: the packet and batch bounds. *)
OfferFiles(c, n) ==
  /\ sessions[c].stage = "in"
  /\ LET p == sessions[c].policy
         hard == IF p.none THEN live.hard ELSE p.hard
         became == IF hard > 0 /\ n >= hard THEN "closed"
                   ELSE IF ~p.none /\ n > p.batch THEN "ignored" ELSE "indexed"
     IN /\ offersMade' = [offersMade EXCEPT ![c] = [n |-> n, became |-> became]]
        /\ sessions' = IF became = "closed" THEN [sessions EXCEPT ![c].stage = "out"] ELSE sessions
        /\ inbox' = IF became = "closed" THEN [inbox EXCEPT ![c] = <<>>] ELSE inbox
  /\ UNCHANGED <<live, edits>>

Leave(c) ==
  /\ sessions[c].stage = "in"
  /\ sessions' = [sessions EXCEPT ![c] = Out] /\ offersMade' = [offersMade EXCEPT ![c] = NoOffer]
  /\ inbox' = [inbox EXCEPT ![c] = <<>>]
  /\ UNCHANGED <<live, edits>>

(* OP_CALLBACKREQUEST: within the session's allowance a HighID client has   *)
(* the frame with its address put into the target's channel, unless that is *)
(* full; a target that is not here is told as a failure.                    *)
Push(c, f) == inbox' = IF Len(inbox[c]) < MaxInbox THEN [inbox EXCEPT ![c] = Append(@, f)] ELSE inbox
CallbackRequested(c, t) ==
  [op |-> "callback", from |-> c, ip |-> IF Clients[c].from = "ipv6" THEN NoAddress ELSE sessions[c].ip,
   crypt |-> Clients[c].crypt /\ Clients[t].crypt]
CallbackRequest(c, t) ==
  /\ sessions[c].stage = "in" /\ c # t /\ sessions[c].relays <= MaxRelays
  /\ sessions' = [sessions EXCEPT ![c].relays = @ + 1]
  /\ IF sessions[c].relays = MaxRelays THEN Push(c, [op |-> "fail"])
     ELSE IF ~sessions[c].high THEN UNCHANGED inbox
     ELSE IF sessions[t].stage \in {"out", "probed"} THEN Push(c, [op |-> "fail"])
     ELSE Push(t, CallbackRequested(c, t))
  /\ UNCHANGED <<live, edits, offersMade>>

(* The connection's task writes the oldest frame of its channel. *)
Deliver(c) ==
  /\ sessions[c].stage = "in" /\ inbox[c] # <<>>
  /\ inbox' = [inbox EXCEPT ![c] = Tail(@)]
  /\ UNCHANGED <<live, edits, sessions, offersMade>>

Next ==
  \/ \E cfg \in Configs : Edit(cfg)
  \/ \E c \in Who :
       \/ \E high \in BOOLEAN : Login(c, high)
       \/ Register(c) \/ Welcome(c) \/ GetServerList(c) \/ Leave(c) \/ Deliver(c)
       \/ \E n \in Counts : OfferFiles(c, n)
       \/ \E t \in Who : CallbackRequest(c, t)

Spec == Init /\ [][Next]_greetingVars

-----------------------------------------------------------------------------
(* A session that was told terms is held to these, whatever is edited: a    *)
(* batch it may send is indexed and never ends the session, and the terms   *)
(* make sense.  A session that was not is never ignored.                    *)
TermsKept ==
  \A c \in Who :
    LET s == sessions[c] o == offersMade[c] IN
    /\ s.ident.sent /\ ~s.ident.terms.none =>
         /\ s.ident.soft > 0 /\ s.ident.hard > s.ident.terms.batch
         /\ o.n > 0 /\ o.n <= s.ident.terms.batch => o.became = "indexed"
         /\ o.n >= s.ident.hard => o.became = "closed"
         /\ s.ident.soft = s.policy.soft /\ s.ident.hard = s.policy.hard
    /\ o.became = "ignored" => s.ident.sent /\ ~s.ident.terms.none

(* The ports a client is told are those the server listens on, its own      *)
(* address is never one nobody outside can use, and a HighID's is its id.   *)
AddressesUsable ==
  \A c \in Who :
    LET s == sessions[c] IN
    /\ s.idchange.sent =>
         /\ s.idchange.aux = BoundPort /\ s.idchange.obf = BoundPort
         /\ s.idchange.ip = NoAddress \/ s.idchange.ip[1] \in {"client", "server"}
         /\ s.idchange.ip[1] = "server" => Clients[c].from = "lan" /\ s.idchange.ip[2] = "public"
         /\ s.idchange.ip[1] = "client" => Clients[c].from = "public"
         /\ s.high => s.idchange.ip = s.idchange.id
    /\ s.ident.sent => s.ident.port = BoundPort
    /\ s.ident.sent /\ s.stage = "in" => s.idchange.sent

(* Whom a callback reaches can answer it: the requester has an address, and *)
(* the long form goes only between two clients that can obfuscate.          *)
CallbacksUsable ==
  \A t \in Who : \A i \in DOMAIN inbox[t] :
    inbox[t][i].op = "callback" =>
      LET f == inbox[t][i] IN
      /\ f.ip[1] \in {"client", "server"}
      /\ f.crypt => Clients[f.from].crypt /\ Clients[t].crypt

ClientsTold == TermsKept /\ AddressesUsable /\ CallbacksUsable
=============================================================================
