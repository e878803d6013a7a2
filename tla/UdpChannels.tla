----------------------------- MODULE UdpChannels ------------------------------
(***************************************************************************)
(* Obfuscated UDP.  Who holds which key: a client or a server gets ours    *)
(* for its address by a crypt ping or a server probe, a server answers our *)
(* ping with the random part we sent it, and a client whose flows leave by *)
(* several addresses of a network writes with the key of another one.  The *)
(* receive loop finds the key, remembers it for the sender, and answers    *)
(* the way it was asked.  A key is what it is derived from.                *)
(***************************************************************************)
EXTENDS Naturals, FiniteSets

CONSTANTS
  Addrs, NetOf,       \* addresses, the /16 of each
  Clients, Exits,     \* clients, the addresses their flows leave by
  SessAt, NattOf,     \* the address of a client's session, whether it has NAT-T
  Servers, At,        \* peer servers, their addresses
  PingSizes,          \* sizes of crypt pings
  MaxPings, MaxSent   \* bounds

VARIABLES
  held,       \* the key of ours a client or server was given
  stash,      \* our_sent_random_parts
  onWire,     \* the random part that was really sent
  known,      \* seed_server_keys
  challenges, \* incoming_seed_challenges
  cache,      \* obf_decode_cache, by sender
  pingers,    \* crypt_ping_sources
  seen,       \* undecodable_from_session_seen, of the last minute
  busy,       \* the datagram the loop has decoded and not answered
  last,       \* the datagram dealt with last, and what came of it
  pings, sent

vars == <<held, stash, onWire, known, challenges, cache, pingers, seen, busy, last, pings, sent>>
keyVars == <<held, stash, onWire, known, challenges>>

Who == Clients \cup Servers
NoKey == <<"none">>
OurKey(a) == <<"ip", a>>              \* ip_obfuscate(our seckey, a)
Part(s, n) == <<"part", s, n>>        \* a random part; sent with another
Replaced(s, n) == <<"other", s, n>>   \*   first byte it is another key
Ways == {"plain", "a5", "6b"}
SourcesOf(w) == IF w \in Servers THEN {At[w]} ELSE Exits[w]
Idle == [op |-> "none"]
Near(a) == {b \in Addrs \ {a} : NetOf[b] = NetOf[a]}

(* 0x9F and the global queries. *)
Rescuable == {"9f", "query"}

TypeOK ==
  /\ \A w \in Who : held[w] = NoKey \/ \E a \in Addrs : held[w] = OurKey(a)
  /\ challenges \subseteq Servers /\ pingers \subseteq Addrs /\ seen \subseteq Addrs
  /\ \A s \in Servers : known[s] \in {NoKey, <<"srv", s>>}
  /\ \A p \in DOMAIN cache : p[1] \in SourcesOf(p[2]) /\ cache[p][2] \in Ways
  /\ pings \in 0 .. MaxPings /\ sent \in 0 .. MaxSent

Init ==
  /\ held = [w \in Who |-> NoKey]
  /\ stash = [s \in Servers |-> NoKey] /\ onWire = stash /\ known = stash
  /\ challenges = {} /\ cache = [p \in {} |-> NoKey] /\ pingers = {} /\ seen = {}
  /\ busy = Idle /\ last = Idle /\ pings = 0 /\ sent = 0

-----------------------------------------------------------------------------
(* How a crypt ping begins: with its challenge, with one that is zero, or  *)
(* with one whose first byte is that of a plain frame.                     *)
Heads == {"challenge", "zero", "frame"}
IsCryptPing(size, head) == size \in 4 .. 19 /\ head # "zero"

(* A datagram worth trying: on the ping port it may be a bare ping. *)
Preflight(port, size) == size \in (IF port = "ping" THEN 4 ELSE 10) .. 1500

(* The ServerKey field of our 0x97. *)
Published(a) == OurKey(a)

(* Mutant: one key for an address, whatever servers are there. *)
OneKeyTried(a) ==
  {OurKey(a)} \cup (IF \E s \in Servers : At[s] = a /\ stash[s] # NoKey
                    THEN {stash[CHOOSE s \in Servers : At[s] = a /\ stash[s] # NoKey]} ELSE {})

(* The keys of the cold path: of every server at the address, and ours. *)
KeysTried(a) ==
  {OurKey(a)} \cup {k \in {stash[s] : s \in {x \in Servers : At[x] = a}} : k # NoKey}
              \cup {k \in {known[s] : s \in {x \in Servers : At[x] = a}} : k # NoKey}

(* Mutant: of sessions only. *)
NearbySessions(a) ==
  {OurKey(b) : b \in {b \in Near(a) : \E c \in Clients : NattOf[c] /\ SessAt[c] = b}}

(* try_nearby_keys: of NAT-T sessions and crypt pings in the sender's /16. *)
NearbyKeys(a) ==
  {OurKey(b) : b \in {b \in Near(a) : b \in pingers \/ \E c \in Clients : NattOf[c] /\ SessAt[c] = b}}

Cached(p) == IF p \in DOMAIN cache THEN cache[p] ELSE <<NoKey, "plain">>
CacheAs(p, key, way) == cache' = [q \in DOMAIN cache \cup {p} |-> IF q = p THEN <<key, way>> ELSE cache[q]]

Outcome(m, what, reply) == last' = [op |-> m.op, m |-> m, what |-> what, reply |-> reply]
Nothing == [key |-> NoKey, way |-> "clear"]

(* Decoded: what it is, is remembered, and it is dealt with next. *)
Found(m, way) ==
  /\ CacheAs(<<m.from, m.w>>, m.key, way) /\ busy' = m /\ UNCHANGED <<seen, last>>

(* note_undecodable looks once a minute for an address, and marks it each  *)
(* time.                                                                   *)
Undecodable(m) ==
  LET fromSession == \E c \in Clients : SessAt[c] = m.from
      looked == m.sized /\ m.from \notin seen /\ m.key \in NearbyKeys(m.from) /\ m.way = "6b"
  IN /\ seen' = IF fromSession \/ m.sized THEN seen \cup {m.from} ELSE seen
     /\ IF looked /\ m.op \in Rescuable
        THEN CacheAs(<<m.from, m.w>>, m.key, "6b") /\ busy' = [m EXCEPT !.ctx = m.key] /\ UNCHANGED last
        ELSE Outcome(m, "undecodable", Nothing) /\ UNCHANGED <<cache, busy>>

(* A datagram to portUDPobf, its arrival paid for: the cached key, then,   *)
(* if it can be paid, the others.                                          *)
Receive(m) ==
  /\ busy = Idle
  /\ IF Cached(<<m.from, m.w>>) = <<m.key, m.way>>
     THEN busy' = m /\ UNCHANGED <<cache, seen, last>>
     ELSE \/ Outcome(m, "unaffordable", Nothing) /\ UNCHANGED <<cache, seen, busy>>
          \/ m.key \in KeysTried(m.from) /\ Found(m, m.way)
          \/ m.key \notin KeysTried(m.from) /\ Undecodable(m)
  /\ UNCHANGED <<stash, onWire, known, challenges, pingers, pings>>

(* Mutant: answered in the direction it was asked. *)
SameWay(way) == way

(* send_reply: the byte is the direction. *)
ReplyWay(way) == CASE way = "6b" -> "a5" [] way = "a5" -> "6b" [] OTHER -> "plain"

(* A server's probe is told the key of its address and leaves its          *)
(* challenge.                                                              *)
Challenged(s, a) ==
  held' = [held EXCEPT ![s] = Published(a)] /\ challenges' = challenges \cup {s}

(* A server's 0x97 carries the key it wants us to use. *)
LearnsKey(s) == known' = [known EXCEPT ![s] = <<"srv", s>>]

(* dispatch, the answer obfuscated as the sender's entry says now, or with *)
(* the key that rescued it.                                                *)
Answer ==
  /\ busy # Idle /\ busy' = Idle
  /\ LET p == <<busy.from, busy.w>>
     IN Outcome(busy, "handled",
                CASE busy.ctx # NoKey -> [key |-> busy.ctx, way |-> ReplyWay("6b")]
                  [] busy.ctx = NoKey /\ p \in DOMAIN cache -> [key |-> cache[p][1], way |-> ReplyWay(cache[p][2])]
                  [] OTHER -> Nothing)
  /\ IF busy.op = "probe" THEN Challenged(busy.w, busy.from) ELSE UNCHANGED <<held, challenges>>
  /\ IF busy.op = "97" THEN LearnsKey(busy.w) ELSE UNCHANGED known
  /\ UNCHANGED <<stash, onWire, cache, pingers, seen, pings, sent>>

-----------------------------------------------------------------------------
(* A crypt ping to the ping port.  One that looks like a plain frame is    *)
(* dispatched as one, for what its second byte happens to spell.  Any other *)
(* is first tried with the keys of the cold path, which must be paid for;  *)
(* no key decodes it, and if it is a ping its answer is encrypted with what *)
(* it carries and tells our key for its address.                           *)
CryptPing(c, a, size, head) ==
  /\ sent < MaxSent /\ sent' = sent + 1
  /\ LET m == [op |-> "ping", w |-> c, from |-> a, key |-> NoKey, way |-> head, sized |-> FALSE, ctx |-> NoKey]
         tried == head # "frame" /\ Preflight("ping", size)
     IN \/ /\ ~tried /\ Outcome(m, "ignored", Nothing)
           /\ UNCHANGED <<held, pingers, cache, seen, busy>>
        \/ /\ tried /\ Outcome(m, "unaffordable", Nothing)
           /\ UNCHANGED <<held, pingers, cache, seen, busy>>
        \/ /\ tried /\ IsCryptPing(size, head) /\ Outcome(m, "handled", Nothing)
           /\ pingers' = pingers \cup {a} /\ held' = [held EXCEPT ![c] = Published(a)]
           /\ UNCHANGED <<cache, seen, busy>>
        \/ /\ tried /\ ~IsCryptPing(size, head) /\ Undecodable(m)
           /\ UNCHANGED <<held, pingers>>
  /\ UNCHANGED <<stash, onWire, known, challenges, pings>>

(* A client writes with the key it holds, from where its flow leaves. *)
ClientSends(c, a, op, sized) ==
  /\ held[c] # NoKey /\ sent < MaxSent /\ sent' = sent + 1
  /\ Receive([op |-> op, w |-> c, from |-> a, key |-> held[c], way |-> "6b", sized |-> sized, ctx |-> NoKey])
  /\ UNCHANGED held

(* Our ping to a server: the part is kept, then its first byte may have to *)
(* be replaced in what is sent.                                            *)
PingServer(s) ==
  /\ pings < MaxPings /\ pings' = pings + 1
  /\ stash' = [stash EXCEPT ![s] = Part(s, pings')]
  /\ \E replaced \in BOOLEAN :
       onWire' = [onWire EXCEPT ![s] = IF replaced THEN Replaced(s, pings') ELSE Part(s, pings')]
  /\ UNCHANGED <<held, known, challenges, cache, pingers, seen, busy, last, sent>>

(* Its answer, or a probe of its own with the key it was given. *)
ServerSends(s) ==
  /\ sent < MaxSent /\ sent' = sent + 1
  /\ \/ onWire[s] # NoKey
        /\ Receive([op |-> "97", w |-> s, from |-> At[s], key |-> onWire[s], way |-> "a5", sized |-> FALSE, ctx |-> NoKey])
     \/ held[s] # NoKey
        /\ \E way \in Ways :
             Receive([op |-> "probe", w |-> s, from |-> At[s], key |-> held[s], way |-> way, sized |-> FALSE, ctx |-> NoKey])
  /\ UNCHANGED held

(* Its first probe is in clear. *)
ProbePlain(s) ==
  /\ busy = Idle /\ sent < MaxSent /\ sent' = sent + 1
  /\ Challenged(s, At[s])
  /\ UNCHANGED <<stash, onWire, known, cache, pingers, seen, busy, last, pings>>

(* The sweeps: old entries of the cache, and the minute. *)
Sweep ==
  /\ \E gone \in SUBSET DOMAIN cache :
       gone # {} /\ cache' = [p \in DOMAIN cache \ gone |-> cache[p]]
  /\ UNCHANGED <<keyVars, pingers, seen, busy, last, pings, sent>>

Minute ==
  /\ seen # {} /\ seen' = {}
  /\ UNCHANGED <<keyVars, cache, pingers, busy, last, pings, sent>>

Next ==
  \/ Answer \/ Sweep \/ Minute
  \/ \E c \in Clients : \E a \in Exits[c] :
       \/ \E size \in PingSizes, head \in Heads : CryptPing(c, a, size, head)
       \/ \E op \in {"9f", "query", "a6"}, sized \in BOOLEAN : ClientSends(c, a, op, sized)
  \/ \E s \in Servers : PingServer(s) \/ ServerSends(s) \/ ProbePlain(s)

Spec == Init /\ [][Next]_vars

-----------------------------------------------------------------------------
(* Every crypt ping whose challenge can be told from a plain frame is      *)
(* answered, whatever its padding, and what is written with the key we gave *)
(* for the address it comes from, or with the part of our latest ping, is  *)
(* understood, whatever the cache holds and however many servers share the *)
(* address: unless trying the keys could not be paid for.                  *)
Heard ==
  last # Idle =>
    /\ last.op = "ping" /\ last.m.way = "challenge" => last.what \in {"handled", "unaffordable"}
    /\ last.m.key = OurKey(last.m.from) \/ (last.m.w \in Servers /\ last.m.key = stash[last.m.w]) =>
         last.what \in {"handled", "unaffordable"}

(* A sender's own key is never lost on a keepalive or query sent by another *)
(* address of its network, when nothing was undecodable from there within  *)
(* the minute.                                                             *)
Rescued ==
  [][last' # last /\ last'.what = "undecodable" /\ last'.op \in Rescuable =>
       ~last'.m.sized \/ last'.m.from \in seen
         \/ \A b \in Near(last'.m.from) : b \in pingers => last'.m.key # OurKey(b)]_vars

(* An answer is one the sender can read: with the key and in the direction *)
(* it expects, or in clear if the entry was swept meanwhile.               *)
ReplyReadable ==
  last # Idle /\ last.what = "handled" /\ last.op # "ping" =>
    \/ last.reply = Nothing
    \/ /\ last.reply.key = last.m.key
       /\ last.reply.way = CASE last.m.way = "6b" -> "a5" [] last.m.way = "a5" -> "6b" [] OTHER -> "plain"

(* "The frame is encrypted with RC4 keyed off our_random_part, which we    *)
(* know because we sent it": the answer to our latest ping is understood.  *)
(* Known false: a part whose first byte looks like a plain frame is sent   *)
(* with another first byte, and the part that is kept is not changed.      *)
PingUnderstood ==
  last # Idle /\ last.op = "97" /\ last.m.key = onWire[last.m.w] => last.what # "undecodable"

(* Obfuscated datagrams are understood and answered readably, and those by *)
(* another exit of the network are rescued.                                *)
ChannelsWork == [](TypeOK /\ Heard /\ ReplyReadable) /\ Rescued
=============================================================================
