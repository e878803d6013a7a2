---------------------------- MODULE SourceAnswers -----------------------------
(***************************************************************************)
(* Who is handed out for a file: GETSOURCES over TCP, answered from a      *)
(* payload shared by all who ask (SmartSourcesCache) or built for an IPv6  *)
(* session alone, and the same question over UDP.                          *)
(*                                                                         *)
(* One file.  A user is known by its id: "high", "low" (a LowID nobody     *)
(* behind a NAT reaches), "natt" (a LowID with NAT traversal) or "gone".   *)
(* A record is who it is for and how: by "addr", "low" id or "v6".         *)
(***************************************************************************)
EXTENDS Naturals, Sequences, SequencesExt, FiniteSets

CONSTANTS
  Srcs,         \* the users
  CanBe,        \* CanBe[u]: the ids u logs in with
  Lan,          \* users whose address is not publishable
  Six,          \* users with a published IPv6
  SixAware,     \* users that parse the IPv6 sentinel
  MaxReply,     \* MAX_SOURCES_PER_REPLY
  Scan,         \* SOURCE_SCAN
  UdpScan, UdpMax, \* UDP_SOURCE_SCAN, UDP_MAX_SOURCES
  MaxEntries,   \* MAX_ENTRIES
  MaxMoves      \* bound: publications, logins and logouts

VARIABLES
  pubOrder,     \* the file's sources in publish order
  live,         \* clients: what each user is
  listed,       \* is_withheld
  cacheMap,     \* map: reply kind (obfu) -> shared payload
  staleKeys,    \* stale: kinds whose entry expired
  request,      \* handle_get_sources of one session, "none" when idle
  answer,       \* the last answer, with what it was built from
  moves

vars == <<pubOrder, live, listed, cacheMap, staleKeys, request, answer, moves>>

Kinds == BOOLEAN
NoReq == [pc |-> "none"]
NoAnswer == [to |-> "nobody", via |-> "none", recs |-> <<>>, of |-> <<>>, was |-> [u \in Srcs |-> "gone"]]

TypeOK ==
  /\ IsInjective(pubOrder) /\ Range(pubOrder) \subseteq Srcs
  /\ \A u \in Srcs : live[u] \in CanBe[u] \cup {"gone"}
  /\ listed \in BOOLEAN /\ DOMAIN cacheMap \subseteq Kinds /\ staleKeys \subseteq Kinds
  /\ request.pc \in {"none", "build"} /\ answer.to \in Srcs \cup {"nobody", "udp4", "udp6"}
  /\ moves \in 0 .. MaxMoves

Init ==
  /\ pubOrder = <<>> /\ live = [u \in Srcs |-> "gone"] /\ listed = FALSE
  /\ cacheMap = [k \in {} |-> 0] /\ staleKeys = {} /\ request = NoReq /\ answer = NoAnswer /\ moves = 0

-----------------------------------------------------------------------------
LowId(u) == live[u] \in {"low", "natt"}
LowIds == {u \in Srcs : LowId(u)}

Prefix(s, n) == SubSeq(s, 1, IF Len(s) < n THEN Len(s) ELSE n)

(* The members of a sequence that are in a set, in their order: SelectSeq,  *)
(* as a function one can prove about.                                       *)
Kept(s, S) ==
  LET kept[i \in 0 .. Len(s)] ==
        IF i = 0 THEN <<>> ELSE IF s[i] \in S THEN Append(kept[i - 1], s[i]) ELSE kept[i - 1]
  IN kept[Len(s)]

(* The first n in publish order, HighID and departed ones first. *)
Ordered(n) ==
  LET scanned == Prefix(pubOrder, n)
  IN Kept(scanned, Srcs \ LowIds) \o Kept(scanned, LowIds)

(* The record a source is sent as; a departed private address is not. *)
WithRecord == {u \in Srcs : LowId(u) \/ u \notin Lan}
Record(u, six) ==
  [owner |-> u, natt |-> live[u] = "natt",
   by |-> CASE six /\ u \in Six /\ LowId(u) -> "v6"
            [] LowId(u) -> "low"
            [] OTHER -> "addr"]

(* Mutant: the shared payload is cut at a reply's length. *)
SharedFullAtReply ==
  LET us == Kept(Ordered(Scan), WithRecord)
  IN Prefix([i \in DOMAIN us |-> Record(us[i], FALSE)], MaxReply)

(* The payload every requester shares: every source, one more than a reply. *)
SharedPayload ==
  LET us == Kept(Ordered(Scan), WithRecord)
  IN Prefix([i \in DOMAIN us |-> Record(us[i], FALSE)], MaxReply + 1)

(* Reach::of and without_owner: the cut of it one requester is served. *)
Reach(me) == CASE live[me] = "high" -> "all" [] live[me] = "natt" -> "natt" [] OTHER -> "none"
WithoutOwner(recs, me) ==
  LET served == {r \in Range(recs) :
        /\ r.owner # me
        /\ r.by = "low" => Reach(me) = "all" \/ (Reach(me) = "natt" /\ r.natt)}
  IN Prefix(Kept(recs, served), MaxReply)

(* The reply built for an IPv6 session alone. *)
SixPayload(me) ==
  LET keep == {u \in WithRecord \ {me} :
                 LowId(u) /\ u \notin Six => Reach(me) = "natt" /\ live[u] = "natt"}
      us == Kept(Ordered(Scan), keep)
  IN Prefix([i \in DOMAIN us |-> Record(us[i], TRUE)], MaxReply)

-----------------------------------------------------------------------------
Answered(who, how, recs, of, was) ==
  answer' = [to |-> who, via |-> how, recs |-> recs, of |-> of, was |-> was]

SixSession(u) == u \in SixAware /\ live[u] # "high"

(* Mutant: the cache is asked before the filter. *)
CacheFirst(u, obfu, sized) ==
  /\ request = NoReq /\ live[u] # "gone"
  /\ IF obfu \in DOMAIN cacheMap /\ ~SixSession(u)
     THEN /\ Answered(u, "cache", WithoutOwner(cacheMap[obfu].recs, u), cacheMap[obfu].of, cacheMap[obfu].was)
          /\ UNCHANGED request
     ELSE IF listed \/ sized
     THEN Answered(u, "refused", <<>>, pubOrder, live) /\ UNCHANGED request
     ELSE request' = [pc |-> "build", u |-> u, obfu |-> obfu] /\ UNCHANGED answer
  /\ UNCHANGED <<pubOrder, live, listed, cacheMap, staleKeys, moves>>

(* handle_get_sources: the filter, the size, then the cache.  sized: the  *)
(* request names a size the stored file does not have.                    *)
AskSources(u, obfu, sized) ==
  /\ request = NoReq /\ live[u] # "gone"
  /\ IF listed \/ sized
     THEN Answered(u, "refused", <<>>, pubOrder, live) /\ UNCHANGED request
     ELSE IF obfu \in DOMAIN cacheMap /\ ~SixSession(u)
     THEN /\ Answered(u, "cache", WithoutOwner(cacheMap[obfu].recs, u), cacheMap[obfu].of, cacheMap[obfu].was)
          /\ UNCHANGED request
     ELSE request' = [pc |-> "build", u |-> u, obfu |-> obfu] /\ UNCHANGED answer
  /\ UNCHANGED <<pubOrder, live, listed, cacheMap, staleKeys, moves>>

(* put_kind: when the map is full of fresh entries the new one is not kept. *)
Cached(k, recs) ==
  LET full == Cardinality(DOMAIN cacheMap) >= MaxEntries /\ k \notin DOMAIN cacheMap
  IN /\ staleKeys' = staleKeys \ {k}
     /\ cacheMap' = IF full THEN cacheMap
          ELSE [x \in DOMAIN cacheMap \cup {k} |-> IF x = k THEN [recs |-> recs, of |-> pubOrder, was |-> live] ELSE cacheMap[x]]

BuildSources ==
  /\ request.pc = "build" /\ request' = NoReq /\ live[request.u] # "gone"
  /\ IF SixSession(request.u)
     THEN /\ Answered(request.u, "six", SixPayload(request.u), pubOrder, live)
          /\ UNCHANGED <<cacheMap, staleKeys>>
     ELSE /\ Answered(request.u, "built", WithoutOwner(SharedPayload, request.u), pubOrder, live)
          /\ Cached(request.obfu, SharedPayload)
  /\ UNCHANGED <<pubOrder, live, listed, moves>>

(* Mutant: the stored address is sent whoever the source is. *)
UdpByAddress(u, six) == [owner |-> u, natt |-> FALSE, by |-> "addr"]

(* A source in a UDP answer. *)
UdpRecord(u, six) ==
  [Record(u, six) EXCEPT !.natt = FALSE]

(* send_found_sources, for a peer that asked over IPv4 or IPv6: the cap     *)
(* comes before the records that are left out.                              *)
AskUdp(six) ==
  /\ LET us == Kept(Prefix(Ordered(UdpScan), UdpMax), WithRecord)
     IN Answered(IF six THEN "udp6" ELSE "udp4", "udp",
          IF listed THEN <<>> ELSE [i \in DOMAIN us |-> UdpRecord(us[i], six)], pubOrder, live)
  /\ UNCHANGED <<pubOrder, live, listed, cacheMap, staleKeys, request, moves>>

(* An entry outlives its TTL; the minute's sweep remembers its key, the    *)
(* sweep of a full map does not.                                            *)
SweepExpired(k) ==
  /\ k \in DOMAIN cacheMap
  /\ cacheMap' = [x \in DOMAIN cacheMap \ {k} |-> cacheMap[x]]
  /\ staleKeys' \in {staleKeys \cup {k}, staleKeys}
  /\ UNCHANGED <<pubOrder, live, listed, request, answer, moves>>

Forget(k) ==
  /\ k \in staleKeys /\ staleKeys' = staleKeys \ {k}
  /\ UNCHANGED <<pubOrder, live, listed, cacheMap, request, answer, moves>>

(* What happens around it. *)
Publishes(u) ==
  /\ moves < MaxMoves /\ moves' = moves + 1 /\ live[u] # "gone" /\ u \notin Range(pubOrder)
  /\ pubOrder' = Append(pubOrder, u)
  /\ UNCHANGED <<live, listed, cacheMap, staleKeys, request, answer>>

Moves(u, what) ==
  /\ moves < MaxMoves /\ moves' = moves + 1 /\ live[u] # what
  /\ request.pc = "build" => request.u # u
  /\ live' = [live EXCEPT ![u] = what]
  /\ UNCHANGED <<pubOrder, listed, cacheMap, staleKeys, request, answer>>

Lists ==
  /\ moves < MaxMoves /\ moves' = moves + 1 /\ listed' = ~listed
  /\ UNCHANGED <<pubOrder, live, cacheMap, staleKeys, request, answer>>

Next ==
  \/ \E u \in Srcs :
       \/ \E obfu, sized \in BOOLEAN : AskSources(u, obfu, sized)
       \/ Publishes(u)
       \/ \E what \in CanBe[u] \cup {"gone"} : Moves(u, what)
  \/ BuildSources \/ Lists
  \/ \E six \in BOOLEAN : AskUdp(six)
  \/ \E k \in Kinds : SweepExpired(k) \/ Forget(k)

Spec == Init /\ [][Next]_vars

-----------------------------------------------------------------------------
Owners(recs) == {recs[i].owner : i \in DOMAIN recs}

(* "HighID sources first" and "one extra is taken": whoever the payload was *)
(* built for, a requester misses a source that can be dialled only when its *)
(* reply is full of such sources.                                           *)
DirectNotHidden ==
  answer.via \in {"cache", "built"} =>
    LET direct == {r \in Range(answer.recs) : r.by = "addr"}
        usable == {u \in Range(Prefix(answer.of, Scan)) \ {answer.to} :
                     answer.was[u] \in {"high", "gone"} /\ u \notin Lan}
    IN /\ answer.to \notin Owners(answer.recs)
       /\ usable \subseteq Owners(answer.recs) \/ Cardinality(direct) = MaxReply

(* "the two paths must agree or the same client is anonymised on one channel *)
(* and exposed on the other": no answer carries the address of a source that *)
(* was connected with a LowID when the answer was built.                     *)
LowIdNotExposed ==
  \A i \in DOMAIN answer.recs : LET r == answer.recs[i] IN
    r.by = "addr" => answer.was[r.owner] \notin {"low", "natt"}

(* "Ahead of the cache on purpose": asked while the file is withheld, nobody *)
(* is handed out, whatever was cached before.                                *)
WithheldNotServed ==
  [][listed /\ answer' # answer /\ request = NoReq => answer'.recs = <<>>]_vars

(* No answer hides a reachable source, tells a LowID's address, or names   *)
(* sources of a withheld file.                                             *)
AnswersSound == [](TypeOK /\ DirectNotHidden /\ LowIdNotExposed) /\ WithheldNotServed
=============================================================================
