------------------------------- MODULE MCServe --------------------------------
(***************************************************************************)
(* What the server does for its clients: taking their files in, pacing     *)
(* them, filtering them, answering searches and source requests; Serving   *)
(* has the components of it that are proved about.  As in MCReach the      *)
(* initial state picks the component whose steps are taken.                *)
(***************************************************************************)
EXTENDS Serving, Sequences, TLC

CONSTANTS
  Parts,
  QueryTrees, Catalogues, Starred, Stop, Holds, MaxResults, UdpResults, RankScan, UnindexedScan,
  u1, u2, h1, h2, i1, i2,
  Messages, MaxText,
  Asks, Word, MaxFileSize, PartSize, Stored, MaxSingle, MaxMulti,
  Tokens, FileIds, TokensOf, Lookups, DigitBits, WordBits, MaxEdits

VARIABLES
  part,
  tree, files, stage, asked, groups, found,
  message, wire, heard, reading,
  want, packet, step, paid, shown, replies,
  shard, keyCount, hot, pend, updates, posted, edits

Query == INSTANCE SearchQuery
Wire == INSTANCE WireFormats
Request == INSTANCE SourceRequests
Store == INSTANCE PostingStore WITH indexed <- posted

publishVars == <<conn, current, attempts, warned, todo, sourced, indexed, caught, banned,
                 blockedEver, overlapped, offers>>
paceVars == <<clock, pacing, size, until, tat, ceiling, gRate, gTat, lock, gone, passed, gPassed,
              gSince, ceilings, offered>>
contentVars == <<lists, gen, publishing, verdicts, vcount, reader, publishes>>
sourceVars == <<pubOrder, live, listed, cacheMap, staleKeys, request, answer, moves>>
queryVars == <<tree, files, stage, asked, groups, found>>
laneVars == <<search, jobsFree, line, tcpPlaces, udpPlaces, pageSize, buffer, whole, served, more>>
indexVars == <<hash, recordSize, srcs, fresh, quar, aged, kw, userFiles, upc, uid, uhash, usize, mid, mine,
               jpc, jid, jhash, list, evicted, visit, shares, works>>
wireVars == <<message, wire, heard, reading>>
requestVars == <<want, packet, step, paid, shown, replies>>
storeVars == <<shard, keyCount, hot, pend, updates, posted, edits>>

-----------------------------------------------------------------------------
Verdicts == [h \in Hashes |-> CASE h \in {"x", "y"} -> "block" [] h = "p" -> "poison" [] OTHER -> "allow"]
In == [n \in Names |-> IF n = "term" THEN {"jargon"} ELSE {}]
Rec == [n \in Names |-> IF n = "mojibake" THEN {} ELSE {"plain"}]
Can == [u \in Srcs |-> CASE u = "a" -> {"high"} [] u = "b" -> {"high", "low"} [] OTHER -> {"natt"}]

(* Queries of up to three terms and constraints, over three catalogues with *)
(* unknown, stop and starred words, withheld, sourceless and evicted files. *)
T(ws) == [op |-> "term", words |-> ws]
Video == [op |-> "type"]
Pairs(X) == {[op |-> o, l |-> x, r |-> y] : o \in {"and", "or", "not"}, x \in X, y \in X}
Leaves == {T({"a"}), T({"b"}), T({"a", "zz"}), T({"a", "the"}), T({"st"}), Video, [op |-> "unjudged"]}
Trees ==
  Leaves \cup {T({"*"}), T({"zz"}), T({"the"})} \cup Pairs(Leaves \cup {T({"zz"})})
  \cup {[op |-> o, l |-> x, r |-> y] : o \in {"and", "or", "not"}, x \in Leaves,
          y \in Pairs({T({"a"}), T({"b"}), T({"zz"}), T({"st"}), Video})}
  \cup {[op |-> o, l |-> y, r |-> x] : o \in {"and", "or", "not"}, x \in {T({"a"}), T({"zz"}), Video},
          y \in Pairs({T({"a"}), T({"b"}), T({"zz"}), Video})}

File(ws, v, s, t, w, l) == [words |-> ws, video |-> v, sources |-> s, tie |-> t, withheld |-> w, live |-> l]
ThreeCatalogues ==
  {<<File({"a"}, FALSE, 1, 1, FALSE, TRUE), File({"b", "the"}, TRUE, 2, 1, FALSE, TRUE),
     File({"a", "b"}, TRUE, 2, 2, FALSE, TRUE)>>,
   <<File({"a", "the"}, FALSE, 3, 1, TRUE, TRUE), File({"a"}, TRUE, 0, 1, FALSE, TRUE),
     File({"a", "st"}, FALSE, 1, 2, FALSE, TRUE), File({"stt"}, FALSE, 1, 3, FALSE, FALSE)>>,
   <<File({"stt"}, FALSE, 1, 1, FALSE, TRUE), File({"a"}, FALSE, 1, 1, FALSE, TRUE),
     File({"a", "b"}, TRUE, 1, 2, FALSE, TRUE), File({"b", "a"}, TRUE, 5, 2, TRUE, TRUE)>>}
InStarred == [w \in Starred |-> {"st", "stt"}]

(* Every kind of tag, in both forms of name; texts of no, one and more than *)
(* sixteen bytes, and with a byte that is not UTF-8.                        *)
Text(n) == [i \in 1..n |-> 96 + i]
Bytes(n) == [i \in 1..n |-> 200 + i]
Tag(name, short, kind, val) == [name |-> name, short |-> short, kind |-> kind, val |-> val]
Short(n, kind, val) == Tag(<<n>>, TRUE, kind, val)
OneTags ==
  {Tag(n[1], n[2], v[1], v[2]) :
     n \in {<<<<1>>, TRUE>>, <<<<1>>, FALSE>>, <<Text(2), FALSE>>},
     v \in {<<"string", Text(0)>>, <<"string", Text(1)>>, <<"string", Text(17)>>, <<"string", <<97, 255>>>>,
            <<"u8", <<7>>>>, <<"u16", Bytes(2)>>, <<"u32", Bytes(4)>>, <<"u64", Bytes(8)>>,
            <<"float", Bytes(4)>>, <<"bool", <<1>>>>, <<"blob", Bytes(3)>>, <<"hash", Bytes(16)>>,
            <<"boolarray", Bytes(2)>>, <<"bsob", Bytes(3)>>, <<"unknown", Bytes(1)>>}}
Nick == Short(1, "string", <<110, 255>>)
OldNick == Tag(<<1>>, FALSE, "string", Text(3))
Flags == Short(32, "u16", <<0, 16>>)
SixTag(kind, n) == Short(174, kind, Bytes(n))
Size(kind, b) == Short(2, kind, b)
User == [i \in 1..16 |-> i]
TheMessages ==
  {[kind |-> "tags", tags |-> <<t, u>>, count |-> c] :
     t \in OneTags, u \in {Nick, Tag(Text(2), FALSE, "u32", Bytes(4))}, c \in {1, 2, 1000000}}
  \cup {[kind |-> "login", user |-> User, port |-> <<54, 18>>, tags |-> ts] :
          ts \in {<<Nick, Flags, SixTag("hash", 16)>>, <<OldNick, SixTag("blob", 3), SixTag("hash", 16)>>,
                  <<Short(32, "string", Text(1)), Flags, SixTag("string", 16)>>, <<>>,
                  <<Flags, Short(1, "unknown", <<>>), Nick>>}}
  \cup {[kind |-> "offer", files |-> <<[hash |-> User, tags |-> ts], [hash |-> Bytes(16), tags |-> <<Nick>>]>>] :
          ts \in {<<Nick, Size("u32", Bytes(4)), Short(58, "u32", <<1, 0, 0, 0>>)>>, <<Size("u64", Bytes(8)), OldNick>>,
                  <<Short(58, "u8", <<1>>), Size("u64", Bytes(8)), Size("u16", <<1, 0>>)>>, <<>>,
                  <<Short(1, "unknown", <<9>>)>>}}
  \cup {[kind |-> "search", tags |-> ts, tree |-> <<1, 2, 0, 97, 98>>] :
          ts \in {<<>>, [i \in 1..17 |-> Short(14, "u8", <<1>>)]} \cup {<<t, Short(14, "u8", <<1>>)>> : t \in OneTags}
                  \cup {<<t>> : t \in OneTags}}
  \cup {[kind |-> "describe", request |-> r, asked |-> a, name |-> n, desc |-> d, version |-> <<49, 46, 50>>] :
          r \in {<<255, 240, 1, 2>>, <<255, 240, 3, 4>>, <<>>, <<127, 126, 125, 124>>},
          a \in {<<>>, <<255, 240, 1, 2>>}, n \in {Text(3), <<32, 97, 10, 255>>}, d \in {<<>>, Text(7)}}

(* Requests of up to five hashes with sizes of every form, right and wrong; *)
(* a unit has eight values, a part is three, no file is above forty.        *)
H(k) == <<k, k, k, k>>
Ask(k, s, big) == [hash |-> H(k), size |-> s, large |-> big]
SomeAsk == {Ask(1, <<5>>, FALSE), Ask(1, <<6>>, FALSE), Ask(2, <<9>>, TRUE), Ask(2, <<1>>, FALSE),
            Ask(2, <<10>>, TRUE), Ask(3, <<50>>, TRUE), Ask(3, <<0>>, TRUE)}
TheAsks ==
  {[op |-> o, files |-> fs] : o \in {"single", "multi"},
     fs \in UNION {[1..n -> SomeAsk] : n \in 1..3}
            \cup {[i \in 1..n |-> Ask(i, <<7>>, FALSE)] : n \in 4..6}
            \cup {<<Ask(1, <<>>, FALSE)>>}}
TheSizes == (H(1) :> 5 @@ H(2) :> 9 @@ H(3) :> 7)

(* Three tokens and the lookups that mix one word and alternatives, in     *)
(* every order that chooses another seed.                                   *)
TokensIn ==
  [f \in FileIds |-> CASE f = 0 -> {3} [] f = 3 -> {3, 9} [] f = 20 -> {3, 5, 9} [] OTHER -> {5, 9}]
TheLookups ==
  {<<g>> : g \in {<<3>>, <<3, 5>>, <<9, 5>>}} \cup {<<<<a>>, <<b>>>> : a \in Tokens, b \in {5, 9}}
  \cup {<<<<a>>, <<b>>, <<9>>>> : a \in {3, 5}, b \in {3, 5}}
  \cup {<<g, h>> : g \in {<<3>>, <<9>>, <<9, 5>>}, h \in {<<3, 5>>, <<5, 9>>}}

Symmetry == Permutations({h1, h2}) \cup Permutations({i1, i2})

(* One janitor at a time, and the purge with one size and one publisher's   *)
(* call in progress at a time.                                              *)
WithinScenario ==
  /\ OneJanitor
  /\ works = "purge" =>
       /\ \A u \in Users : usize'[u] \in {NoSize, 1}
       /\ Cardinality({u \in Users : upc'[u] # "idle"}) <= 1

-----------------------------------------------------------------------------
(* One query while another component is looked at. *)
SomeQuery ==
  /\ tree = T({"a"}) /\ files = <<>> /\ stage = "sent" /\ asked = Query!Gone
  /\ groups = <<>> /\ found = [tcp |-> <<>>, udp |-> <<>>]

NoRequest ==
  /\ want = <<>> /\ packet = <<>> /\ step = "answered" /\ paid = 0 /\ shown = <<>> /\ replies = <<>>

Init ==
  /\ part \in Parts
  /\ Publish!Init /\ Pace!Init /\ Content!Init /\ Answer!Init /\ Lane!Init /\ Store!Init
  /\ Index!Init /\ works \in Janitors
  /\ IF part = "wire" THEN Wire!Init ELSE message = <<>> /\ wire = <<>> /\ heard = FALSE /\ reading = <<>>
  /\ IF part = "request" THEN Request!Init ELSE NoRequest
  /\ IF part = "query" THEN Query!Init ELSE SomeQuery
  /\ part # "pace" => ceiling = 0
  /\ part # "lane" => pageSize = 1
  /\ part # "index" => works = "sweep"

(* The steps of one component leave the others alone. *)
Only(p) ==
  /\ part = p /\ UNCHANGED part
  /\ IF p = "publish" THEN TRUE ELSE UNCHANGED publishVars
  /\ IF p = "pace" THEN TRUE ELSE UNCHANGED paceVars
  /\ IF p = "content" THEN TRUE ELSE UNCHANGED contentVars
  /\ IF p = "sources" THEN TRUE ELSE UNCHANGED sourceVars
  /\ IF p = "query" THEN TRUE ELSE UNCHANGED queryVars
  /\ IF p = "lane" THEN TRUE ELSE UNCHANGED laneVars
  /\ IF p = "index" THEN TRUE ELSE UNCHANGED indexVars
  /\ IF p = "wire" THEN TRUE ELSE UNCHANGED wireVars
  /\ IF p = "request" THEN TRUE ELSE UNCHANGED requestVars
  /\ IF p = "postings" THEN TRUE ELSE UNCHANGED storeVars

Next ==
  \/ Only("publish") /\ Publish!Next
  \/ Only("pace") /\ Pace!Next
  \/ Only("content") /\ Content!Next
  \/ Only("sources") /\ Answer!Next
  \/ Only("query") /\ Query!Next
  \/ Only("lane") /\ Lane!Next
  \/ Only("index") /\ Index!Next /\ WithinScenario
  \/ Only("wire") /\ Wire!Next
  \/ Only("request") /\ Request!Next
  \/ Only("postings") /\ Store!Next

vars == <<part, publishVars, paceVars, contentVars, sourceVars, queryVars, laneVars,
          indexVars, wireVars, requestVars, storeVars>>

-----------------------------------------------------------------------------
(* Clients' queries lose no match and get the best, on both channels; the  *)
(* lookups below them find what is indexed, whatever bytes it is kept in.  *)
QueriesAnswered ==
  /\ part = "query" => Query!QueriesAnswered
  /\ part = "postings" => Store!PostingsExact

(* What is read of a whole or a cut message is what its sender meant; every *)
(* hash asked for is answered and paid for, and none is invented.          *)
MessagesRead ==
  /\ part = "wire" => Wire!WireFaithful
  /\ part = "request" => Request!RequestsRead

-----------------------------------------------------------------------------
(* "NEVER drop every word": a query with words still has one.              *)
KeepsAWord == Query!KeepsAWord

(* "a superset is safe and a subset is not": every match is a candidate.   *)
CandidatesSuperset == Query!CandidatesSuperset

(* "returning the expression tree that follows" the options of a search,   *)
(* whatever their types.                                                   *)
TreeFollowsTags == part = "wire" => Wire!TreeFollowsTags

(* A session of a banned publisher is closed.                              *)
BannedSessionDropped == Publish!BannedSessionDropped
=============================================================================
