------------------------------- MODULE MCGuard --------------------------------
(***************************************************************************)
(* What stands between the server and too much or the wrong: the UDP       *)
(* budgets, the admin panel's logins, the country data, and what is kept   *)
(* for the operator: the history of names, the warnings and the activity   *)
(* of each source.                                                         *)
(* They share no state; the initial state picks the one whose steps are    *)
(* taken, so one run checks each of them.                                  *)
(***************************************************************************)
EXTENDS UdpBudget, Sequences, TLC

CONSTANTS
  Parts,
  p1, p2, k1, k2,
  Froms, Tries, MaxFailures, MaxGlobalFailures, Window, MaxQueuedChecks, MaxTracked, MaxSessions, Ttl,
  MaxConns, MaxConnsPerIp, MaxTime, MaxTokens,
  Offers, Cut, NetOf, NamesPerHash, PubsPerName, MaxPending, MaxQueue, MaxNoted, MaxFaults,
  V4Bits, V6Bits, MappedHigh, MaxDepth, DecodeBudget, Databases, Tables,
  Repeaters, Quiet, QuietKept, RingSize, MaxLogged, MaxRepeats,
  Askers, Handlers, MaxSources, Minute, MaxRequests, MaxResets, MaxTick, MaxMinute

VARIABLES
  part,
  aclock, perKey, allRemote, try, hashLine, queuedChecks, sessions, tokens, wrong, refused,
  acquired, perIpConns,
  running, queued, pending, newOf, told, counts, rows, meta, salt, synced, owed, excused, noted, faults,
  source, bytes, csv, backend,
  wtick, seen, ring, total, raised, swept,
  tick, records, totals, byHour, untracked, handler, began, requests, resets, resetting, crossed

Admin == INSTANCE AdminAccess
History == INSTANCE NameHistory
Country == INSTANCE CountryData
Warn == INSTANCE Warnings WITH tick <- wtick
Active == INSTANCE Activity WITH noted <- requests, MaxTick <- MaxMinute

budgetVars == vars
adminVars == <<aclock, perKey, allRemote, try, hashLine, queuedChecks, sessions, tokens, wrong, refused,
               acquired, perIpConns>>
historyVars == <<running, queued, pending, newOf, told, counts, rows, meta, salt, synced, owed, excused,
                 noted, faults>>
countryVars == <<source, bytes, csv, backend>>
warnVars == <<wtick, seen, ring, total, raised, swept>>
activeVars == <<tick, records, totals, byHour, untracked, handler, began, requests, resets, resetting, crossed>>
guardVars == <<part, budgetVars, adminVars, historyVars, countryVars, warnVars, activeVars>>

Symmetry == Permutations({p1, p2}) \cup Permutations({k1, k2})

(* A name of three publishers, one under a longer name that is cut to it,   *)
(* and two more names of the file, one too many.                            *)
Offer(n, p, matches, white) == [hash |-> "h", name |-> n, by |-> p, matches |-> matches, white |-> white]
FiveOffers ==
  {Offer("n", 1, FALSE, FALSE), Offer("n", 2, TRUE, TRUE), Offer("n..", 3, TRUE, FALSE),
   Offer("m", 1, TRUE, FALSE), Offer("k", 2, FALSE, FALSE)}
CutTo == [n \in {"n", "n..", "m", "k"} |-> IF n = "n.." THEN "n" ELSE n]
Nets == [p \in 1..3 |-> IF p = 3 THEN 2 ELSE 1]

(* Records in both layouts, with a pointer, a text of more than 28 bytes,  *)
(* one that is not UTF-8, and a map that holds itself; networks under and  *)
(* beside the zero bits; tables with lines to skip and a country twice.    *)
Str(t) == <<64 + Len(t)>> \o t
Key(k) == Str(<<k>>)
Means(code, name, asn, as) == [code |-> code, name |-> name, provider |-> <<asn, as>>]
No == <<0>>  \* Missing
FlatRecord ==
  [bytes |-> <<228>> \o Key(1) \o Str(<<105, 116>>) \o Key(2) \o Str(<<73, 84, 65>>)
             \o Key(7) \o Str(<<65, 49>>) \o Key(8) \o <<32, 8>>,
   means |-> Means(<<73, 84>>, <<73, 84, 65>>, <<65, 49>>, <<73, 84, 65>>)]
NestedRecord(k) ==
  [bytes |-> <<226>> \o Key(k) \o <<226>> \o Key(5) \o <<225>> \o Key(6) \o Str(<<71>>)
             \o Key(4) \o Str(<<68, 69>>) \o Key(9) \o <<193, 7>>,
   means |-> Means(<<68, 69>>, <<71>>, <<65, 83, 7>>, No)]
NotUtf8 == [bytes |-> <<225>> \o Key(1) \o Str(<<73, 255>>), means |-> Means(No, No, No, No)]
LongText ==
  [bytes |-> <<226>> \o Key(2) \o Str(<<88>>) \o Key(8) \o <<93, 0>> \o [i \in 1..29 |-> 65],
   means |-> Means(No, No, No, [i \in 1..29 |-> 65])]
InItself ==
  [bytes |-> <<226>> \o Key(3) \o <<225>> \o Key(5) \o <<32, 0>> \o Key(10) \o Str(<<90>>),
   means |-> Means(No, No, No, <<90>>)]
Zeros == [i \in 1..(V6Bits - V4Bits) |-> 0]
Net(p, r) == [path |-> p, record |-> r]
TheDatabases ==
  {[version |-> 6, rs |-> rs, records |-> rc,
    nets |-> {Net(Zeros \o <<1>>, 1), Net(Zeros \o <<0, 1>>, 2), Net(<<1, 0>>, 2)}] :
     rs \in {24, 28, 32}, rc \in {<<FlatRecord, NestedRecord(2)>>, <<InItself, LongText>>}}
  \cup {[version |-> v, rs |-> rs, records |-> <<NotUtf8, NestedRecord(3)>>,
          nets |-> {Net(<<1, 0>>, 1), Net(<<0>>, 2)}] : v \in {4, 6}, rs \in {24, 28, 32}}
CsvLine(s, e, c, n) == [start |-> s, end |-> e, code |-> c, name |-> n]
TheTables ==
  {<<>>,
   <<CsvLine(2, 3, <<105, 116>>, <<1>>), [start |-> 0 - 1], CsvLine(0, 0, <<68, 69, 85>>, <<2>>)>>,
   <<CsvLine(1, 1, <<70>>, <<1>>), CsvLine(3, 3, <<73, 84>>, <<3>>), CsvLine(0, 1, <<73, 84>>, <<4>>)>>}

(* One database while another component is looked at. *)
SomeCountry == source = <<>> /\ csv = <<>> /\ bytes = <<>> /\ backend = [kind |-> "none"]

-----------------------------------------------------------------------------
GuardInit ==
  /\ part \in Parts
  /\ Init /\ Admin!Init /\ History!Init /\ Warn!Init /\ Active!Init
  /\ IF part = "country" THEN Country!Init ELSE SomeCountry

(* The steps of one component leave the others alone. *)
Only(p) ==
  /\ part = p /\ UNCHANGED part
  /\ IF p = "budget" THEN TRUE ELSE UNCHANGED budgetVars
  /\ IF p = "admin" THEN TRUE ELSE UNCHANGED adminVars
  /\ IF p = "history" THEN TRUE ELSE UNCHANGED historyVars
  /\ IF p = "country" THEN TRUE ELSE UNCHANGED countryVars
  /\ IF p = "warnings" THEN TRUE ELSE UNCHANGED warnVars
  /\ IF p = "activity" THEN TRUE ELSE UNCHANGED activeVars

GuardNext ==
  \/ Only("budget") /\ Next
  \/ Only("admin") /\ Admin!Next
  \/ Only("history") /\ History!Next
  \/ Only("country") /\ Country!Next
  \/ Only("warnings") /\ Warn!Next
  \/ Only("activity") /\ Active!Next

-----------------------------------------------------------------------------
(* Logins to the panel are bounded, fair to the operator and its own.      *)
PanelGuarded == Admin!PanelGuarded

(* What is kept for the operator can be relied on: the name history keeps  *)
(* to its caps, counts its rows, counts a publisher once and loses no      *)
(* offer without a reason; a peer's repeats fill no ring of warnings; and  *)
(* the activity of the sources adds up.                                    *)
RecordsSound ==
  /\ part = "history" => History!HistorySound
  /\ part = "warnings" => Warn!WarningsSound
  /\ part = "activity" => Active!ActivitySound

(* An address has the country of its network, whatever file is loaded.     *)
CountryExact == part = "country" => Country!CountryExact

(* A stored name, its publishers and a verdict against it stay.            *)
HistoryGrows == History!HistoryGrows
=============================================================================
