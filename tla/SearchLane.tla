------------------------------ MODULE SearchLane ------------------------------
(***************************************************************************)
(* The bounded lane all searches share: a job permit moved into the        *)
(* blocking job, a queue in arrival order with so many places for TCP and  *)
(* for UDP, and the pages of an answer that a TCP session asks for one by  *)
(* one.                                                                    *)
(***************************************************************************)
EXTENDS Integers, Sequences, SequencesExt, FiniteSets

CONSTANTS
  TcpCallers,   \* established sessions
  UdpCallers,   \* datagrams
  MaxJobs, MaxQueuedTcp, MaxQueuedUdp,
  MaxFound,     \* results of a search
  PageSizes     \* values of limits.max_search_results while it is edited

VARIABLES
  search,       \* per caller: "idle", "waiting", "running"
  jobsFree,     \* permits of search_jobs
  line,         \* who waits for one, in arrival order
  tcpPlaces, udpPlaces, \* permits of the two queues in use
  pageSize,     \* search_page_size, of the live configuration
  buffer,       \* pending_search of each session
  whole, served, \* the results of its latest search, and those sent
  more          \* the trailing byte of the last page

vars == <<search, jobsFree, line, tcpPlaces, udpPlaces, pageSize, buffer, whole, served, more>>
pages == <<pageSize, buffer, whole, served, more>>
Callers == TcpCallers \cup UdpCallers
Found(n) == [i \in 1 .. n |-> i]

TypeOK ==
  /\ search \in [Callers -> {"idle", "waiting", "running"}]
  /\ jobsFree \in Int /\ Range(line) \subseteq Callers
  /\ tcpPlaces \in Nat /\ udpPlaces \in Nat /\ pageSize \in PageSizes
  /\ \A c \in TcpCallers : Len(buffer[c]) <= MaxFound /\ more[c] \in BOOLEAN

Init ==
  /\ search = [c \in Callers |-> "idle"] /\ jobsFree = MaxJobs /\ line = <<>>
  /\ tcpPlaces = 0 /\ udpPlaces = 0 /\ pageSize \in PageSizes
  /\ buffer = [c \in TcpCallers |-> <<>>] /\ whole = buffer /\ served = buffer
  /\ more = [c \in TcpCallers |-> FALSE]

-----------------------------------------------------------------------------
Smaller(a, b) == IF a < b THEN a ELSE b

(* A page leaves the front of what is left. *)
SendPage(c, left, before) ==
  LET n == Smaller(Len(left), pageSize) IN
  /\ buffer' = [buffer EXCEPT ![c] = SubSeq(left, n + 1, Len(left))]
  /\ served' = [served EXCEPT ![c] = before \o SubSeq(left, 1, n)]
  /\ more' = [more EXCEPT ![c] = n < Len(left)]

(* A new answer takes the place of the previous one's remainder. *)
AnswerTcp(c, results) ==
  /\ whole' = [whole EXCEPT ![c] = results]
  /\ SendPage(c, results, <<>>)
  /\ UNCHANGED pageSize

AnswerEmpty(c) == IF c \in TcpCallers THEN AnswerTcp(c, <<>>) ELSE UNCHANGED pages

Places(c) == IF c \in TcpCallers THEN tcpPlaces < MaxQueuedTcp ELSE udpPlaces < MaxQueuedUdp

TakePlace(c) ==
  /\ tcpPlaces' = IF c \in TcpCallers THEN tcpPlaces + 1 ELSE tcpPlaces
  /\ udpPlaces' = IF c \in UdpCallers THEN udpPlaces + 1 ELSE udpPlaces

(* Mutant: a UDP ticket's place is not held by the waiting task but lost.  *)
LosesUdpPlace(c) ==
  /\ tcpPlaces' = IF c \in TcpCallers THEN tcpPlaces - 1 ELSE tcpPlaces
  /\ UNCHANGED udpPlaces

(* Mutant: the ticket gives back a place of either queue.                  *)
LeavesBoth(c) == tcpPlaces' = tcpPlaces - 1 /\ udpPlaces' = udpPlaces - 1

LeavePlace(c) ==
  /\ tcpPlaces' = IF c \in TcpCallers THEN tcpPlaces - 1 ELSE tcpPlaces
  /\ udpPlaces' = IF c \in UdpCallers THEN udpPlaces - 1 ELSE udpPlaces

-----------------------------------------------------------------------------
(* tcp_search_permit, udp_search_admit: a job at once, or a place. *)
StartNow(c) ==
  /\ search[c] = "idle" /\ jobsFree > 0
  /\ jobsFree' = jobsFree - 1 /\ search' = [search EXCEPT ![c] = "running"]
  /\ UNCHANGED <<line, tcpPlaces, udpPlaces, pages>>

Queue(c) ==
  /\ search[c] = "idle" /\ jobsFree = 0 /\ Places(c)
  /\ TakePlace(c) /\ line' = Append(line, c) /\ search' = [search EXCEPT ![c] = "waiting"]
  /\ UNCHANGED <<jobsFree, pages>>

Shed(c) ==
  /\ search[c] = "idle" /\ jobsFree = 0 /\ ~Places(c)
  /\ AnswerEmpty(c) /\ UNCHANGED <<search, jobsFree, line, tcpPlaces, udpPlaces>>

(* take_within: the wait is over. *)
GiveUp(c) ==
  /\ search[c] = "waiting"
  /\ \E i \in 1 .. Len(line) : line[i] = c /\ line' = RemoveAt(line, i)
  /\ LeavePlace(c)
  /\ search' = [search EXCEPT ![c] = "idle"]
  /\ AnswerEmpty(c) /\ UNCHANGED jobsFree

(* run_search: the permit goes to the first in line when the job is over,  *)
(* with its results or, if it panicked, without.                           *)
Finish(c, n) ==
  /\ search[c] = "running"
  /\ IF line = <<>>
     THEN /\ jobsFree' = jobsFree + 1 /\ search' = [search EXCEPT ![c] = "idle"]
          /\ UNCHANGED <<line, tcpPlaces, udpPlaces>>
     ELSE /\ search' = [search EXCEPT ![c] = "idle", ![Head(line)] = "running"]
          /\ line' = Tail(line) /\ LeavePlace(Head(line)) /\ UNCHANGED jobsFree
  /\ IF c \in TcpCallers THEN AnswerTcp(c, Found(n)) ELSE UNCHANGED pages

(* Mutant: the remainder of the previous search is left in the buffer.     *)
UnparsedKeeps(c) ==
  /\ search[c] = "idle"
  /\ whole' = [whole EXCEPT ![c] = <<>>] /\ served' = [served EXCEPT ![c] = <<>>]
  /\ more' = [more EXCEPT ![c] = FALSE]
  /\ UNCHANGED <<search, jobsFree, line, tcpPlaces, udpPlaces, pageSize, buffer>>

(* A search that does not parse empties the buffer too. *)
Unparsed(c) ==
  /\ search[c] = "idle" /\ AnswerTcp(c, <<>>)
  /\ UNCHANGED <<search, jobsFree, line, tcpPlaces, udpPlaces>>

(* OP_QUERY_MORE_RESULT. *)
QueryMore(c) ==
  /\ search[c] = "idle"
  /\ SendPage(c, buffer[c], served[c])
  /\ UNCHANGED <<search, jobsFree, line, tcpPlaces, udpPlaces, pageSize, whole>>

Reconfigure ==
  /\ pageSize' \in PageSizes
  /\ UNCHANGED <<search, jobsFree, line, tcpPlaces, udpPlaces, buffer, whole, served, more>>

Next ==
  \/ \E c \in Callers :
       StartNow(c) \/ Queue(c) \/ Shed(c) \/ GiveUp(c) \/ \E n \in 0 .. MaxFound : Finish(c, n)
  \/ \E c \in TcpCallers : Unparsed(c) \/ QueryMore(c)
  \/ Reconfigure

Spec == Init /\ [][Next]_vars

-----------------------------------------------------------------------------
(* "the blocking pool never holds more than max_search_jobs searches", no  *)
(* job is free while a search waits, and each queue counts those that wait *)
(* from it: a place or a permit is neither leaked nor given back twice by  *)
(* a wait that ends either way.                                            *)
LaneExact ==
  /\ jobsFree + Cardinality({c \in Callers : search[c] = "running"}) = MaxJobs
  /\ line # <<>> => jobsFree = 0
  /\ Range(line) = {c \in Callers : search[c] = "waiting"} /\ Len(line) = Cardinality(Range(line))
  /\ tcpPlaces = Cardinality(Range(line) \cap TcpCallers)
  /\ udpPlaces = Cardinality(Range(line) \cap UdpCallers)

(* Over all pages each result of the latest search is sent once, in order, *)
(* whatever searches came before and however the page size changes; "more" *)
(* is said exactly while some are left.                                    *)
PagesWhole ==
  \A c \in TcpCallers : served[c] \o buffer[c] = whole[c] /\ (more[c] <=> buffer[c] # <<>>)

(* The lane's permits and places, and the pages each search is served in.  *)
LaneSound == TypeOK /\ LaneExact /\ PagesWhole
=============================================================================
