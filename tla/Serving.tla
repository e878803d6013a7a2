------------------------------- MODULE Serving --------------------------------
(***************************************************************************)
(* The components of MCServe that are proved about in ServeProofs, side by *)
(* side, and what each of them promises.                                   *)
(***************************************************************************)
EXTENDS Naturals, FiniteSets

CONSTANTS
  FHashes, Listable, Names, InName, Recovered, Readers, CacheMax, MaxPublishes,
  Users, SlabIds, Janitors, SlowCheck, NoHash, NoSize, NoId, IndexHashes, IndexSizes,
  Hashes, Verdict, Threshold, Soft, HardLimit, MaxBatch, MaxOffers, Conns,
  Pubs, Sizes, BatchMax, MinInterval, CostCap, Ceilings, Second, MaxNow, MaxCeilings, MaxOffered,
  Srcs, CanBe, Lan, Six, SixAware, MaxReply, Scan, UdpScan, UdpMax, MaxEntries, MaxMoves,
  TcpCallers, UdpCallers, MaxJobs, MaxQueuedTcp, MaxQueuedUdp, MaxFound, PageSizes

VARIABLES
  lists, gen, publishing, verdicts, vcount, reader, publishes,
  hash, recordSize, srcs, fresh, quar, aged, kw, userFiles, upc, uid, uhash, usize, mid, mine,
  jpc, jid, jhash, list, evicted, visit, shares,
  works,        \* the janitor that is looked at
  conn, current, attempts, warned, todo, sourced, indexed, caught, banned, blockedEver, overlapped, offers,
  clock, pacing, size, until, tat, ceiling, gRate, gTat, lock, gone, passed, gPassed, gSince, ceilings, offered,
  pubOrder, live, listed, cacheMap, staleKeys, request, answer, moves,
  search, jobsFree, line, tcpPlaces, udpPlaces, pageSize, buffer, whole, served, more

Content == INSTANCE ContentFilter
Index == INSTANCE FileIndex WITH Ids <- SlabIds, Hashes <- IndexHashes, Sizes <- IndexSizes,
                                 size <- recordSize, todo <- mine
Publish == INSTANCE Publishing
Pace == INSTANCE OfferPacing WITH stage <- pacing
Answer == INSTANCE SourceAnswers
Lane == INSTANCE SearchLane

(* One janitor at a time is looked at: the other rests. *)
OneJanitor ==
  /\ \A j \in Janitors \ {works} : jpc'[j] = "idle"
  /\ UNCHANGED works

-----------------------------------------------------------------------------
(* A cached verdict is that of its lists; a listed hash is withheld.       *)
FilterExact == Content!FilterExact

(* Evicting the sourceless leaves no posting of a file that is not there,  *)
(* whatever publishes meanwhile; a purge evicts files that have sources,   *)
(* and a publish in progress may index one again.                          *)
SweptPrecise == works = "sweep" => Index!PostingsPrecise

(* Publishes, departures and a janitor in any interleaving: what is shared *)
(* is findable, nothing that is gone is left in the postings or the slab,  *)
(* and a purge evicts what was checked.                                    *)
FilesSound ==
  Index!TypeOK /\ Index!SharedFindable /\ SweptPrecise /\ Index!NoLastingOrphan /\ Index!PurgesWhatWasChecked

(* Bans and the soft limit count what they should, whatever the batches.   *)
PublishLimits == Publish!PublishLimits

(* A v1 connection, and all of them together, keep to their pace.          *)
PaceHeld == Pace!PaceHeld

(* Shared and cut answers hide no reachable source and expose none.        *)
AnswersSound == Answer!AnswersSound

(* No permit or place of the search lane is leaked, no result sent twice.  *)
LaneSound == Lane!LaneSound
=============================================================================
