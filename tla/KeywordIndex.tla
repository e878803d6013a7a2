---------------------------- MODULE KeywordIndex ----------------------------
(***************************************************************************)
(* One keyword of the two-tier index of state/keyword_index.rs.            *)
(*                                                                         *)
(* A keyword's posting is (cold \ pend) \cup hot: `cold` the compressed    *)
(* blob only compact() rewrites, `hot` the additions and `pend` the        *)
(* removals it has not folded in yet.  Keywords share nothing but locks,   *)
(* so one keyword is modelled; every lock acquisition is a step of its     *)
(* own.  A key absent from a map and a key with an empty Vec are the empty *)
(* set: cold blobs are never empty (compact drops the key), and for hot    *)
(* the absent key, whose lookup leaves no guard behind, is the freer case. *)
(*                                                                         *)
(* Calls on the same id do not overlap (IdFree below): an id is added by   *)
(* the publish that created it, before any user_files entry lets a         *)
(* disconnect remove it, and is not handed out again for 60 s after.  The  *)
(* operator's purge, which may evict an id still being added, is in        *)
(* FileIndex.                                                              *)
(***************************************************************************)
EXTENDS Naturals

CONSTANTS
  Ids,        \* file ids
  Writers,    \* tasks that publish files or evict them
  Searchers,  \* tasks that look the keyword up
  NoId        \* "no id", for a writer between two calls

ASSUME NoIdAssumption == NoId \notin Ids

VARIABLES
  hot, cold, pend,       \* the three tiers
  wpc, wid,              \* writers: where they are, and the id they work on
  cpc, hv, pv,           \* the compactor and its snapshots of hot and pend
  inflight,              \* calls running when the last compaction ended
  spc, keyed, shot, out, \* searchers: position, is a cold guard held, the
                         \* hot Vec under guard, and the ids returned
  must, may              \* history: ids that were in the posting during the
                         \* whole lookup, and at some instant of it

tiers == <<hot, cold, pend>>
writer == <<wpc, wid>>
compactor == <<cpc, hv, pv, inflight>>
searcher == <<spc, keyed, shot, out>>
history == <<must, may>>
vars == <<tiers, writer, compactor, searcher, history>>

AddPcs == {"addHot", "addPend", "addRet"}
RemovePcs == {"remHot", "remCheck", "remMark", "remRet"}
WriterPcs == {"idle"} \cup AddPcs \cup RemovePcs
CompactorPcs == {"idle", "snapPend", "install", "subtract"}
SearcherPcs == {"idle", "hot", "pend", "done"}

TypeOK ==
  /\ hot \in SUBSET Ids /\ cold \in SUBSET Ids /\ pend \in SUBSET Ids
  /\ wpc \in [Writers -> WriterPcs]
  /\ wid \in [Writers -> Ids \cup {NoId}]
  /\ cpc \in CompactorPcs
  /\ hv \in SUBSET Ids /\ pv \in SUBSET Ids
  /\ inflight \in SUBSET Writers
  /\ spc \in [Searchers -> SearcherPcs]
  /\ keyed \in [Searchers -> BOOLEAN]
  /\ shot \in [Searchers -> SUBSET Ids]
  /\ out \in [Searchers -> SUBSET Ids]
  /\ must \in [Searchers -> SUBSET Ids]
  /\ may \in [Searchers -> SUBSET Ids]

Init ==
  /\ hot = {} /\ cold = {} /\ pend = {}
  /\ wpc = [w \in Writers |-> "idle"]
  /\ wid = [w \in Writers |-> NoId]
  /\ cpc = "idle" /\ hv = {} /\ pv = {} /\ inflight = {}
  /\ spc = [s \in Searchers |-> "idle"]
  /\ keyed = [s \in Searchers |-> FALSE]
  /\ shot = [s \in Searchers |-> {}]
  /\ out = [s \in Searchers |-> {}]
  /\ must = [s \in Searchers |-> {}]
  /\ may = [s \in Searchers |-> {}]

(* Mutant: pending removals are not subtracted from the blob. *)
MergeIgnoringPend(c, h, p) == c \cup h

(* merge(cold - pending, hot): what a lookup and a compaction compute. *)
MergeTiers(c, h, p) == (c \ p) \cup h

-----------------------------------------------------------------------------
(* Locks.  The cold shard is write-locked from the swap of the new shard   *)
(* until the snapshots are subtracted; a lookup that found a cold blob     *)
(* holds its read lock, one that found a hot Vec holds the hot read lock.  *)

ColdWriteLocked == cpc = "subtract"

ColdReadLocked == \E s \in Searchers : spc[s] \in {"hot", "pend"} /\ keyed[s]

HotReadLocked == \E s \in Searchers : spc[s] = "pend" /\ shot[s] # {}

(* The posting the three tiers stand for.  An id whose add has reached hot *)
(* counts as present before its old removal mark is cleared; while the     *)
(* cold lock is held, a merged id that has left hot is already gone.       *)

Clearing == {i \in Ids : \E w \in Writers : wpc[w] = "addPend" /\ wid[w] = i}

Live ==
  {i \in Ids :
     \/ i \in hot
     \/ /\ i \in cold
        /\ i \in pend => i \in Clearing
        /\ ColdWriteLocked => i \notin hv}

(* History of each running lookup.  An add in progress may be seen or not. *)
Observe ==
  /\ must' = [s \in Searchers |->
       CASE spc'[s] = "idle" -> {}
         [] spc[s] = "done" -> must[s]
         [] spc[s] = "idle" -> Live' \ Clearing'
         [] OTHER -> must[s] \cap (Live' \ Clearing')]
  /\ may' = [s \in Searchers |->
       CASE spc'[s] = "idle" -> {}
         [] spc[s] = "done" -> may[s]
         [] spc[s] = "idle" -> Live'
         [] OTHER -> may[s] \cup Live']

-----------------------------------------------------------------------------
WriterStep(w, from, to) ==
  /\ wpc[w] = from
  /\ wpc' = [wpc EXCEPT ![w] = to]

IdFree(i) == \A w \in Writers : wid[w] # i

-----------------------------------------------------------------------------
(* add_file and remove_file, for one token of the file's name.             *)

CallAdd(w, i) ==
  /\ IdFree(i)
  /\ WriterStep(w, "idle", "addHot")
  /\ wid' = [wid EXCEPT ![w] = i]
  /\ UNCHANGED <<tiers, compactor, searcher>>
  /\ Observe

(* Insert into the hot Vec under the hot entry's lock. *)
AddHot(w) ==
  /\ ~HotReadLocked
  /\ WriterStep(w, "addHot", "addPend")
  /\ hot' = hot \cup {wid[w]}
  /\ UNCHANGED <<cold, pend, wid, compactor, searcher>>
  /\ Observe

(* Mutant: a re-add leaves the old removal pending. *)
AddKeepsPend(w) ==
  /\ WriterStep(w, "addPend", "addRet")
  /\ UNCHANGED <<tiers, wid, compactor, searcher>>
  /\ Observe

(* Cancel a removal not yet applied. *)
AddClearPend(w) ==
  /\ WriterStep(w, "addPend", "addRet")
  /\ pend' = pend \ {wid[w]}
  /\ UNCHANGED <<hot, cold, wid, compactor, searcher>>
  /\ Observe

CallRemove(w, i) ==
  /\ IdFree(i)
  /\ WriterStep(w, "idle", "remHot")
  /\ wid' = [wid EXCEPT ![w] = i]
  /\ UNCHANGED <<tiers, compactor, searcher>>
  /\ Observe

RemoveHot(w) ==
  /\ ~HotReadLocked
  /\ WriterStep(w, "remHot", "remCheck")
  /\ hot' = hot \ {wid[w]}
  /\ UNCHANGED <<cold, pend, wid, compactor, searcher>>
  /\ Observe

(* cold.contains_key: a removal is marked only for a key with a blob. *)
RemoveCheckCold(w) ==
  /\ ~ColdWriteLocked
  /\ WriterStep(w, "remCheck", IF cold # {} THEN "remMark" ELSE "remRet")
  /\ UNCHANGED <<tiers, wid, compactor, searcher>>
  /\ Observe

RemoveMark(w) ==
  /\ WriterStep(w, "remMark", "remRet")
  /\ pend' = pend \cup {wid[w]}
  /\ UNCHANGED <<hot, cold, wid, compactor, searcher>>
  /\ Observe

ReturnWrite(w) ==
  /\ WriterStep(w, "addRet", "idle") \/ WriterStep(w, "remRet", "idle")
  /\ wid' = [wid EXCEPT ![w] = NoId]
  /\ inflight' = inflight \ {w}
  /\ UNCHANGED <<tiers, cpc, hv, pv, searcher>>
  /\ Observe

-----------------------------------------------------------------------------
(* compact(), serialised by compact_lock, so there is one compactor.  It   *)
(* runs at the end of the sweep, every ten minutes: a call of a few map    *)
(* operations that was running when one pass ended returns before the      *)
(* next pass begins.                                                       *)

Busy == {w \in Writers : wpc[w] # "idle"}

SnapshotHot ==
  /\ cpc = "idle"
  /\ inflight = {}
  /\ cpc' = "snapPend"
  /\ hv' = hot
  /\ UNCHANGED <<tiers, writer, pv, inflight, searcher>>
  /\ Observe

(* Nothing deferred for this keyword: it is skipped. *)
SnapshotPend ==
  /\ cpc = "snapPend"
  /\ pv' = pend
  /\ LET skip == hv = {} /\ pend = {} IN
       /\ cpc' = IF skip THEN "idle" ELSE "install"
       /\ inflight' = IF skip THEN Busy ELSE inflight
  /\ UNCHANGED <<tiers, writer, hv, searcher>>
  /\ Observe

(* Mutants: the swap does not wait for readers; the pending removals it    *)
(* applied are kept.                                                       *)
InstallUnlocked ==
  /\ cpc = "install"
  /\ cpc' = "subtract"
  /\ cold' = MergeTiers(cold, hv, pv)
  /\ pend' = pend \ pv
  /\ UNCHANGED <<hot, writer, hv, pv, inflight, searcher>>
  /\ Observe

InstallKeepsPend ==
  /\ cpc = "install"
  /\ ~ColdReadLocked
  /\ cpc' = "subtract"
  /\ cold' = MergeTiers(cold, hv, pv)
  /\ UNCHANGED <<hot, pend, writer, hv, pv, inflight, searcher>>
  /\ Observe

(* The blob is merged from the snapshots with no lock held (only compact   *)
(* writes cold), swapped in under the shard's write lock, and the pending  *)
(* removals it applied are dropped.                                        *)
Install ==
  /\ cpc = "install"
  /\ ~ColdReadLocked
  /\ cpc' = "subtract"
  /\ cold' = MergeTiers(cold, hv, pv)
  /\ pend' = pend \ pv
  /\ UNCHANGED <<hot, writer, hv, pv, inflight, searcher>>
  /\ Observe

(* Mutant: an id removed during the merge is not marked. *)
SubtractForgetsGone ==
  /\ cpc = "subtract"
  /\ ~HotReadLocked
  /\ cpc' = "idle"
  /\ hot' = hot \ hv
  /\ hv' = {} /\ pv' = {} /\ inflight' = Busy
  /\ UNCHANGED <<cold, pend, writer, searcher>>
  /\ Observe

(* Under the hot entry's lock: the merged ids leave hot; one that has left *)
(* it meanwhile was removed, so its deletion is marked for the new blob.   *)
(* Releases the cold write lock.                                           *)
Subtract ==
  /\ cpc = "subtract"
  /\ ~HotReadLocked
  /\ cpc' = "idle"
  /\ hot' = hot \ hv
  /\ pend' = pend \cup (hv \ hot)
  /\ hv' = {} /\ pv' = {} /\ inflight' = Busy
  /\ UNCHANGED <<cold, writer, searcher>>
  /\ Observe

-----------------------------------------------------------------------------
(* merge_tiers_locked: cold, then hot, then pending.  ColdStore::get keeps *)
(* the shard's read guard only when the key is there.                      *)

SearchCold(s) ==
  /\ spc[s] = "idle"
  /\ ~ColdWriteLocked
  /\ spc' = [spc EXCEPT ![s] = "hot"]
  /\ keyed' = [keyed EXCEPT ![s] = cold # {}]
  /\ UNCHANGED <<tiers, writer, compactor, shot, out>>
  /\ Observe

SearchHot(s) ==
  /\ spc[s] = "hot"
  /\ spc' = [spc EXCEPT ![s] = "pend"]
  /\ shot' = [shot EXCEPT ![s] = hot]
  /\ UNCHANGED <<tiers, writer, compactor, keyed, out>>
  /\ Observe

(* Mutant: a keyword with a blob is answered from the blob alone. *)
SearchBlobOnly(s) ==
  /\ spc[s] = "pend"
  /\ spc' = [spc EXCEPT ![s] = "done"]
  /\ out' = [out EXCEPT ![s] = IF keyed[s] THEN cold \ pend ELSE shot[s]]
  /\ UNCHANGED <<tiers, writer, compactor, keyed, shot>>
  /\ Observe

SearchPend(s) ==
  /\ spc[s] = "pend"
  /\ spc' = [spc EXCEPT ![s] = "done"]
  /\ out' = [out EXCEPT ![s] =
               MergeTiers(IF keyed[s] THEN cold ELSE {}, shot[s], pend)]
  /\ UNCHANGED <<tiers, writer, compactor, keyed, shot>>
  /\ Observe

ReturnSearch(s) ==
  /\ spc[s] = "done"
  /\ spc' = [spc EXCEPT ![s] = "idle"]
  /\ keyed' = [keyed EXCEPT ![s] = FALSE]
  /\ shot' = [shot EXCEPT ![s] = {}]
  /\ out' = [out EXCEPT ![s] = {}]
  /\ UNCHANGED <<tiers, writer, compactor>>
  /\ Observe

-----------------------------------------------------------------------------
WriterNext(w) ==
  \/ \E i \in Ids : CallAdd(w, i) \/ CallRemove(w, i)
  \/ AddHot(w) \/ AddClearPend(w)
  \/ RemoveHot(w) \/ RemoveCheckCold(w) \/ RemoveMark(w)
  \/ ReturnWrite(w)

CompactorNext == SnapshotHot \/ SnapshotPend \/ Install \/ Subtract

SearcherNext(s) ==
  SearchCold(s) \/ SearchHot(s) \/ SearchPend(s) \/ ReturnSearch(s)

Next ==
  \/ \E w \in Writers : WriterNext(w)
  \/ CompactorNext
  \/ \E s \in Searchers : SearcherNext(s)

Spec == Init /\ [][Next]_vars

-----------------------------------------------------------------------------
(* compact() is called by the periodic sweep for as long as the server     *)
(* runs, and every holder of a guard is a running thread that drops it;    *)
(* a thread waiting for a lock gets it (strong fairness) because the       *)
(* locks do not starve a waiting writer.                                   *)
Fairness ==
  /\ WF_vars(SnapshotHot)
  /\ WF_vars(SnapshotPend)
  /\ SF_vars(Install)
  /\ SF_vars(Subtract)
  /\ \A s \in Searchers :
       /\ WF_vars(SearchHot(s))
       /\ WF_vars(SearchPend(s))

FairSpec == Spec /\ Fairness

-----------------------------------------------------------------------------
(* Correctness.                                                            *)

(* The three tiers behave as one set: every add_file and remove_file takes *)
(* effect once between its call and its return, and compaction, which      *)
(* decodes and merges with no lock held, changes nothing a caller can see. *)
Kind == [w \in Writers |->
           IF wpc[w] \in AddPcs THEN "add"
           ELSE IF wpc[w] \in RemovePcs THEN "remove" ELSE "none"]

(* An add takes effect when the id enters hot.  A removal does when the    *)
(* id leaves the posting: at once if only hot held it, when it is marked,  *)
(* or when a blob merged without it is swapped in.                         *)
Applied ==
  {w \in Writers :
     \/ wpc[w] \in {"addPend", "addRet", "remRet"}
     \/ wpc[w] \in {"remCheck", "remMark"} /\ wid[w] \notin Live}

Posting == INSTANCE PostingSet WITH
  posting <- Live, kind <- Kind, arg <- wid, applied <- Applied

PostingSpec == Posting!Spec

(* A lookup returns only ids that were in the posting at some instant of   *)
(* the lookup, whatever publishes, evictions and compactions run meanwhile *)
(* (the guards of merge_tiers_locked are taken one after the other).       *)
SearchSound ==
  \A s \in Searchers : spc[s] = "done" => out[s] \subseteq may[s]

(* "a search running meanwhile always sees each id in at least one tier":  *)
(* a lookup returns every id that stayed in the posting throughout it.     *)
SearchComplete ==
  \A s \in Searchers : spc[s] = "done" => must[s] \subseteq out[s]

(* What the code guarantees of that: a lookup that found a cold blob, and  *)
(* so holds the shard's read lock, returns every id that stayed throughout.*)
SearchCompleteOnCold ==
  \A s \in Searchers :
    spc[s] = "done" /\ keyed[s] => must[s] \subseteq out[s]

(* The invariant documented on pending_removals: hot and pending are       *)
(* disjoint, except for an id whose add has not cleared its mark yet.      *)
HotPendDisjoint == hot \cap pend \subseteq Clearing

(* The inductive invariant behind the theorems.  Each part relates the     *)
(* tiers to a call or a compaction in progress:                            *)
(* - calls in progress work on distinct ids;                               *)
(* - an id whose add has reached hot can leave it before its mark is       *)
(*   cleared only by being merged, and then the call is in `inflight`;     *)
(* - a removal past its first step has taken the id out of hot;            *)
(* - an id of the compactor's snapshots that has since left hot is marked, *)
(*   about to be marked, or not in the blob to be replaced;                *)
(* - a lookup's guard keeps the blob in place under it.                    *)
CallsDistinct ==
  /\ \A w \in Writers : wid[w] = NoId <=> wpc[w] = "idle"
  /\ \A v, w \in Writers : wid[v] = wid[w] /\ wid[v] # NoId => v = w

AddPlaced ==
  \A w \in Writers : wpc[w] = "addPend" =>
    /\ wid[w] \in hot \cup cold
    /\ wid[w] \in hot \/ w \in inflight

RemoveTaken ==
  \A w \in Writers : wpc[w] \in {"remCheck", "remMark"} => wid[w] \notin hot

Removing(i) ==
  \E w \in Writers : wpc[w] \in {"remCheck", "remMark"} /\ wid[w] = i

SnapshotsKept ==
  /\ cpc # "idle" => inflight = {}
  /\ cpc \in {"idle", "snapPend"} => pv = {}
  /\ cpc \in {"snapPend", "install"} =>
       \A i \in (hv \cup pv) \cap cold : i \in hot \cup pend \/ Removing(i)
  /\ cpc = "subtract" => hv \subseteq cold

LookupGuarded ==
  \A s \in Searchers : spc[s] \in {"hot", "pend"} =>
    /\ keyed[s] => cpc # "subtract"
    /\ Live \subseteq may[s]
    /\ must[s] \subseteq Live \ Clearing
    /\ spc[s] = "pend" => shot[s] \subseteq may[s]
    /\ spc[s] = "pend" /\ keyed[s] => must[s] \subseteq shot[s] \cup (cold \ pend)

IndInv ==
  /\ TypeOK
  /\ CallsDistinct /\ AddPlaced /\ RemoveTaken
  /\ HotPendDisjoint /\ SnapshotsKept
  /\ LookupGuarded /\ SearchSound /\ SearchCompleteOnCold

(* Once writers stop, compaction folds both deferred tiers into cold: no   *)
(* deletion stays pending for ever and no addition stays uncompressed.     *)
EventuallyDrained ==
  <>[](\A w \in Writers : wpc[w] = "idle") => <>[](hot = {} /\ pend = {})
=============================================================================
