------------------------- MODULE KeywordIndexProofs -------------------------
(***************************************************************************)
(* Theorems about KeywordIndex, for any sets of ids, writers and searchers *)
(***************************************************************************)
EXTENDS KeywordIndex, TLAPS

CoreInv ==
  CallsDistinct /\ AddPlaced /\ RemoveTaken /\ HotPendDisjoint /\ SnapshotsKept

(* The initial state satisfies the inductive invariant. *)
LEMMA InitIndInv == Init => IndInv
<1> SUFFICES ASSUME Init PROVE IndInv
  OBVIOUS
<1>1. TypeOK
  BY DEF Init, TypeOK, WriterPcs, CompactorPcs, SearcherPcs
<1>2. CallsDistinct /\ AddPlaced /\ RemoveTaken /\ HotPendDisjoint /\ SnapshotsKept
  BY NoIdAssumption DEF Init, CallsDistinct, AddPlaced, RemoveTaken,
     HotPendDisjoint, SnapshotsKept
<1>3. LookupGuarded /\ SearchSound /\ SearchCompleteOnCold
  BY DEF Init, LookupGuarded, SearchSound, SearchCompleteOnCold
<1> QED
  BY <1>1, <1>2, <1>3 DEF IndInv

(* The histories are sets of ids whatever the step. *)
LEMMA ObserveType ==
  ASSUME TypeOK, Observe
  PROVE  /\ must' \in [Searchers -> SUBSET Ids]
         /\ may' \in [Searchers -> SUBSET Ids]
<1>1. Live' \subseteq Ids
  BY DEF Live
<1> QED
  BY <1>1 DEF Observe, TypeOK

(* Every step keeps the types. *)
LEMMA TypeStep ==
  ASSUME TypeOK, CallsDistinct, [Next]_vars
  PROVE  TypeOK'
<1> USE DEF TypeOK, WriterPcs, AddPcs, RemovePcs, CompactorPcs, SearcherPcs
<1>1. ASSUME NEW w \in Writers, WriterNext(w) PROVE TypeOK'
  <2>0. Observe
    BY <1>1 DEF WriterNext, CallAdd, CallRemove, AddHot, AddClearPend,
       RemoveHot, RemoveCheckCold, RemoveMark, ReturnWrite
  <2>. wpc[w] # "idle" => wid[w] \in Ids
    BY DEF CallsDistinct
  <2>1. /\ hot' \in SUBSET Ids /\ cold' \in SUBSET Ids /\ pend' \in SUBSET Ids
        /\ wpc' \in [Writers -> WriterPcs] /\ wid' \in [Writers -> Ids \cup {NoId}]
        /\ inflight' \in SUBSET Writers
        /\ UNCHANGED <<cpc, hv, pv, searcher>>
    BY <1>1 DEF WriterNext, WriterStep, tiers, compactor, CallAdd, CallRemove, AddHot, AddClearPend,
       RemoveHot, RemoveCheckCold, RemoveMark, ReturnWrite
  <2> QED
    BY <2>0, <2>1, ObserveType DEF searcher
<1>2. ASSUME CompactorNext PROVE TypeOK'
  <2>0. Observe
    BY <1>2 DEF CompactorNext, SnapshotHot, SnapshotPend, Install, Subtract
  <2>1. /\ hot' \in SUBSET Ids /\ cold' \in SUBSET Ids /\ pend' \in SUBSET Ids
        /\ cpc' \in CompactorPcs /\ hv' \in SUBSET Ids /\ pv' \in SUBSET Ids
        /\ inflight' \in SUBSET Writers
        /\ UNCHANGED <<writer, searcher>>
    BY <1>2 DEF CompactorNext, SnapshotHot, SnapshotPend, Install, Subtract,
       MergeTiers, Busy, tiers
  <2>2. UNCHANGED <<wpc, wid, spc, keyed, shot, out>>
    BY <2>1 DEF writer, searcher
  <2>3. must' \in [Searchers -> SUBSET Ids] /\ may' \in [Searchers -> SUBSET Ids]
    BY <2>0, ObserveType
  <2> QED
    BY <2>1, <2>2, <2>3
<1>3. ASSUME NEW s \in Searchers, SearcherNext(s) PROVE TypeOK'
  <2>0. Observe
    BY <1>3 DEF SearcherNext, SearchCold, SearchHot, SearchPend, ReturnSearch
  <2>1. must' \in [Searchers -> SUBSET Ids] /\ may' \in [Searchers -> SUBSET Ids]
    BY <2>0, ObserveType
  <2>2. UNCHANGED <<tiers, writer, compactor>>
    BY <1>3 DEF SearcherNext, SearchCold, SearchHot, SearchPend, ReturnSearch
  <2>3. /\ spc' \in [Searchers -> SearcherPcs]
        /\ shot' \in [Searchers -> SUBSET Ids]
        /\ out' \in [Searchers -> SUBSET Ids]
    BY <1>3 DEF SearcherNext, SearchCold, SearchHot, SearchPend, ReturnSearch, MergeTiers
  <2>4. keyed' \in [Searchers -> BOOLEAN]
    <3>1. CASE SearchCold(s)
      <4>1. (cold # {}) \in BOOLEAN
        OBVIOUS
      <4> QED BY <3>1, <4>1, Zenon DEF SearchCold
    <3>2. CASE ReturnSearch(s)
      BY <3>2 DEF ReturnSearch
    <3> QED
      BY <1>3, <3>1, <3>2 DEF SearcherNext, SearchHot, SearchPend
  <2> QED
    BY <2>1, <2>2, <2>3, <2>4 DEF tiers, writer, compactor
<1>4. CASE UNCHANGED vars
  BY <1>4 DEF vars, tiers, writer, compactor, searcher, history
<1> QED
  BY <1>1, <1>2, <1>3, <1>4 DEF Next

-----------------------------------------------------------------------------
(* The writers' steps keep the part of the invariant about the tiers. *)

(* Calling add_file or remove_file takes an id no other call works on. *)
LEMMA CallCore ==
  ASSUME TypeOK, CoreInv, NEW w \in Writers, NEW i \in Ids,
         CallAdd(w, i) \/ CallRemove(w, i)
  PROVE  CoreInv'
<1> USE NoIdAssumption DEF TypeOK, CoreInv, CallAdd, CallRemove, WriterStep, IdFree,
    tiers, compactor
<1>1. CallsDistinct'
  BY DEF CallsDistinct
<1>2. AddPlaced' /\ RemoveTaken'
  BY DEF AddPlaced, RemoveTaken, CallsDistinct
<1>3. HotPendDisjoint'
  BY DEF HotPendDisjoint, Clearing, CallsDistinct
<1>4. SnapshotsKept'
  BY DEF SnapshotsKept, Removing, CallsDistinct
<1> QED
  BY <1>1, <1>2, <1>3, <1>4

(* An id entering hot keeps the invariant: its mark is being cleared. *)
LEMMA AddHotCore ==
  ASSUME TypeOK, CoreInv, NEW w \in Writers, AddHot(w)
  PROVE  CoreInv'
<1> USE NoIdAssumption DEF TypeOK, CoreInv, AddHot, WriterStep, compactor
<1>1. CallsDistinct'
  BY DEF CallsDistinct
<1>2. AddPlaced' /\ RemoveTaken'
  BY DEF AddPlaced, RemoveTaken, CallsDistinct
<1>3. HotPendDisjoint'
  BY DEF HotPendDisjoint, Clearing, CallsDistinct
<1>4. SnapshotsKept'
  BY DEF SnapshotsKept, Removing, CallsDistinct
<1> QED
  BY <1>1, <1>2, <1>3, <1>4

(* Cancelling the mark restores the disjointness of hot and pending. *)
LEMMA AddClearPendCore ==
  ASSUME TypeOK, CoreInv, NEW w \in Writers, AddClearPend(w)
  PROVE  CoreInv'
<1> USE NoIdAssumption DEF TypeOK, CoreInv, AddClearPend, WriterStep, compactor
<1>1. CallsDistinct'
  BY DEF CallsDistinct
<1>2. AddPlaced' /\ RemoveTaken'
  BY DEF AddPlaced, RemoveTaken, CallsDistinct
<1>3. HotPendDisjoint'
  BY DEF HotPendDisjoint, Clearing, CallsDistinct
<1>4. SnapshotsKept'
  BY DEF SnapshotsKept, Removing, CallsDistinct, AddPlaced
<1> QED
  BY <1>1, <1>2, <1>3, <1>4

(* An id leaves hot; if a snapshot has it, its removal is in progress. *)
LEMMA RemoveHotCore ==
  ASSUME TypeOK, CoreInv, NEW w \in Writers, RemoveHot(w)
  PROVE  CoreInv'
<1> USE NoIdAssumption DEF TypeOK, CoreInv, RemoveHot, WriterStep, compactor
<1>1. CallsDistinct'
  BY DEF CallsDistinct
<1>2. AddPlaced' /\ RemoveTaken'
  BY DEF AddPlaced, RemoveTaken, CallsDistinct
<1>3. HotPendDisjoint'
  BY DEF HotPendDisjoint, Clearing, CallsDistinct
<1>4. SnapshotsKept'
  BY DEF SnapshotsKept, Removing, CallsDistinct
<1> QED
  BY <1>1, <1>2, <1>3, <1>4

(* Looking for a cold blob changes no tier. *)
LEMMA RemoveCheckColdCore ==
  ASSUME TypeOK, CoreInv, NEW w \in Writers, RemoveCheckCold(w)
  PROVE  CoreInv'
<1> USE NoIdAssumption DEF TypeOK, CoreInv, RemoveCheckCold, WriterStep, tiers, compactor
<1>1. CallsDistinct'
  BY DEF CallsDistinct
<1>2. AddPlaced' /\ RemoveTaken'
  BY DEF AddPlaced, RemoveTaken, CallsDistinct
<1>3. HotPendDisjoint'
  BY DEF HotPendDisjoint, Clearing, CallsDistinct
<1>4. SnapshotsKept'
  BY DEF SnapshotsKept, Removing, CallsDistinct
<1> QED
  BY <1>1, <1>2, <1>3, <1>4

(* The id marked has left hot, so the tiers stay disjoint. *)
LEMMA RemoveMarkCore ==
  ASSUME TypeOK, CoreInv, NEW w \in Writers, RemoveMark(w)
  PROVE  CoreInv'
<1> USE NoIdAssumption DEF TypeOK, CoreInv, RemoveMark, WriterStep, compactor
<1>1. CallsDistinct'
  BY DEF CallsDistinct
<1>2. AddPlaced' /\ RemoveTaken'
  BY DEF AddPlaced, RemoveTaken, CallsDistinct
<1>3. HotPendDisjoint'
  BY DEF HotPendDisjoint, Clearing, CallsDistinct, RemoveTaken
<1>4. SnapshotsKept'
  BY DEF SnapshotsKept, Removing, CallsDistinct
<1> QED
  BY <1>1, <1>2, <1>3, <1>4

(* A call that returns leaves nothing half done. *)
LEMMA ReturnWriteCore ==
  ASSUME TypeOK, CoreInv, NEW w \in Writers, ReturnWrite(w)
  PROVE  CoreInv'
<1> USE NoIdAssumption DEF TypeOK, CoreInv, ReturnWrite, WriterStep, tiers
<1>1. CallsDistinct'
  BY DEF CallsDistinct
<1>2. AddPlaced' /\ RemoveTaken'
  BY DEF AddPlaced, RemoveTaken, CallsDistinct
<1>3. HotPendDisjoint'
  BY DEF HotPendDisjoint, Clearing, CallsDistinct
<1>4. SnapshotsKept'
  BY DEF SnapshotsKept, Removing, CallsDistinct
<1> QED
  BY <1>1, <1>2, <1>3, <1>4

-----------------------------------------------------------------------------
(* So do the compactor's. *)

(* The snapshots are of the tiers as they are, id by id. *)
LEMMA SnapshotCore ==
  ASSUME TypeOK, CoreInv, SnapshotHot \/ SnapshotPend
  PROVE  CoreInv'
<1> USE DEF TypeOK, CoreInv, SnapshotHot, SnapshotPend, tiers, writer
<1>1. CallsDistinct' /\ RemoveTaken'
  BY DEF CallsDistinct, RemoveTaken
<1>2. AddPlaced'
  BY DEF AddPlaced, SnapshotsKept, Busy
<1>3. HotPendDisjoint'
  BY DEF HotPendDisjoint, Clearing
<1>4. SnapshotsKept'
  BY DEF SnapshotsKept, Removing
<1> QED
  BY <1>1, <1>2, <1>3, <1>4

(* The swap puts every id of the hot snapshot into the blob. *)
LEMMA InstallCore ==
  ASSUME TypeOK, CoreInv, Install
  PROVE  CoreInv'
<1> USE DEF TypeOK, CoreInv, Install, MergeTiers, writer
<1>1. CallsDistinct' /\ RemoveTaken'
  BY DEF CallsDistinct, RemoveTaken
<1>2. AddPlaced'
  BY DEF AddPlaced, SnapshotsKept
<1>3. HotPendDisjoint'
  BY DEF HotPendDisjoint, Clearing
<1>4. SnapshotsKept'
  BY DEF SnapshotsKept, Removing
<1> QED
  BY <1>1, <1>2, <1>3, <1>4

(* What leaves hot is in the blob, and what left it before is marked. *)
LEMMA SubtractCore ==
  ASSUME TypeOK, CoreInv, Subtract
  PROVE  CoreInv'
<1> USE DEF TypeOK, CoreInv, Subtract, writer
<1>1. CallsDistinct' /\ RemoveTaken'
  BY DEF CallsDistinct, RemoveTaken
<1>2. AddPlaced'
  BY DEF AddPlaced, SnapshotsKept, Busy
<1>3. HotPendDisjoint'
  BY DEF HotPendDisjoint, Clearing
<1>4. SnapshotsKept'
  BY DEF SnapshotsKept, Removing
<1> QED
  BY <1>1, <1>2, <1>3, <1>4

(* A lookup changes no tier. *)
LEMMA CoreUnchanged ==
  ASSUME CoreInv, UNCHANGED <<tiers, writer, compactor>>
  PROVE  CoreInv'
BY DEF CoreInv, CallsDistinct, AddPlaced, RemoveTaken, HotPendDisjoint, Clearing,
   SnapshotsKept, Removing, tiers, writer, compactor

(* So every step keeps the part of the invariant about the tiers. *)
LEMMA CoreStep ==
  ASSUME TypeOK, CoreInv, [Next]_vars
  PROVE  CoreInv'
<1>1. ASSUME NEW w \in Writers, WriterNext(w) PROVE CoreInv'
  BY <1>1, CallCore, AddHotCore, AddClearPendCore, RemoveHotCore,
     RemoveCheckColdCore, RemoveMarkCore, ReturnWriteCore DEF WriterNext
<1>2. ASSUME CompactorNext PROVE CoreInv'
  BY <1>2, SnapshotCore, InstallCore, SubtractCore DEF CompactorNext
<1>3. ASSUME NEW s \in Searchers, SearcherNext(s) PROVE CoreInv'
  BY <1>3, CoreUnchanged DEF SearcherNext, SearchCold, SearchHot, SearchPend, ReturnSearch
<1>4. CASE UNCHANGED vars
  BY <1>4, CoreUnchanged DEF vars
<1> QED
  BY <1>1, <1>2, <1>3, <1>4 DEF Next

-----------------------------------------------------------------------------
(* Lookups. *)

SearchInv == LookupGuarded /\ SearchSound /\ SearchCompleteOnCold

(* What the history of a running lookup records of a step. *)
LEMMA ObserveRunning ==
  ASSUME TypeOK, Observe, NEW s \in Searchers, spc[s] # "done", spc'[s] # "idle"
  PROVE  /\ Live' \subseteq may'[s]
         /\ must'[s] \subseteq Live' \ Clearing'
         /\ spc[s] # "idle" => must'[s] \subseteq must[s] /\ may[s] \subseteq may'[s]
BY DEF Observe, TypeOK

(* The history of a finished lookup is closed. *)
LEMMA ObserveDone ==
  ASSUME TypeOK, Observe, NEW s \in Searchers, spc[s] = "done", spc'[s] = "done"
  PROVE  must'[s] = must[s] /\ may'[s] = may[s]
BY DEF Observe, TypeOK

(* A step of a writer or of the compactor, seen from the lookups running:  *)
(* the blob a lookup guards stays in place, and an id is marked only when  *)
(* it leaves the posting.                                                  *)
LEMMA SearchUndisturbed ==
  ASSUME TypeOK, SearchInv, Observe, UNCHANGED searcher,
         ColdReadLocked => cpc' # "subtract" /\ cold' = cold
                           /\ (pend' \ pend) \cap Live' = {}
  PROVE  SearchInv'
<1> USE DEF TypeOK, searcher
<1>1. ASSUME NEW s \in Searchers, spc'[s] \in {"hot", "pend"}
      PROVE  /\ keyed'[s] => cpc' # "subtract"
             /\ Live' \subseteq may'[s]
             /\ must'[s] \subseteq Live' \ Clearing'
             /\ spc'[s] = "pend" => shot'[s] \subseteq may'[s]
             /\ spc'[s] = "pend" /\ keyed'[s]
                  => must'[s] \subseteq shot'[s] \cup (cold' \ pend')
  <2>1. /\ Live' \subseteq may'[s]
        /\ must'[s] \subseteq Live' \ Clearing'
        /\ must'[s] \subseteq must[s] /\ may[s] \subseteq may'[s]
    BY <1>1, ObserveRunning
  <2>2. keyed[s] => cpc' # "subtract" /\ cold' = cold /\ (pend' \ pend) \cap Live' = {}
    BY <1>1 DEF ColdReadLocked
  <2>3. /\ spc[s] = "pend" => shot[s] \subseteq may[s]
        /\ spc[s] = "pend" /\ keyed[s] => must[s] \subseteq shot[s] \cup (cold \ pend)
    BY <1>1 DEF SearchInv, LookupGuarded
  <2> QED
    BY <1>1, <2>1, <2>2, <2>3
<1>2. LookupGuarded'
  BY <1>1 DEF LookupGuarded
<1>3. SearchSound' /\ SearchCompleteOnCold'
  BY ObserveDone DEF SearchInv, SearchSound, SearchCompleteOnCold
<1> QED
  BY <1>2, <1>3 DEF SearchInv

(* No step of a writer disturbs a lookup. *)
LEMMA WriterSearch ==
  ASSUME TypeOK, CoreInv, SearchInv, NEW w \in Writers, WriterNext(w)
  PROVE  SearchInv'
<1>1. Observe /\ UNCHANGED <<searcher, cpc, hv, cold>>
  BY DEF WriterNext, CallAdd, CallRemove, AddHot, AddClearPend, RemoveHot,
     RemoveCheckCold, RemoveMark, ReturnWrite, tiers, compactor
<1>2. ColdReadLocked => cpc' # "subtract"
  BY <1>1 DEF SearchInv, LookupGuarded, ColdReadLocked
<1>3. (pend' \ pend) \cap Live' = {}
  <2>1. CASE RemoveMark(w)
    <3>1. wid[w] \notin Live'
      BY <2>1, <1>1 DEF RemoveMark, WriterStep, CoreInv, RemoveTaken, CallsDistinct,
         Live, Clearing, TypeOK
    <3> QED
      BY <2>1, <3>1 DEF RemoveMark
  <2>2. CASE ~RemoveMark(w)
    BY <2>2 DEF WriterNext, CallAdd, CallRemove, AddHot, AddClearPend, RemoveHot,
       RemoveCheckCold, ReturnWrite, tiers
  <2> QED
    BY <2>1, <2>2
<1> QED
  BY <1>1, <1>2, <1>3, SearchUndisturbed

(* The compactor waits for the guards of the lookups. *)
LEMMA CompactorSearch ==
  ASSUME TypeOK, SearchInv, CompactorNext
  PROVE  SearchInv'
<1>1. Observe /\ UNCHANGED searcher
  BY DEF CompactorNext, SnapshotHot, SnapshotPend, Install, Subtract
<1>2. ColdReadLocked => cpc # "subtract"
  BY DEF SearchInv, LookupGuarded, ColdReadLocked
<1>3. ColdReadLocked => cpc' # "subtract" /\ cold' = cold /\ pend' = pend
  BY <1>2 DEF CompactorNext, SnapshotHot, SnapshotPend, Install, Subtract, tiers
<1> QED
  BY <1>1, <1>3, SearchUndisturbed

(* The lookups' own steps: cold, then hot, then pending. *)
LEMMA SearcherSearch ==
  ASSUME TypeOK, SearchInv, NEW t \in Searchers, SearcherNext(t)
  PROVE  SearchInv'
<1> USE DEF TypeOK, tiers, writer, compactor
<1>0. Observe /\ UNCHANGED <<tiers, writer, compactor>>
  BY DEF SearcherNext, SearchCold, SearchHot, SearchPend, ReturnSearch
<1>1. Live' = Live /\ Clearing' = Clearing
  BY <1>0 DEF Live, Clearing, ColdWriteLocked
<1>2. hot \subseteq Live
  BY DEF Live
<1>3. \A s \in Searchers : s # t => UNCHANGED <<spc[s], keyed[s], shot[s], out[s]>>
  BY DEF SearcherNext, SearchCold, SearchHot, SearchPend, ReturnSearch
<1>4. ASSUME NEW s \in Searchers, spc'[s] \in {"hot", "pend"}
      PROVE  /\ keyed'[s] => cpc' # "subtract"
             /\ Live' \subseteq may'[s]
             /\ must'[s] \subseteq Live' \ Clearing'
             /\ spc'[s] = "pend" => shot'[s] \subseteq may'[s]
             /\ spc'[s] = "pend" /\ keyed'[s]
                  => must'[s] \subseteq shot'[s] \cup (cold' \ pend')
  <2>1. /\ spc[s] # "done"
        /\ spc[s] # "idle" => keyed'[s] = keyed[s]
        /\ spc[s] = "idle" => ~ColdWriteLocked /\ spc'[s] = "hot"
        /\ spc[s] = "hot" /\ spc'[s] = "pend" => shot'[s] = hot
        /\ spc[s] = "pend" => shot'[s] = shot[s]
    BY <1>3, <1>4 DEF SearcherNext, SearchCold, SearchHot, SearchPend, ReturnSearch
  <2>2. /\ Live' \subseteq may'[s]
        /\ must'[s] \subseteq Live' \ Clearing'
        /\ spc[s] # "idle" => must'[s] \subseteq must[s] /\ may[s] \subseteq may'[s]
    BY <1>0, <1>4, <2>1, ObserveRunning
  <2>3. keyed'[s] => cpc' # "subtract"
    BY <1>0, <2>1 DEF SearchInv, LookupGuarded, ColdWriteLocked, SearcherPcs
  <2>4. CASE spc[s] = "pend"
    BY <1>0, <2>1, <2>2, <2>3, <2>4 DEF SearchInv, LookupGuarded
  <2>5. CASE spc[s] = "hot"
    <3>1. keyed[s] => Live \ Clearing \subseteq hot \cup (cold \ pend)
      BY DEF Live
    <3> QED
      BY <1>0, <1>1, <1>2, <1>4, <2>1, <2>2, <2>3, <2>5, <3>1
  <2>6. CASE spc[s] = "idle"
    BY <2>1, <2>2, <2>3, <2>6
  <2> QED
    BY <2>1, <2>4, <2>5, <2>6 DEF SearcherPcs
<1>5. LookupGuarded'
  BY <1>4 DEF LookupGuarded
<1>6. ASSUME NEW s \in Searchers, spc'[s] = "done"
      PROVE  /\ out'[s] \subseteq may'[s]
             /\ keyed'[s] => must'[s] \subseteq out'[s]
  <2>1. CASE spc[s] = "done"
    <3>1. out'[s] = out[s] /\ keyed'[s] = keyed[s]
      BY <1>3, <1>6, <2>1 DEF SearcherNext, SearchCold, SearchHot, SearchPend, ReturnSearch
    <3> QED
      BY <1>0, <1>6, <2>1, <3>1, ObserveDone DEF SearchInv, SearchSound, SearchCompleteOnCold
  <2>2. CASE spc[s] # "done"
    <3>1. s = t /\ SearchPend(s)
      BY <1>3, <1>6, <2>2 DEF SearcherNext, SearchCold, SearchHot, SearchPend, ReturnSearch
    <3>2. /\ out'[s] = ((IF keyed[s] THEN cold ELSE {}) \ pend) \cup shot[s]
          /\ keyed'[s] = keyed[s] /\ spc[s] = "pend"
      BY <3>1 DEF SearchPend, MergeTiers
    <3>3. must'[s] \subseteq must[s] /\ may[s] \subseteq may'[s] /\ Live' \subseteq may'[s]
      BY <1>0, <1>6, <3>2, ObserveRunning
    <3>4. keyed[s] => cold \ pend \subseteq Live
      BY <3>2 DEF Live, SearchInv, LookupGuarded, ColdWriteLocked
    <3> QED
      BY <1>1, <3>2, <3>3, <3>4 DEF SearchInv, LookupGuarded
  <2> QED
    BY <2>1, <2>2
<1>7. SearchSound' /\ SearchCompleteOnCold'
  BY <1>6 DEF SearchSound, SearchCompleteOnCold
<1> QED
  BY <1>5, <1>7 DEF SearchInv

(* A step that changes nothing keeps the invariant of the lookups. *)
LEMMA SearchStutter ==
  ASSUME SearchInv, UNCHANGED vars
  PROVE  SearchInv'
BY DEF SearchInv, LookupGuarded, SearchSound, SearchCompleteOnCold, Live, Clearing,
   ColdWriteLocked, vars, tiers, writer, compactor, searcher, history

-----------------------------------------------------------------------------
(* The invariant of any number of publishing, evicting and searching tasks *)
(* around one compactor holds in every reachable state.                    *)
THEOREM Invariance == Spec => []IndInv
<1>1. Init => IndInv
  BY InitIndInv
<1>2. IndInv /\ [Next]_vars => IndInv'
  <2> SUFFICES ASSUME IndInv, [Next]_vars PROVE IndInv'
    OBVIOUS
  <2>0. TypeOK /\ CallsDistinct /\ CoreInv /\ SearchInv
    BY DEF IndInv, CoreInv, SearchInv
  <2>1. TypeOK'
    BY <2>0, TypeStep
  <2>2. CoreInv'
    BY <2>0, CoreStep
  <2>3. SearchInv'
    BY <2>0, WriterSearch, CompactorSearch, SearcherSearch, SearchStutter DEF Next
  <2> QED
    BY <2>1, <2>2, <2>3 DEF IndInv, CoreInv, SearchInv
<1> QED
  BY <1>1, <1>2, PTL DEF Spec

(* add_file and remove_file leave hot and pending disjoint, as documented  *)
(* on pending_removals, up to an add that has not cleared its mark yet.    *)
THEOREM Disjointness == Spec => []HotPendDisjoint
BY Invariance, PTL DEF IndInv

(* A lookup never returns an id that was outside the posting throughout.   *)
THEOREM LookupSoundness == Spec => []SearchSound
BY Invariance, PTL DEF IndInv

(* A lookup that found a cold blob misses no id that stayed throughout.    *)
THEOREM LookupCompletenessOnCold == Spec => []SearchCompleteOnCold
BY Invariance, PTL DEF IndInv

-----------------------------------------------------------------------------
(* Refinement.  How each step changes the posting and the calls' effects.  *)

(* A call is a call of the set. *)
LEMMA CallRefines ==
  ASSUME IndInv, NEW w \in Writers, NEW i \in Ids, CallAdd(w, i) \/ CallRemove(w, i)
  PROVE  \E k \in {"add", "remove"} : Posting!Call(w, k, i)
<1> USE NoIdAssumption DEF IndInv, TypeOK, CallAdd, CallRemove, WriterStep, tiers, compactor
<1>1. Live' = Live
  BY DEF Live, Clearing, ColdWriteLocked, CallsDistinct
<1>2. Kind[w] = "none" /\ wid' = [wid EXCEPT ![w] = i]
  BY DEF Kind, AddPcs, RemovePcs
<1>3. Applied' = Applied
  BY <1>1 DEF Applied
<1>4. CASE CallAdd(w, i)
  <2>1. Kind' = [Kind EXCEPT ![w] = "add"]
    BY <1>4 DEF Kind, AddPcs, RemovePcs
  <2> QED
    BY <1>1, <1>2, <1>3, <2>1 DEF Posting!Call
<1>5. CASE CallRemove(w, i)
  <2>1. Kind' = [Kind EXCEPT ![w] = "remove"]
    BY <1>5 DEF Kind, AddPcs, RemovePcs
  <2> QED
    BY <1>1, <1>2, <1>3, <2>1 DEF Posting!Call
<1> QED
  BY <1>4, <1>5

(* An add takes effect when the id enters hot. *)
LEMMA AddHotRefines ==
  ASSUME IndInv, NEW w \in Writers, AddHot(w)
  PROVE  Posting!Apply({w})
<1> USE NoIdAssumption DEF IndInv, TypeOK, AddHot, WriterStep, compactor
<1>1. Live' = Live \cup {wid[w]}
  BY DEF Live, Clearing, ColdWriteLocked, CallsDistinct
<1>2. Kind' = Kind /\ Kind[w] = "add" /\ wid' = wid
  BY DEF Kind, AddPcs, RemovePcs
<1>3. w \notin Applied /\ Applied' = Applied \cup {w}
  BY <1>1 DEF Applied, CallsDistinct
<1> QED
  BY <1>1, <1>2, <1>3 DEF Posting!Apply

(* Clearing the mark is invisible. *)
LEMMA AddClearPendRefines ==
  ASSUME IndInv, NEW w \in Writers, AddClearPend(w)
  PROVE  UNCHANGED Posting!absVars
<1> USE NoIdAssumption DEF IndInv, TypeOK, AddClearPend, WriterStep, compactor
<1>1. Live' = Live
  BY DEF Live, Clearing, ColdWriteLocked, CallsDistinct, AddPlaced, SnapshotsKept
<1>2. Kind' = Kind /\ wid' = wid
  BY DEF Kind, AddPcs, RemovePcs
<1>3. Applied' = Applied
  BY <1>1 DEF Applied
<1> QED
  BY <1>1, <1>2, <1>3 DEF Posting!absVars

(* A removal that takes the id out of the posting applies itself; one that *)
(* leaves it there (a blob still holds it) is not yet applied.             *)
LEMMA RemoveRefines ==
  ASSUME IndInv, NEW w \in Writers, Kind' = Kind, wid' = wid, Kind[w] = "remove",
         wpc[w] \in {"remHot", "remCheck", "remMark"},
         Live' = Live \/ Live' = Live \ {wid[w]},
         \A v \in Writers : v # w => wpc'[v] = wpc[v],
         wpc[w] = "remHot" => wpc'[w] = "remCheck",
         wpc[w] # "remHot" => wpc'[w] \in {"remMark", "remRet"},
         wpc'[w] = "remRet" => wid[w] \notin Live'
  PROVE  Posting!Apply({w}) \/ UNCHANGED Posting!absVars
<1> USE DEF IndInv, TypeOK
<1>1. \A v \in Writers : v # w /\ wpc[v] \in {"remCheck", "remMark"} => wid[v] # wid[w]
  BY DEF CallsDistinct
<1>2. Applied' = IF wid[w] \in Live' THEN Applied ELSE Applied \cup {w}
  BY <1>1 DEF Applied
<1>3. CASE wid[w] \in Live'
  BY <1>2, <1>3 DEF Posting!absVars
<1>4. CASE wid[w] \notin Live' /\ w \in Applied
  <2>1. Live' = Live
    BY <1>4 DEF Applied
  <2> QED
    BY <1>2, <1>4, <2>1 DEF Posting!absVars
<1>5. CASE wid[w] \notin Live' /\ w \notin Applied
  <2>1. Live' = Live \ {wid[w]}
    BY <1>5
  <2> QED
    BY <1>2, <1>5, <2>1 DEF Posting!Apply
<1> QED
  BY <1>3, <1>4, <1>5

(* A removal takes effect here if only hot held the id. *)
LEMMA RemoveHotRefines ==
  ASSUME IndInv, NEW w \in Writers, RemoveHot(w)
  PROVE  Posting!Apply({w}) \/ UNCHANGED Posting!absVars
<1> USE NoIdAssumption DEF IndInv, TypeOK, RemoveHot, WriterStep, compactor
<1>1. Live' = Live \/ Live' = Live \ {wid[w]}
  BY DEF Live, Clearing, ColdWriteLocked, CallsDistinct
<1>2. Kind' = Kind /\ wid' = wid /\ Kind[w] = "remove"
  BY DEF Kind, AddPcs, RemovePcs
<1> QED
  BY <1>1, <1>2, RemoveRefines

(* Looking for a blob: the id is out of the posting, or is marked next. *)
LEMMA RemoveCheckColdRefines ==
  ASSUME IndInv, NEW w \in Writers, RemoveCheckCold(w)
  PROVE  Posting!Apply({w}) \/ UNCHANGED Posting!absVars
<1> USE NoIdAssumption DEF IndInv, TypeOK, RemoveCheckCold, WriterStep, tiers, compactor
<1>1. Live' = Live /\ (wpc'[w] = "remRet" => wid[w] \notin Live')
  BY DEF Live, Clearing, ColdWriteLocked, CallsDistinct, RemoveTaken
<1>2. Kind' = Kind /\ wid' = wid /\ Kind[w] = "remove"
  BY DEF Kind, AddPcs, RemovePcs
<1> QED
  BY <1>1, <1>2, RemoveRefines

(* It takes effect here if cold held the id. *)
LEMMA RemoveMarkRefines ==
  ASSUME IndInv, NEW w \in Writers, RemoveMark(w)
  PROVE  Posting!Apply({w}) \/ UNCHANGED Posting!absVars
<1> USE NoIdAssumption DEF IndInv, TypeOK, RemoveMark, WriterStep, compactor
<1>1. Live' = Live \ {wid[w]}
  BY DEF Live, Clearing, ColdWriteLocked, CallsDistinct, RemoveTaken
<1>2. Kind' = Kind /\ wid' = wid /\ Kind[w] = "remove"
  BY DEF Kind, AddPcs, RemovePcs
<1> QED
  BY <1>1, <1>2, RemoveRefines

(* A call returns after it has taken effect. *)
LEMMA ReturnWriteRefines ==
  ASSUME IndInv, NEW w \in Writers, ReturnWrite(w)
  PROVE  Posting!Return(w)
<1> USE NoIdAssumption DEF IndInv, TypeOK, ReturnWrite, WriterStep, tiers
<1>1. Live' = Live
  BY DEF Live, Clearing, ColdWriteLocked, CallsDistinct
<1>2. Kind[w] # "none" /\ Kind' = [Kind EXCEPT ![w] = "none"]
  BY DEF Kind, AddPcs, RemovePcs
<1>3. w \in Applied /\ Applied' = Applied \ {w}
  BY <1>1 DEF Applied
<1> QED
  BY <1>1, <1>2, <1>3 DEF Posting!Return

(* The snapshots are invisible. *)
LEMMA SnapshotRefines ==
  ASSUME IndInv, SnapshotHot \/ SnapshotPend
  PROVE  UNCHANGED Posting!absVars
<1> USE DEF SnapshotHot, SnapshotPend, tiers, writer
<1>1. Live' = Live
  BY DEF Live, Clearing, ColdWriteLocked
<1> QED
  BY <1>1 DEF Kind, Applied, Posting!absVars

(* Swapping the blob in settles the removals that have left hot but have   *)
(* not marked their id yet, when the new blob was merged without it or     *)
(* will have it marked.                                                    *)
LEMMA InstallRefines ==
  ASSUME IndInv, Install
  PROVE  \E W \in SUBSET Writers : Posting!Apply(W)
<1> DEFINE W == {w \in Writers : /\ wpc[w] \in {"remCheck", "remMark"}
                                 /\ wid[w] \in Live \ Live'}
<1> USE DEF IndInv, TypeOK, Install, MergeTiers, writer
<1>1. Live' \subseteq Live
  BY DEF Live, Clearing, ColdWriteLocked
<1>2. \A i \in Live \ Live' : Removing(i)
  <2> SUFFICES ASSUME NEW i \in Live \ Live' PROVE Removing(i)
    OBVIOUS
  <2>1. i \in cold /\ i \notin hot /\ i \in hv \cup pv /\ (i \in pend => i \in Clearing)
    BY DEF Live, Clearing, ColdWriteLocked
  <2>2. i \notin Clearing
    BY <2>1 DEF Clearing, AddPlaced, SnapshotsKept
  <2> QED
    BY <2>1, <2>2 DEF SnapshotsKept
<1>3. Live' = Live \ {wid[w] : w \in W}
  BY <1>1, <1>2 DEF Removing
<1>4. Kind' = Kind /\ wid' = wid
  BY DEF Kind
<1>5. \A w \in W : Kind[w] = "remove" /\ w \notin Applied
  BY DEF Kind, AddPcs, RemovePcs, Applied
<1>6. Applied' = Applied \cup W
  BY <1>1 DEF Applied
<1>7. /\ {wid[w] : w \in {v \in W : Kind[v] = "remove"}} = {wid[w] : w \in W}
      /\ {wid[w] : w \in {v \in W : Kind[v] = "add"}} = {}
  BY <1>5
<1>8. Posting!Apply(W)
  BY <1>3, <1>4, <1>5, <1>6, <1>7 DEF Posting!Apply
<1> QED
  BY <1>8

(* So is taking the merged ids out of hot. *)
LEMMA SubtractRefines ==
  ASSUME IndInv, Subtract
  PROVE  UNCHANGED Posting!absVars
<1> USE DEF IndInv, TypeOK, Subtract, writer
<1>1. Clearing \subseteq hot
  BY DEF Clearing, AddPlaced, SnapshotsKept
<1>2. Live' = Live
  BY <1>1 DEF Live, Clearing, ColdWriteLocked, SnapshotsKept, HotPendDisjoint
<1> QED
  BY <1>2 DEF Kind, Applied, Posting!absVars

(* And so are lookups. *)
LEMMA LookupRefines ==
  ASSUME UNCHANGED <<tiers, writer, compactor>>
  PROVE  UNCHANGED Posting!absVars
<1> USE DEF tiers, writer, compactor
<1>1. Live' = Live
  BY DEF Live, Clearing, ColdWriteLocked
<1> QED
  BY <1>1 DEF Kind, Applied, Posting!absVars

(* The two-tier posting, with its unlocked merge, deferred deletions and   *)
(* concurrent lookups, implements a plain set of ids on which every call   *)
(* takes effect atomically.                                                *)
THEOREM Refinement == Spec => PostingSpec
<1>1. Init => Posting!Init
  BY DEF Init, Posting!Init, Live, Kind, Applied, AddPcs, RemovePcs
<1>2. IndInv /\ [Next]_vars => [Posting!Next]_Posting!absVars
  <2> SUFFICES ASSUME IndInv, [Next]_vars PROVE [Posting!Next]_Posting!absVars
    OBVIOUS
  <2>1. ASSUME NEW w \in Writers, WriterNext(w)
        PROVE  [Posting!Next]_Posting!absVars
    <3>1. ASSUME NEW i \in Ids, CallAdd(w, i) \/ CallRemove(w, i) PROVE Posting!Next
      BY <3>1, CallRefines DEF Posting!Next
    <3>2. CASE AddHot(w)
      BY <3>2, AddHotRefines DEF Posting!Next
    <3>3. CASE AddClearPend(w)
      BY <3>3, AddClearPendRefines
    <3>4. CASE RemoveHot(w) \/ RemoveCheckCold(w) \/ RemoveMark(w)
      BY <3>4, RemoveHotRefines, RemoveCheckColdRefines, RemoveMarkRefines DEF Posting!Next
    <3>5. CASE ReturnWrite(w)
      BY <3>5, ReturnWriteRefines DEF Posting!Next
    <3> QED
      BY <2>1, <3>1, <3>2, <3>3, <3>4, <3>5 DEF WriterNext
  <2>2. ASSUME CompactorNext
        PROVE  [Posting!Next]_Posting!absVars
    BY <2>2, SnapshotRefines, InstallRefines, SubtractRefines DEF CompactorNext, Posting!Next
  <2>3. ASSUME NEW s \in Searchers, SearcherNext(s)
        PROVE  [Posting!Next]_Posting!absVars
    BY <2>3, LookupRefines DEF SearcherNext, SearchCold, SearchHot, SearchPend, ReturnSearch
  <2>4. CASE UNCHANGED vars
    BY <2>4, LookupRefines DEF vars
  <2> QED
    BY <2>1, <2>2, <2>3, <2>4 DEF Next
<1> QED
  BY <1>1, <1>2, Invariance, PTL DEF Spec, PostingSpec, Posting!Spec
=============================================================================
