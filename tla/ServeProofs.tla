----------------------------- MODULE ServeProofs ------------------------------
(***************************************************************************)
(* Proofs about what the server keeps for its clients and answers them:    *)
(* the verdicts of the content filter (ContentFilter), for any lists,      *)
(* readers and size of the cache; the index of files (FileIndex), for any  *)
(* users, files and slots; what a connection may publish (Publishing); the *)
(* answers about a file's sources (SourceAnswers); and the line of the     *)
(* searches that wait (SearchLane).                                        *)
(***************************************************************************)
EXTENDS Serving, FiniteSetTheorems, SequenceTheorems, WellFoundedInduction, NaturalsInduction,
        TLAPS

-----------------------------------------------------------------------------
(* What the constants are: list changes are about hashes. *)
FilterBounds == Listable \subseteq FHashes /\ MaxPublishes \in Nat

Entry == [gen : 0 .. MaxPublishes, name : Names \cup {"none"}, withheld : BOOLEAN]
Pcs == {"white", "block", "poison", "layer2", "jargon", "extra", "insert"}
Call == [pc : Pcs, hash : FHashes, name : Names, gen : 0 .. MaxPublishes,
         terms : SUBSET {"age", "exempt", "jargon", "extra"}, withheld : BOOLEAN]
ListSets == [white : SUBSET FHashes, block : SUBSET FHashes, poison : SUBSET FHashes,
             layer2 : SUBSET {"age", "exempt"}, jargon : SUBSET {"jargon"},
             extra : SUBSET {"extra"}]

FilterTypes ==
  /\ lists \in ListSets
  /\ gen \in Nat /\ publishing \in {"idle", "stored", "bumped", "cleared"}
  /\ verdicts \in [FHashes -> Entry] /\ vcount \in Nat
  /\ reader \in [Readers -> Call \cup {Content!Idle}]
  /\ publishes \in 0 .. MaxPublishes

(* The generation lags the lists between the store and the bump only. *)
GenLags == gen + (IF publishing = "stored" THEN 1 ELSE 0) = publishes

(* No entry and no call is of a generation to come. *)
NoneAhead ==
  /\ \A h \in FHashes : verdicts[h].gen <= gen
  /\ \A r \in Readers : reader[r] # Content!Idle => reader[r].gen <= gen

(* What a call has got past, and the terms it has loaded, when it saw the   *)
(* lists in force all along.                                               *)
PassedHashes(c) ==
  /\ c.pc # "white" => c.hash \notin lists.white
  /\ c.pc \notin {"white", "block"} => c.hash \notin lists.block
  /\ c.pc \notin {"white", "block", "poison"} => c.hash \notin lists.poison

LoadedTerms(c) ==
  c.terms = CASE c.pc = "jargon" -> lists.layer2
              [] c.pc = "extra" -> lists.layer2 \cup lists.jargon
              [] OTHER -> {}

(* A call of this generation has seen the lists in force so far. *)
CallExact(c) ==
  c.gen = gen /\ publishing # "stored" =>
    /\ c.pc # "insert" => PassedHashes(c) /\ LoadedTerms(c)
    /\ c.pc = "insert" => (c.withheld <=> Content!Check(lists, c.hash, c.name) # "allow")

CallsExact == \A r \in Readers : reader[r] # Content!Idle => CallExact(reader[r])

FilterInv == FilterTypes /\ GenLags /\ NoneAhead /\ CallsExact /\ Content!CacheExact

-----------------------------------------------------------------------------
(* The idle call is not one under way, and the empty entry is an entry. *)
LEMMA IdleAndNoEntry ==
  ASSUME FilterBounds
  PROVE  Content!Idle \notin Call /\ Content!NoEntry \in Entry
<1>1. Content!NoEntry \in Entry BY DEF Content!NoEntry, Entry, FilterBounds
<1>2. \A c \in Call : c.pc # "idle" BY DEF Call, Pcs
<1>3. Content!Idle.pc = "idle" BY DEF Content!Idle
<1> QED BY <1>1, <1>2, <1>3

LEMMA FilterInit ==
  ASSUME FilterBounds, Content!Init
  PROVE  FilterInv
<1>1. FilterTypes
  BY IdleAndNoEntry DEF Content!Init, FilterTypes, ListSets, FilterBounds
<1>2. GenLags BY DEF Content!Init, GenLags
<1>3. NoneAhead BY DEF Content!Init, NoneAhead, Content!NoEntry
<1>4. CallsExact BY DEF Content!Init, CallsExact
<1>5. Content!CacheExact BY DEF Content!Init, Content!CacheExact, Content!NoEntry
<1> QED BY <1>1, <1>2, <1>3, <1>4, <1>5 DEF FilterInv

(* The lists change; what was computed is not served until the bump. *)
LEMMA FilterStore ==
  ASSUME FilterBounds, FilterInv, NEW l \in Content!Replaced, Content!Store(l)
  PROVE  FilterInv'
<1>1. l \in ListSets
  BY DEF Content!Replaced, Content!TermSlots, Content!Kinds, FilterInv, FilterTypes, ListSets,
         FilterBounds
<1>2. FilterTypes'
  BY <1>1 DEF Content!Store, FilterInv, FilterTypes, FilterBounds
<1>3. GenLags' BY DEF Content!Store, FilterInv, FilterTypes, GenLags
<1>4. NoneAhead' BY DEF Content!Store, FilterInv, NoneAhead
<1>5. CallsExact' BY DEF Content!Store, FilterInv, CallsExact, CallExact, PassedHashes, LoadedTerms
<1>6. Content!CacheExact' BY DEF Content!Store, Content!CacheExact
<1> QED BY <1>2, <1>3, <1>4, <1>5, <1>6 DEF FilterInv

(* The bump leaves every entry and every call behind. *)
LEMMA FilterBump ==
  ASSUME FilterBounds, FilterInv, Content!Bump
  PROVE  FilterInv'
<1>1. FilterTypes' BY DEF Content!Bump, FilterInv, FilterTypes
<1>2. GenLags' BY DEF Content!Bump, FilterInv, FilterTypes, GenLags
<1>3. /\ \A h \in FHashes : verdicts[h].gen \in Nat
      /\ \A r \in Readers : reader[r] # Content!Idle => reader[r].gen \in Nat
  BY DEF FilterInv, FilterTypes, Entry, Call
<1>4. NoneAhead' BY <1>3 DEF Content!Bump, FilterInv, FilterTypes, NoneAhead
<1>5. CallsExact'
  <2> SUFFICES ASSUME NEW r \in Readers, reader[r] # Content!Idle PROVE CallExact(reader[r])'
    BY DEF Content!Bump, CallsExact
  <2>1. reader[r].gen < gen' /\ reader[r].gen \in Nat
    BY <1>3 DEF Content!Bump, FilterInv, FilterTypes, NoneAhead
  <2>2. CallExact(reader[r]) BY DEF FilterInv, CallsExact
  <2> QED BY <2>1, <2>2 DEF CallExact, Content!Bump
<1>6. Content!CacheExact'
  BY <1>3 DEF Content!Bump, FilterInv, FilterTypes, NoneAhead, Content!CacheExact
<1> QED BY <1>1, <1>2, <1>4, <1>5, <1>6 DEF FilterInv

LEMMA FilterClear ==
  ASSUME FilterBounds, FilterInv, Content!Clear
  PROVE  FilterInv'
<1>1. FilterTypes' BY IdleAndNoEntry DEF Content!Clear, FilterInv, FilterTypes
<1>2. GenLags' BY DEF Content!Clear, FilterInv, FilterTypes, GenLags
<1>3. NoneAhead' BY DEF Content!Clear, FilterInv, FilterTypes, NoneAhead, Content!NoEntry
<1>4. CallsExact' BY DEF Content!Clear, FilterInv, CallsExact, CallExact, PassedHashes, LoadedTerms
<1>5. Content!CacheExact' BY DEF Content!Clear, Content!CacheExact, Content!NoEntry
<1> QED BY <1>1, <1>2, <1>3, <1>4, <1>5 DEF FilterInv

LEMMA FilterZero ==
  ASSUME FilterBounds, FilterInv, Content!Zero
  PROVE  FilterInv'
<1>1. FilterTypes' BY DEF Content!Zero, FilterInv, FilterTypes
<1>2. GenLags' BY DEF Content!Zero, FilterInv, FilterTypes, GenLags
<1>3. NoneAhead' BY DEF Content!Zero, FilterInv, FilterTypes, NoneAhead
<1>4. CallsExact' BY DEF Content!Zero, FilterInv, CallsExact, CallExact, PassedHashes, LoadedTerms
<1>5. Content!CacheExact' BY DEF Content!Zero, FilterInv, Content!CacheExact
<1> QED BY <1>1, <1>2, <1>3, <1>4, <1>5 DEF FilterInv

-----------------------------------------------------------------------------
(* A call's step is its own: the other calls and the cache stay as they are. *)
LEMMA ReaderStep ==
  ASSUME FilterBounds, FilterInv, NEW r \in Readers, NEW c \in Call,
         reader' = [reader EXCEPT ![r] = c], c.gen <= gen, CallExact(c),
         UNCHANGED <<lists, gen, publishing, verdicts, vcount, publishes>>
  PROVE  FilterInv'
<1>1. FilterTypes' BY DEF FilterInv, FilterTypes
<1>2. GenLags' BY DEF FilterInv, GenLags
<1>3. NoneAhead' BY DEF FilterInv, FilterTypes, NoneAhead
<1>4. CallsExact'
  <2> SUFFICES ASSUME NEW q \in Readers, reader'[q] # Content!Idle PROVE CallExact(reader[q])'
    BY DEF CallsExact
  <2>1. \/ reader'[q] = c
        \/ reader'[q] = reader[q] /\ CallExact(reader[q])
    BY DEF FilterInv, FilterTypes, CallsExact
  <2> QED BY <2>1 DEF CallExact, PassedHashes, LoadedTerms
<1>5. Content!CacheExact' BY DEF FilterInv, Content!CacheExact
<1> QED BY <1>1, <1>2, <1>3, <1>4, <1>5 DEF FilterInv

(* A call under way is a record of its own. *)
LEMMA UnderWay ==
  ASSUME FilterBounds, FilterInv, NEW r \in Readers, reader[r].pc # "idle"
  PROVE  /\ reader[r] \in Call /\ reader[r].gen <= gen /\ CallExact(reader[r])
         /\ reader[r] # Content!Idle
<1>1. reader[r] # Content!Idle BY DEF Content!Idle
<1> QED BY <1>1 DEF FilterInv, FilterTypes, NoneAhead, CallsExact

LEMMA FilterAsk ==
  ASSUME FilterBounds, FilterInv, NEW r \in Readers, NEW h \in FHashes, NEW n \in Names,
         Content!Ask(r, h, n)
  PROVE  FilterInv'
<1> DEFINE c == [pc |-> "white", hash |-> h, name |-> n, gen |-> gen, terms |-> {},
                  withheld |-> FALSE]
<1>1. gen \in 0 .. MaxPublishes
  BY DEF FilterInv, FilterTypes, GenLags, FilterBounds
<1>2. c \in Call /\ c.gen <= gen /\ CallExact(c) BY <1>1 DEF Call, Pcs, CallExact, PassedHashes, LoadedTerms
<1>3. /\ reader' = [reader EXCEPT ![r] = c]
      /\ UNCHANGED <<lists, gen, publishing, verdicts, vcount, publishes>>
  BY DEF Content!Ask
<1> HIDE DEF c
<1> QED BY <1>2, <1>3, ReaderStep

(* A listed hash ends the call: so says Check. *)
LEMMA FilterLoadHashes ==
  ASSUME FilterBounds, FilterInv, NEW r \in Readers, Content!LoadHashes(r)
  PROVE  FilterInv'
<1> DEFINE x == reader[r]
           here == x.hash \in lists[x.pc]
           c == [x EXCEPT !.pc = IF here THEN "insert" ELSE Content!After[x.pc],
                          !.withheld = here /\ x.pc # "white"]
<1>1. x.pc \in {"white", "block", "poison"} BY DEF Content!LoadHashes, Content!HashSlots
<1>2. x \in Call /\ x.gen <= gen /\ CallExact(x) BY <1>1, UnderWay
<1>3. /\ reader' = [reader EXCEPT ![r] = c]
      /\ UNCHANGED <<lists, gen, publishing, verdicts, vcount, publishes>>
  BY DEF Content!LoadHashes, FilterInv, FilterTypes
<1>4. Content!After[x.pc] = CASE x.pc = "white" -> "block" [] x.pc = "block" -> "poison"
                              [] x.pc = "poison" -> "layer2"
  BY <1>1 DEF Content!After
<1>5. here \in BOOLEAN OBVIOUS
<1>6. here <=> \/ x.pc = "white" /\ x.hash \in lists.white
               \/ x.pc = "block" /\ x.hash \in lists.block
               \/ x.pc = "poison" /\ x.hash \in lists.poison
  BY <1>1
<1> HIDE DEF here
<1>7. c \in Call /\ c.gen <= gen BY <1>1, <1>2, <1>4, <1>5 DEF Call, Pcs
<1>8. /\ c.pc = (IF here THEN "insert" ELSE Content!After[x.pc])
      /\ c.withheld = (here /\ x.pc # "white")
      /\ c.hash = x.hash /\ c.name = x.name /\ c.gen = x.gen /\ c.terms = x.terms
  BY <1>2 DEF Call
<1> HIDE DEF c
<1>9. CallExact(c)
  <2> SUFFICES ASSUME c.gen = gen, publishing # "stored"
               PROVE  /\ c.pc # "insert" => PassedHashes(c) /\ LoadedTerms(c)
                      /\ c.pc = "insert" =>
                           (c.withheld <=> Content!Check(lists, c.hash, c.name) # "allow")
    BY DEF CallExact
  <2>1. PassedHashes(x) /\ LoadedTerms(x) BY <1>1, <1>2, <1>8 DEF CallExact
  <2>2. CASE here
    <3>1. Content!Check(lists, x.hash, x.name) # "allow" <=> x.pc # "white"
      BY <1>1, <1>6, <2>1, <2>2 DEF Content!Check, PassedHashes
    <3>2. c.pc = "insert" BY <1>8, <2>2
    <3> QED BY <1>8, <2>2, <3>1, <3>2
  <2>3. CASE ~here
    <3>1. c.pc = Content!After[x.pc] BY <1>8, <2>3
    <3>2. PassedHashes(c) BY <1>1, <1>4, <1>6, <1>8, <2>1, <2>3, <3>1 DEF PassedHashes
    <3>3. LoadedTerms(c) BY <1>1, <1>4, <1>8, <2>1, <3>1 DEF LoadedTerms
    <3>4. c.pc # "insert" BY <1>1, <1>4, <3>1
    <3> QED BY <3>2, <3>3, <3>4
  <2> QED BY <2>2, <2>3
<1> QED BY <1>3, <1>7, <1>9, ReaderStep

(* After the last list the verdict is that of the terms of all of them. *)
LEMMA FilterLoadTerms ==
  ASSUME FilterBounds, FilterInv, NEW r \in Readers, Content!LoadTerms(r)
  PROVE  FilterInv'
<1> DEFINE x == reader[r]
           loaded == x.terms \cup lists[x.pc]
           w == Content!TermLayer(loaded, x.name) # "allow"
           c == [x EXCEPT !.pc = Content!After[x.pc], !.terms = loaded, !.withheld = w]
<1>1. x.pc \in {"layer2", "jargon", "extra"} BY DEF Content!LoadTerms, Content!TermSlots
<1>2. x \in Call /\ x.gen <= gen /\ CallExact(x) BY <1>1, UnderWay
<1>3. /\ reader' = [reader EXCEPT ![r] = c]
      /\ UNCHANGED <<lists, gen, publishing, verdicts, vcount, publishes>>
  BY DEF Content!LoadTerms, FilterInv, FilterTypes
<1>4. Content!After[x.pc] = CASE x.pc = "layer2" -> "jargon" [] x.pc = "jargon" -> "extra"
                              [] x.pc = "extra" -> "insert"
  BY <1>1 DEF Content!After
<1>5. loaded = x.terms \cup (CASE x.pc = "layer2" -> lists.layer2
                               [] x.pc = "jargon" -> lists.jargon
                               [] x.pc = "extra" -> lists.extra)
  BY <1>1
<1>6. lists \in ListSets BY DEF FilterInv, FilterTypes
<1>7. loaded \in SUBSET {"age", "exempt", "jargon", "extra"}
  BY <1>1, <1>2, <1>5, <1>6 DEF Call, ListSets
<1>8. w \in BOOLEAN OBVIOUS
<1>9. x.pc = "extra" /\ PassedHashes(x) /\ LoadedTerms(x) =>
        (w <=> Content!Check(lists, x.hash, x.name) # "allow")
  <2> SUFFICES ASSUME x.pc = "extra", PassedHashes(x), LoadedTerms(x)
               PROVE  w <=> Content!Check(lists, x.hash, x.name) # "allow"
    OBVIOUS
  <2>1. loaded = Content!TermsOf(lists) BY <1>5 DEF LoadedTerms, Content!TermsOf
  <2>2. x.hash \notin lists.white \cup lists.block \cup lists.poison BY DEF PassedHashes
  <2> QED BY <2>1, <2>2 DEF Content!Check
<1> HIDE DEF w, loaded
<1>10. c \in Call /\ c.gen <= gen BY <1>1, <1>2, <1>4, <1>7, <1>8 DEF Call, Pcs
<1>11. /\ c.pc = Content!After[x.pc] /\ c.withheld = w /\ c.terms = loaded
       /\ c.hash = x.hash /\ c.name = x.name /\ c.gen = x.gen
  BY <1>2 DEF Call
<1> HIDE DEF c
<1>12. CallExact(c)
  <2> SUFFICES ASSUME c.gen = gen, publishing # "stored"
               PROVE  /\ c.pc # "insert" => PassedHashes(c) /\ LoadedTerms(c)
                      /\ c.pc = "insert" =>
                           (c.withheld <=> Content!Check(lists, c.hash, c.name) # "allow")
    BY DEF CallExact
  <2>1. PassedHashes(x) /\ LoadedTerms(x) BY <1>1, <1>2, <1>11 DEF CallExact
  <2>2. PassedHashes(c) BY <1>1, <1>11, <2>1 DEF PassedHashes
  <2>3. c.pc # "insert" => LoadedTerms(c)
    BY <1>1, <1>4, <1>5, <1>11, <2>1 DEF LoadedTerms
  <2>4. c.pc = "insert" <=> x.pc = "extra" BY <1>1, <1>4, <1>11
  <2>5. c.pc = "insert" => (c.withheld <=> Content!Check(lists, c.hash, c.name) # "allow")
    BY <1>9, <1>11, <2>1, <2>4
  <2> QED BY <2>2, <2>3, <2>5
<1> QED BY <1>3, <1>10, <1>12, ReaderStep

(* A verdict goes into the cache, which may be emptied for it. *)
LEMMA FilterInsert ==
  ASSUME FilterBounds, FilterInv, NEW r \in Readers, Content!Insert(r)
  PROVE  FilterInv'
<1> DEFINE x == reader[r]
           old == IF vcount >= CacheMax THEN [h \in FHashes |-> Content!NoEntry] ELSE verdicts
           e == [gen |-> x.gen, name |-> x.name, withheld |-> x.withheld]
<1>1. x \in Call /\ x.gen <= gen /\ CallExact(x) /\ x.pc = "insert"
  BY UnderWay DEF Content!Insert
<1>2. /\ verdicts' = [old EXCEPT ![x.hash] = e]
      /\ reader' = [reader EXCEPT ![r] = Content!Idle]
      /\ UNCHANGED <<lists, gen, publishing, publishes>>
  BY DEF Content!Insert
<1>3. old \in [FHashes -> Entry]
  BY IdleAndNoEntry DEF FilterInv, FilterTypes
<1>4. e \in Entry /\ x.hash \in FHashes /\ e.gen <= gen
  BY <1>1 DEF Call, Entry
<1>5. \A h \in FHashes : verdicts'[h] = IF h = x.hash THEN e ELSE old[h] BY <1>2, <1>3
<1>6. \A h \in FHashes : old[h] = Content!NoEntry \/ old[h] = verdicts[h]
  BY DEF FilterInv, FilterTypes
<1>7. FilterTypes'
  <2>1. vcount' \in Nat BY DEF Content!Insert, FilterInv, FilterTypes
  <2>2. verdicts' \in [FHashes -> Entry] BY <1>2, <1>3, <1>4
  <2>3. reader' \in [Readers -> Call \cup {Content!Idle}]
    BY <1>2 DEF FilterInv, FilterTypes
  <2> QED BY <1>2, <2>1, <2>2, <2>3 DEF FilterInv, FilterTypes
<1>8. GenLags' BY <1>2 DEF FilterInv, GenLags
<1>9. NoneAhead'
  <2>1. Content!NoEntry.gen <= gen BY DEF Content!NoEntry, FilterInv, FilterTypes
  <2>2. \A h \in FHashes : verdicts'[h].gen <= gen
    BY <1>4, <1>5, <1>6, <2>1 DEF FilterInv, NoneAhead
  <2>3. \A q \in Readers : reader'[q] # Content!Idle => reader'[q].gen <= gen
    BY <1>2 DEF FilterInv, FilterTypes, NoneAhead
  <2> QED BY <1>2, <2>2, <2>3 DEF NoneAhead
<1>10. CallsExact'
  <2> SUFFICES ASSUME NEW q \in Readers, reader'[q] # Content!Idle PROVE CallExact(reader[q])'
    BY DEF CallsExact
  <2>1. reader'[q] = reader[q] /\ CallExact(reader[q])
    BY <1>2 DEF FilterInv, FilterTypes, CallsExact
  <2> QED BY <1>2, <2>1 DEF CallExact, PassedHashes, LoadedTerms
<1>11. Content!CacheExact'
  <2> SUFFICES ASSUME publishing # "stored", NEW h \in FHashes,
                      verdicts'[h].name # "none", verdicts'[h].gen = gen
               PROVE  verdicts'[h].withheld <=> Content!Check(lists, h, verdicts'[h].name) # "allow"
    BY <1>2 DEF Content!CacheExact
  <2>1. CASE h = x.hash BY <1>1, <1>5, <2>1 DEF CallExact
  <2>2. CASE h # x.hash
    <3>1. verdicts'[h] = old[h] BY <1>5, <2>2
    <3>2. old[h] # Content!NoEntry BY <3>1 DEF Content!NoEntry
    <3>3. verdicts'[h] = verdicts[h] BY <1>6, <3>1, <3>2
    <3> QED BY <3>3 DEF FilterInv, Content!CacheExact
  <2> QED BY <2>1, <2>2
<1> QED BY <1>7, <1>8, <1>9, <1>10, <1>11 DEF FilterInv

-----------------------------------------------------------------------------
(* Every step keeps the invariant. *)
LEMMA FilterStep ==
  ASSUME FilterBounds, FilterInv, (Content!Next \/ UNCHANGED Content!vars)
  PROVE  FilterInv'
<1>1. ASSUME NEW l \in Content!Replaced, Content!Store(l) PROVE FilterInv' BY <1>1, FilterStore
<1>2. CASE Content!Bump BY <1>2, FilterBump
<1>3. CASE Content!Clear BY <1>3, FilterClear
<1>4. CASE Content!Zero BY <1>4, FilterZero
<1>5. ASSUME NEW r \in Readers, NEW h \in FHashes, NEW n \in Names, Content!Ask(r, h, n)
      PROVE  FilterInv'
  BY <1>5, FilterAsk
<1>6. ASSUME NEW r \in Readers, Content!LoadHashes(r) PROVE FilterInv'
  BY <1>6, FilterLoadHashes
<1>7. ASSUME NEW r \in Readers, Content!LoadTerms(r) PROVE FilterInv' BY <1>7, FilterLoadTerms
<1>8. ASSUME NEW r \in Readers, Content!Insert(r) PROVE FilterInv' BY <1>8, FilterInsert
<1>9. CASE UNCHANGED Content!vars
  BY <1>9 DEF FilterInv, FilterTypes, GenLags, NoneAhead, CallsExact, CallExact,
              PassedHashes, LoadedTerms, Content!CacheExact, Content!vars
<1> QED BY <1>1, <1>2, <1>3, <1>4, <1>5, <1>6, <1>7, <1>8, <1>9 DEF Content!Next

(* A listed hash is refused with a name as it is without one. *)
LEMMA ListedAlways == Content!ListedWithheld
BY DEF Content!ListedWithheld, Content!HashIsListed, Content!Check

LEMMA FilterImplies ==
  ASSUME FilterBounds, FilterInv
  PROVE  FilterExact
<1>1. gen \in 0 .. MaxPublishes BY DEF FilterInv, FilterTypes, GenLags, FilterBounds
<1>2. \A h \in FHashes : verdicts[h].name \in Names \cup {"none"} /\ verdicts[h].gen \in 0 .. gen
  BY <1>1 DEF FilterInv, FilterTypes, NoneAhead, Entry
<1>3. \A r \in Readers :
        reader[r].pc \in {"idle", "insert"} \cup Content!HashSlots \cup Content!TermSlots
  BY DEF FilterInv, FilterTypes, Call, Pcs, Content!Idle, Content!HashSlots, Content!TermSlots
<1>4. Content!TypeOK
  BY <1>1, <1>2, <1>3 DEF FilterInv, FilterTypes, ListSets, Content!TypeOK, Content!Kinds
<1> QED BY <1>4, ListedAlways DEF FilterInv, FilterExact, Content!FilterExact

(* is_withheld never serves a verdict of lists that are no longer in force,  *)
(* however many readers computed while publish stored, bumped and cleared;   *)
(* hash_is_listed and check agree on every listed hash.                      *)
THEOREM VerdictsInForce ==
  ASSUME FilterBounds
  PROVE  Content!Spec => []FilterExact
<1>1. Content!Init => FilterInv BY FilterInit
<1>2. FilterInv /\ (Content!Next \/ UNCHANGED Content!vars) => FilterInv' BY FilterStep
<1>3. FilterInv => FilterExact BY FilterImplies
<1> QED BY <1>1, <1>2, <1>3, PTL DEF Content!Spec

-----------------------------------------------------------------------------
(* What the constants are.  An index check that outlasts the quarantine     *)
(* (SlowCheck) may purge another file than the one it checked.              *)
FileBounds ==
  /\ NoHash \notin IndexHashes /\ NoSize \notin IndexSizes /\ NoId \notin SlabIds
  /\ Janitors \subseteq {"sweep", "purge"} /\ ("purge" \in Janitors => ~SlowCheck)

-----------------------------------------------------------------------------
(* A slot that is quarantined is not free yet. *)
SlabSound == quar \cap (fresh \cup aged) = {}

(* A hash has one live record. *)
OneRecord == \A i, k \in SlabIds : hash[i] = hash[k] /\ Index!Alive(i) => i = k

(* A slot a task refers to still has the record it had, or none. *)
StillHas(i, h) == i \in SlabIds /\ h \in IndexHashes /\ (hash[i] = h \/ i \in quar)

(* What a user's call refers to. *)
CallRefers(u) ==
  /\ upc[u] = "merge" => uid[u] \in SlabIds /\ uhash[u] \in IndexHashes /\ usize[u] \in IndexSizes
  /\ upc[u] = "refresh" => uid[u] \in SlabIds /\ usize[u] \in IndexSizes /\ StillHas(mid[u], uhash[u])
  /\ upc[u] = "keyword" => StillHas(uid[u], uhash[u])
  /\ upc[u] = "reverse" => uid[u] \in SlabIds
  /\ upc[u] = "evict" => uid[u] \in SlabIds
  /\ upc[u] = "unindex" => uid[u] \in quar /\ uhash[u] \in IndexHashes

CallsRefer == \A u \in Users : CallRefers(u)

(* What a janitor refers to. *)
JanitorRefers(j) ==
  /\ \A p \in list[j] : StillHas(p[1], p[2])
  /\ jpc[j] \in {"idle", "users"} => list[j] = {}
  /\ j = "purge" => list[j] \subseteq evicted[j]
  /\ jpc[j] = "unindex" =>
       jid[j] \in quar /\ jhash[j] \in IndexHashes /\ <<jid[j], jhash[j]>> \in evicted[j]

JanitorsRefer == \A j \in Janitors : JanitorRefers(j)

(* Whatever is alive is indexed, or about to be. *)
AllIndexed == \A i \in SlabIds : Index!Alive(i) => <<i, hash[i]>> \in kw \/ Index!Indexing(i)

(* A user who leaves shares nothing, and what the others share has them as a *)
(* source.                                                                   *)
Leaving == {"leave", "evict", "unindex"}
LeftNothing == \A u \in Users : upc[u] \in Leaving => shares[u] = {}
SharedHeld == \A u \in Users : \A h \in shares[u] : \E i \in SlabIds : hash[i] = h /\ u \in srcs[i]

FileInv ==
  /\ Index!TypeOK /\ SlabSound /\ OneRecord /\ CallsRefer /\ JanitorsRefer
  /\ AllIndexed /\ LeftNothing /\ SharedHeld /\ Index!NoLastingOrphan

(* While nothing is purged, who indexes a new file is a source of it, and   *)
(* what has a source is not evicted.                                        *)
KeywordHeld == \A u \in Users : upc[u] = "keyword" => u \in srcs[uid[u]]
DeadBare == \A i \in SlabIds : ~Index!Alive(i) => srcs[i] = {}
Precise == KeywordHeld /\ DeadBare /\ Index!PostingsPrecise
PurgeIdle == "purge" \in Janitors => jpc["purge"] = "idle"

-----------------------------------------------------------------------------
(* The index is empty at the start. *)
LEMMA FileInit ==
  ASSUME FileBounds, Index!Init
  PROVE  FileInv /\ Precise
<1>1. Index!TypeOK BY DEF Index!Init, Index!TypeOK, Index!UserPcs, Index!JanitorPcs
<1>2. SlabSound /\ OneRecord /\ AllIndexed /\ Index!NoLastingOrphan
  BY DEF Index!Init, SlabSound, OneRecord, AllIndexed, Index!NoLastingOrphan, Index!Alive,
         Index!Sourceless
<1>3. CallsRefer BY DEF Index!Init, CallsRefer, CallRefers
<1>4. JanitorsRefer BY DEF Index!Init, JanitorsRefer, JanitorRefers
<1>5. LeftNothing /\ SharedHeld BY DEF Index!Init, LeftNothing, SharedHeld, Leaving
<1>6. Precise BY DEF Index!Init, Precise, KeywordHeld, DeadBare, Index!PostingsPrecise
<1> QED BY <1>1, <1>2, <1>3, <1>4, <1>5, <1>6 DEF FileInv

-----------------------------------------------------------------------------
(* No slot gets another record while it is quarantined.                      *)
SlabKeeps ==
  /\ quar \subseteq quar'
  /\ \A i \in SlabIds : hash'[i] = hash[i] \/ hash[i] = NoHash \/ i \in quar'

SameCall(v) ==
  /\ upc'[v] = upc[v] /\ uid'[v] = uid[v] /\ uhash'[v] = uhash[v]
  /\ usize'[v] = usize[v] /\ mid'[v] = mid[v]

(* What a call or a janitor refers to stays, when the slab keeps it. *)
LEMMA HasKept ==
  ASSUME FileBounds, SlabKeeps, NEW i, NEW h, StillHas(i, h)
  PROVE  StillHas(i, h)'
BY DEF FileBounds, SlabKeeps, StillHas

(* What a call refers to stays. *)
LEMMA CallKept ==
  ASSUME FileBounds, SlabKeeps, NEW v \in Users, CallRefers(v), SameCall(v)
  PROVE  CallRefers(v)'
BY HasKept DEF CallRefers, SameCall, SlabKeeps

(* What a resting janitor refers to stays. *)
LEMMA JanitorKept ==
  ASSUME FileBounds, SlabKeeps, NEW j \in Janitors, JanitorRefers(j),
         UNCHANGED Index!janitor
  PROVE  JanitorRefers(j)'
BY HasKept DEF JanitorRefers, SlabKeeps, Index!janitor

(* A step of a call that changes neither records nor postings.              *)
LEMMA CallStep ==
  ASSUME FileBounds, FileInv, NEW u \in Users, Index!TypeOK', CallRefers(u)',
         UNCHANGED <<Index!slab, kw, Index!janitor, shares>>,
         \A v \in Users \ {u} : SameCall(v),
         upc[u] # "keyword", upc[u] = "evict" => ~Index!Sourceless(uid[u]),
         upc'[u] \in Leaving => upc[u] \in Leaving
  PROVE  FileInv'
<1>1. SlabKeeps BY DEF SlabKeeps, Index!slab
<1>2. SlabSound' /\ OneRecord' BY DEF FileInv, SlabSound, OneRecord, Index!Alive, Index!slab
<1>3. CallsRefer' BY <1>1, CallKept DEF FileInv, CallsRefer
<1>4. JanitorsRefer' BY <1>1, JanitorKept DEF FileInv, JanitorsRefer
<1>5. AllIndexed'
  <2>1. \A i \in SlabIds : Index!Indexing(i) => Index!Indexing(i)' BY DEF Index!Indexing, SameCall
  <2> QED BY <2>1 DEF FileInv, AllIndexed, Index!Alive, Index!slab
<1>6. LeftNothing' BY DEF FileInv, LeftNothing, SameCall
<1>7. SharedHeld' BY DEF FileInv, SharedHeld, Index!slab
<1>8. Index!NoLastingOrphan'
  <2>1. \A i \in SlabIds : (Index!Sourceless(i) <=> Index!Sourceless(i)')
    BY DEF Index!Sourceless, Index!Alive, Index!slab
  <2> QED BY <2>1 DEF FileInv, Index!NoLastingOrphan, SameCall
<1> QED BY <1>2, <1>3, <1>4, <1>5, <1>6, <1>7, <1>8 DEF FileInv

(* The steps of a publish that change no record. *)
LEMMA FileKnown ==
  ASSUME FileBounds, FileInv, NEW u \in Users,
         NEW h \in IndexHashes, NEW s \in IndexSizes, NEW i \in SlabIds,
         Index!PublishKnown(u, h, s, i)
  PROVE  FileInv'
<1>1. Index!TypeOK'
  BY DEF FileInv, Index!TypeOK, Index!PublishKnown, Index!UserGoto, Index!UserPcs, Index!slab,
         Index!janitor
<1>2. /\ upc[u] = "idle" /\ upc'[u] = "merge" /\ uid'[u] = i /\ uhash'[u] = h /\ usize'[u] = s
      /\ UNCHANGED <<Index!slab, kw, Index!janitor, shares>> /\ \A v \in Users \ {u} : SameCall(v)
  BY DEF FileInv, Index!TypeOK, Index!PublishKnown, Index!UserGoto, SameCall
<1>3. CallRefers(u)' BY <1>2 DEF CallRefers
<1> QED BY <1>1, <1>2, <1>3, CallStep DEF Leaving

(* The record looked up again may be another one; it has the hash. *)
LEMMA FileLooksAgain ==
  ASSUME FileBounds, FileInv, NEW u \in Users, NEW i \in SlabIds, Index!LookAgain(u, i)
  PROVE  FileInv'
<1>1. Index!TypeOK'
  BY DEF FileInv, Index!TypeOK, Index!LookAgain, Index!UserGoto, Index!UserPcs, Index!slab,
         Index!janitor
<1>2. /\ upc[u] = "merge" /\ upc'[u] = "refresh" /\ mid'[u] = i /\ hash[i] = uhash[u]
      /\ uid'[u] = uid[u] /\ uhash'[u] = uhash[u] /\ usize'[u] = usize[u]
      /\ UNCHANGED <<Index!slab, kw, Index!janitor, shares>> /\ \A v \in Users \ {u} : SameCall(v)
  BY DEF FileInv, Index!TypeOK, Index!LookAgain, Index!UserGoto, SameCall, Index!Found
<1>3. CallRefers(u)' BY <1>2 DEF CallRefers, FileInv, CallsRefer, StillHas, Index!slab
<1> QED BY <1>1, <1>2, <1>3, CallStep DEF Leaving

(* A call that ends without having done anything. *)
LEMMA FileIdles ==
  ASSUME FileBounds, FileInv, NEW u \in Users, NEW from \in {"merge", "refresh", "reverse", "leave"},
         Index!UserIdle(u, from), UNCHANGED <<Index!slab, kw, mine, Index!janitor, shares>>,
         userFiles' \in [Users -> SUBSET SlabIds]
  PROVE  FileInv'
<1>1. Index!TypeOK'
  BY DEF FileInv, Index!TypeOK, Index!UserIdle, Index!UserGoto, Index!UserPcs, Index!slab,
         Index!janitor
<1>2. /\ upc[u] = from /\ upc'[u] = "idle" /\ \A v \in Users \ {u} : SameCall(v)
  BY DEF FileInv, Index!TypeOK, Index!UserIdle, Index!UserGoto, SameCall
<1>3. CallRefers(u)' BY <1>2 DEF CallRefers
<1> QED BY <1>1, <1>2, <1>3, CallStep DEF Leaving

(* Calls that end: refused, unknown, or the last step of a publish or a departure. *)
LEMMA FileCallEnds ==
  ASSUME FileBounds, FileInv, NEW u \in Users,
         Index!MergeUnknown(u) \/ Index!MergeRefused(u) \/ Index!AddReverse(u) \/ Index!LeaveDone(u)
  PROVE  FileInv'
<1>1. CASE Index!MergeUnknown(u) \/ Index!MergeRefused(u) \/ Index!LeaveDone(u)
  BY <1>1, FileIdles DEF Index!MergeUnknown, Index!MergeRefused, Index!LeaveDone, FileInv, Index!TypeOK
<1>2. CASE Index!AddReverse(u)
  <2>1. uid[u] \in SlabIds
    BY <1>2 DEF Index!AddReverse, Index!UserIdle, Index!UserGoto, FileInv, CallsRefer, CallRefers
  <2>2. userFiles' \in [Users -> SUBSET SlabIds]
    BY <1>2, <2>1 DEF Index!AddReverse, FileInv, Index!TypeOK
  <2> QED BY <1>2, <2>2, FileIdles DEF Index!AddReverse
<1> QED BY <1>1, <1>2

(* An orphan that got a source since is spared. *)
LEMMA FileSpared ==
  ASSUME FileBounds, FileInv, NEW u \in Users, Index!EvictSpared(u)
  PROVE  FileInv'
<1>1. Index!TypeOK'
  BY DEF FileInv, Index!TypeOK, Index!EvictSpared, Index!UserGoto, Index!UserPcs, Index!slab,
         Index!janitor
<1>2. /\ upc[u] = "evict" /\ upc'[u] = "leave" /\ ~Index!Sourceless(uid[u])
      /\ UNCHANGED <<Index!slab, kw, Index!janitor, shares>> /\ \A v \in Users \ {u} : SameCall(v)
  BY DEF FileInv, Index!TypeOK, Index!EvictSpared, Index!UserGoto, SameCall
<1>3. CallRefers(u)' BY <1>2 DEF CallRefers
<1> QED BY <1>1, <1>2, <1>3, CallStep DEF Leaving
-----------------------------------------------------------------------------
(* Postings come and go. *)
LEMMA FileIndexed ==
  ASSUME FileBounds, FileInv, NEW u \in Users, Index!AddKeywords(u)
  PROVE  FileInv'
<1>1. StillHas(uid[u], uhash[u])
  BY DEF FileInv, CallsRefer, CallRefers, Index!AddKeywords, Index!UserGoto
<1>2. Index!TypeOK'
  BY <1>1 DEF FileInv, Index!TypeOK, Index!AddKeywords, Index!UserGoto, Index!UserPcs, Index!slab,
              Index!janitor, StillHas
<1>3. /\ upc[u] = "keyword" /\ upc'[u] = "reverse" /\ kw' = kw \cup {<<uid[u], uhash[u]>>}
      /\ uid'[u] = uid[u] /\ UNCHANGED <<Index!slab, Index!janitor, shares>>
      /\ \A v \in Users \ {u} : SameCall(v)
  BY DEF FileInv, Index!TypeOK, Index!AddKeywords, Index!UserGoto, SameCall
<1>4. SlabKeeps BY <1>3 DEF SlabKeeps, Index!slab
<1>5. SlabSound' /\ OneRecord' BY <1>3 DEF FileInv, SlabSound, OneRecord, Index!Alive, Index!slab
<1>6. CallRefers(u)' BY <1>1, <1>3 DEF CallRefers, StillHas
<1>7. CallsRefer' BY <1>3, <1>4, <1>6, CallKept DEF FileInv, CallsRefer
<1>8. JanitorsRefer' BY <1>3, <1>4, JanitorKept DEF FileInv, JanitorsRefer
<1>9. AllIndexed'
  <2> SUFFICES ASSUME NEW i \in SlabIds, Index!Alive(i)'
               PROVE  (<<i, hash[i]>> \in kw \/ Index!Indexing(i))'
    BY DEF AllIndexed
  <2>1. Index!Alive(i) /\ hash'[i] = hash[i] BY <1>3 DEF Index!Alive, Index!slab
  <2>2. CASE uid[u] = i
    <3>1. i \notin quar BY <2>1 DEF FileInv, Index!TypeOK, Index!Alive
    <3>2. hash[i] = uhash[u] BY <1>1, <2>2, <3>1 DEF StillHas
    <3> QED BY <1>3, <2>1, <2>2, <3>2
  <2>3. CASE uid[u] # i
    BY <1>3, <2>1, <2>3 DEF FileInv, AllIndexed, Index!Indexing, SameCall
  <2> QED BY <2>2, <2>3
<1>10. LeftNothing' BY <1>3 DEF FileInv, LeftNothing, SameCall, Leaving
<1>11. SharedHeld' BY <1>3 DEF FileInv, SharedHeld, Index!slab
<1>12. Index!NoLastingOrphan'
  <2>1. \A i \in SlabIds : (Index!Sourceless(i) <=> Index!Sourceless(i)')
    BY <1>3 DEF Index!Sourceless, Index!Alive, Index!slab
  <2> QED BY <1>3, <2>1 DEF FileInv, Index!NoLastingOrphan, SameCall
<1> QED BY <1>2, <1>5, <1>7, <1>8, <1>9, <1>10, <1>11, <1>12 DEF FileInv

(* The postings taken out are those of a record that is gone. *)
LEMMA UnindexedStill ==
  ASSUME FileInv, NEW k \in quar, NEW h, kw' = kw \ {<<k, h>>}, UNCHANGED Index!slab,
         \A i \in SlabIds : Index!Indexing(i) => Index!Indexing(i)'
  PROVE  AllIndexed'
<1> SUFFICES ASSUME NEW i \in SlabIds, Index!Alive(i)'
             PROVE  (<<i, hash[i]>> \in kw \/ Index!Indexing(i))'
  BY DEF AllIndexed
<1>1. Index!Alive(i) /\ hash'[i] = hash[i] BY DEF Index!Alive, Index!slab
<1>2. i # k BY <1>1 DEF FileInv, Index!TypeOK, Index!Alive
<1> QED BY <1>1, <1>2 DEF FileInv, AllIndexed

(* A departure takes out the postings of what it evicted. *)
LEMMA FileUnindexed ==
  ASSUME FileBounds, FileInv, NEW u \in Users, Index!RemoveKeywords(u)
  PROVE  FileInv'
<1>1. Index!TypeOK'
  BY DEF FileInv, Index!TypeOK, Index!RemoveKeywords, Index!UserGoto, Index!UserPcs, Index!slab,
         Index!janitor
<1>2. /\ upc[u] = "unindex" /\ upc'[u] = "leave" /\ kw' = kw \ {<<uid[u], uhash[u]>>}
      /\ UNCHANGED <<Index!slab, Index!janitor, shares>> /\ \A v \in Users \ {u} : SameCall(v)
  BY DEF FileInv, Index!TypeOK, Index!RemoveKeywords, Index!UserGoto, SameCall
<1>3. uid[u] \in quar BY <1>2 DEF FileInv, CallsRefer, CallRefers
<1>4. SlabKeeps BY <1>2 DEF SlabKeeps, Index!slab
<1>5. SlabSound' /\ OneRecord' BY <1>2 DEF FileInv, SlabSound, OneRecord, Index!Alive, Index!slab
<1>6. CallRefers(u)' BY <1>2 DEF CallRefers
<1>7. CallsRefer' BY <1>2, <1>4, <1>6, CallKept DEF FileInv, CallsRefer
<1>8. JanitorsRefer' BY <1>2, <1>4, JanitorKept DEF FileInv, JanitorsRefer
<1>9. AllIndexed'
  <2>1. \A i \in SlabIds : Index!Indexing(i) => Index!Indexing(i)' BY <1>2 DEF Index!Indexing, SameCall
  <2> QED BY <1>2, <1>3, <2>1, UnindexedStill
<1>10. LeftNothing' BY <1>2 DEF FileInv, LeftNothing, SameCall, Leaving
<1>11. SharedHeld' BY <1>2 DEF FileInv, SharedHeld, Index!slab
<1>12. Index!NoLastingOrphan'
  <2>1. \A i \in SlabIds : (Index!Sourceless(i) <=> Index!Sourceless(i)')
    BY <1>2 DEF Index!Sourceless, Index!Alive, Index!slab
  <2> QED BY <1>2, <2>1 DEF FileInv, Index!NoLastingOrphan, SameCall
<1> QED BY <1>1, <1>5, <1>7, <1>8, <1>9, <1>10, <1>11, <1>12 DEF FileInv

-----------------------------------------------------------------------------
(* Sources come and go. *)
LEMMA FileMerges ==
  ASSUME FileBounds, FileInv, NEW u \in Users, Index!MergeSource(u)
  PROVE  FileInv'
<1> DEFINE i == mid[u]
<1>1. /\ upc[u] = "refresh" /\ upc'[u] = "reverse" /\ Index!Alive(i)
      /\ UNCHANGED <<hash, fresh, quar, aged, kw, userFiles, uid, uhash, usize, mid, mine, Index!janitor>>
      /\ \A v \in Users \ {u} : SameCall(v)
  BY DEF FileInv, Index!TypeOK, Index!MergeSource, Index!Mergeable, Index!UserGoto, SameCall
<1>2. /\ i \in SlabIds /\ usize[u] \in IndexSizes /\ uhash[u] \in IndexHashes
      /\ uid[u] \in SlabIds /\ StillHas(i, uhash[u])
  BY <1>1 DEF FileInv, CallsRefer, CallRefers, StillHas
<1>3. hash[i] = uhash[u] BY <1>1, <1>2 DEF FileInv, Index!TypeOK, StillHas, Index!Alive
<1>4. Index!TypeOK'
  <2>1.
        /\ recordSize' \in [SlabIds -> IndexSizes \cup {NoSize}] /\ srcs' \in [SlabIds -> SUBSET Users]
        /\ shares' \in [Users -> SUBSET IndexHashes] /\ upc' \in [Users -> Index!UserPcs]
    BY <1>2 DEF FileInv, Index!TypeOK, Index!MergeSource, Index!UserGoto, Index!UserPcs
  <2> QED BY <1>1, <2>1 DEF FileInv, Index!TypeOK, Index!janitor
<1>5. SlabKeeps BY <1>1 DEF SlabKeeps
<1>6. SlabSound' /\ OneRecord' BY <1>1 DEF FileInv, SlabSound, OneRecord, Index!Alive
<1>7. CallRefers(u)' BY <1>1, <1>2 DEF CallRefers
<1>8. CallsRefer' BY <1>1, <1>5, <1>7, CallKept DEF FileInv, CallsRefer
<1>9. JanitorsRefer' BY <1>1, <1>5, JanitorKept DEF FileInv, JanitorsRefer
<1>10. AllIndexed'
  <2>1. \A k \in SlabIds : Index!Indexing(k) => Index!Indexing(k)' BY <1>1 DEF Index!Indexing, SameCall
  <2> QED BY <1>1, <2>1 DEF FileInv, AllIndexed, Index!Alive
<1>11. /\ srcs' = [srcs EXCEPT ![i] = @ \cup {u}]
       /\ shares' = [shares EXCEPT ![u] = @ \cup {uhash[u]}]
  BY DEF Index!MergeSource
<1>12. LeftNothing' BY <1>1, <1>11 DEF FileInv, Index!TypeOK, LeftNothing, SameCall, Leaving
<1>13. SharedHeld'
  <2> SUFFICES ASSUME NEW v \in Users, NEW h \in shares'[v]
               PROVE  \E k \in SlabIds : hash'[k] = h /\ v \in srcs'[k]
    BY DEF SharedHeld
  <2>1. CASE h \in shares[v]
    <3>1. PICK k \in SlabIds : hash[k] = h /\ v \in srcs[k] BY <2>1 DEF FileInv, SharedHeld
    <3>2. v \in srcs'[k] BY <1>2, <1>11, <3>1 DEF FileInv, Index!TypeOK
    <3> QED BY <1>1, <3>1, <3>2
  <2>2. CASE h \notin shares[v]
    <3>1. v = u /\ h = uhash[u] BY <1>11, <2>2 DEF FileInv, Index!TypeOK
    <3>2. u \in srcs'[i] BY <1>2, <1>11 DEF FileInv, Index!TypeOK
    <3> QED BY <1>1, <1>2, <1>3, <3>1, <3>2
  <2> QED BY <2>1, <2>2
<1>14. Index!NoLastingOrphan'
  <2> SUFFICES ASSUME NEW k \in SlabIds, Index!Sourceless(k)'
               PROVE  (\E v \in Users : upc[v] = "evict" /\ uid[v] = k)'
    BY DEF Index!NoLastingOrphan
  <2>1. Index!Sourceless(k)
    BY <1>1, <1>2, <1>11 DEF Index!Sourceless, Index!Alive, FileInv, Index!TypeOK
  <2> QED BY <1>1, <2>1 DEF FileInv, Index!NoLastingOrphan, SameCall
<1> QED BY <1>4, <1>6, <1>8, <1>9, <1>10, <1>12, <1>13, <1>14 DEF FileInv

(* A user who leaves shares nothing from then on. *)
LEMMA FileLeaves ==
  ASSUME FileBounds, FileInv, NEW u \in Users, Index!Leave(u)
  PROVE  FileInv'
<1>1. Index!TypeOK'
  BY DEF FileInv, Index!TypeOK, Index!Leave, Index!UserGoto, Index!UserPcs, Index!slab,
         Index!janitor
<1>2. /\ upc[u] = "idle" /\ upc'[u] = "leave" /\ shares' = [shares EXCEPT ![u] = {}]
      /\ UNCHANGED <<Index!slab, kw, Index!janitor>> /\ \A v \in Users \ {u} : SameCall(v)
  BY DEF FileInv, Index!TypeOK, Index!Leave, Index!UserGoto, SameCall
<1>3. SlabKeeps BY <1>2 DEF SlabKeeps, Index!slab
<1>4. SlabSound' /\ OneRecord' BY <1>2 DEF FileInv, SlabSound, OneRecord, Index!Alive, Index!slab
<1>5. CallRefers(u)' BY <1>2 DEF CallRefers
<1>6. CallsRefer' BY <1>2, <1>3, <1>5, CallKept DEF FileInv, CallsRefer
<1>7. JanitorsRefer' BY <1>2, <1>3, JanitorKept DEF FileInv, JanitorsRefer
<1>8. AllIndexed'
  <2>1. \A i \in SlabIds : Index!Indexing(i) => Index!Indexing(i)' BY <1>2 DEF Index!Indexing, SameCall
  <2> QED BY <1>2, <2>1 DEF FileInv, AllIndexed, Index!Alive, Index!slab
<1>9. LeftNothing' BY <1>2 DEF FileInv, Index!TypeOK, LeftNothing, SameCall
<1>10. SharedHeld' BY <1>2 DEF FileInv, Index!TypeOK, SharedHeld, Index!slab
<1>11. Index!NoLastingOrphan'
  <2>1. \A i \in SlabIds : (Index!Sourceless(i) <=> Index!Sourceless(i)')
    BY <1>2 DEF Index!Sourceless, Index!Alive, Index!slab
  <2> QED BY <1>2, <2>1 DEF FileInv, Index!NoLastingOrphan, SameCall
<1> QED BY <1>1, <1>4, <1>6, <1>7, <1>8, <1>9, <1>10, <1>11 DEF FileInv

(* The last source to leave goes on to evict the record. *)
LEMMA FileLosesSource ==
  ASSUME FileBounds, FileInv, NEW u \in Users, NEW i \in SlabIds, Index!RemoveSource(u, i)
  PROVE  FileInv'
<1> DEFINE orphan == Index!Alive(i) /\ srcs[i] \subseteq {u}
<1>1. /\ upc[u] = "leave" /\ upc'[u] = (IF orphan THEN "evict" ELSE "leave")
      /\ orphan => uid'[u] = i
      /\ srcs' = [srcs EXCEPT ![i] = @ \ {u}]
      /\ UNCHANGED <<hash, recordSize, fresh, quar, aged, kw, Index!janitor, shares>>
      /\ \A v \in Users \ {u} : SameCall(v)
  BY DEF FileInv, Index!TypeOK, Index!RemoveSource, Index!UserGoto, SameCall
<1>2. Index!TypeOK'
  <2>1. /\ srcs' \in [SlabIds -> SUBSET Users] /\ upc' \in [Users -> Index!UserPcs]
        /\ uid' \in [Users -> SlabIds \cup {NoId}] /\ mine' \in [Users -> SUBSET SlabIds]
    BY DEF FileInv, Index!TypeOK, Index!RemoveSource, Index!UserGoto, Index!UserPcs
  <2>2. UNCHANGED <<userFiles, uhash, usize, mid>> BY DEF Index!RemoveSource
  <2> QED BY <1>1, <2>1, <2>2 DEF FileInv, Index!TypeOK, Index!janitor
<1>3. SlabKeeps BY <1>1 DEF SlabKeeps
<1>4. SlabSound' /\ OneRecord' BY <1>1 DEF FileInv, SlabSound, OneRecord, Index!Alive
<1>5. CallRefers(u)' BY <1>1 DEF CallRefers
<1>6. CallsRefer' BY <1>1, <1>3, <1>5, CallKept DEF FileInv, CallsRefer
<1>7. JanitorsRefer' BY <1>1, <1>3, JanitorKept DEF FileInv, JanitorsRefer
<1>8. AllIndexed'
  <2>1. \A k \in SlabIds : Index!Indexing(k) => Index!Indexing(k)' BY <1>1 DEF Index!Indexing, SameCall
  <2> QED BY <1>1, <2>1 DEF FileInv, AllIndexed, Index!Alive
<1>9. shares[u] = {} BY <1>1 DEF FileInv, LeftNothing, Leaving
<1>10. LeftNothing' BY <1>1, <1>9 DEF FileInv, LeftNothing, SameCall
<1>11. SharedHeld'
  <2> SUFFICES ASSUME NEW v \in Users, NEW h \in shares[v]
               PROVE  \E k \in SlabIds : hash[k] = h /\ v \in srcs'[k]
    BY <1>1 DEF SharedHeld
  <2>1. PICK k \in SlabIds : hash[k] = h /\ v \in srcs[k] BY DEF FileInv, SharedHeld
  <2>2. v # u BY <1>9
  <2>3. v \in srcs'[k] BY <1>1, <2>1, <2>2 DEF FileInv, Index!TypeOK
  <2> QED BY <2>1, <2>3
<1>12. Index!NoLastingOrphan'
  <2> SUFFICES ASSUME NEW k \in SlabIds, Index!Sourceless(k)'
               PROVE  (\E v \in Users : upc[v] = "evict" /\ uid[v] = k)'
    BY DEF Index!NoLastingOrphan
  <2>1. CASE Index!Sourceless(k) BY <1>1, <2>1 DEF FileInv, Index!NoLastingOrphan, SameCall
  <2>2. CASE ~Index!Sourceless(k)
    <3>1. k = i /\ orphan BY <1>1, <2>2 DEF Index!Sourceless, Index!Alive, FileInv, Index!TypeOK
    <3> QED BY <1>1, <3>1
  <2> QED BY <2>1, <2>2
<1> QED BY <1>2, <1>4, <1>6, <1>7, <1>8, <1>10, <1>11, <1>12 DEF FileInv

-----------------------------------------------------------------------------
(* Records come and go. *)
LEMMA FileCreated ==
  ASSUME FileBounds, FileInv, NEW u \in Users,
         NEW h \in IndexHashes, NEW s \in IndexSizes, NEW i \in SlabIds,
         Index!PublishNew(u, h, s, i)
  PROVE  FileInv'
<1>1. /\ upc[u] = "idle" /\ upc'[u] = "keyword" /\ uid'[u] = i /\ uhash'[u] = h
      /\ UNCHANGED <<kw, userFiles, mid, mine, Index!janitor>> /\ \A v \in Users \ {u} : SameCall(v)
  BY DEF FileInv, Index!TypeOK, Index!PublishNew, Index!UserGoto, SameCall
<1>2. /\ i \in fresh \cup aged /\ hash' = [hash EXCEPT ![i] = h]
      /\ recordSize' = [recordSize EXCEPT ![i] = s] /\ srcs' = [srcs EXCEPT ![i] = {u}]
      /\ aged' = aged \ {i} /\ fresh' = fresh \ {i} /\ quar' = quar
  BY DEF Index!PublishNew, Index!InsertRecord
<1>3. hash[i] = NoHash /\ i \notin quar BY <1>2 DEF FileInv, Index!TypeOK, SlabSound
<1>4. Index!TypeOK'
  <2>1. /\ hash' \in [SlabIds -> IndexHashes \cup {NoHash}]
        /\ recordSize' \in [SlabIds -> IndexSizes \cup {NoSize}]
        /\ srcs' \in [SlabIds -> SUBSET Users]
        /\ fresh' \subseteq SlabIds /\ quar' \subseteq SlabIds /\ aged' \subseteq SlabIds
    BY <1>2 DEF FileInv, Index!TypeOK
  <2>2. \A k \in SlabIds : hash'[k] = NoHash <=> k \in fresh' \cup quar' \cup aged'
    BY <1>2, <1>3 DEF FileInv, Index!TypeOK, FileBounds
  <2>3. /\ upc' \in [Users -> Index!UserPcs] /\ uid' \in [Users -> SlabIds \cup {NoId}]
        /\ uhash' \in [Users -> IndexHashes \cup {NoHash}]
        /\ usize' \in [Users -> IndexSizes \cup {NoSize}]
        /\ shares' \in [Users -> SUBSET IndexHashes]
    BY DEF FileInv, Index!TypeOK, Index!PublishNew, Index!UserGoto, Index!UserPcs
  <2> QED BY <1>1, <2>1, <2>2, <2>3 DEF FileInv, Index!TypeOK, Index!janitor
<1>5. SlabKeeps BY <1>2, <1>3 DEF SlabKeeps, FileInv, Index!TypeOK
<1>6. SlabSound' BY <1>2 DEF FileInv, SlabSound
<1>7. OneRecord'
  <2>1. \A k \in SlabIds : hash[k] # h BY DEF Index!PublishNew, Index!Found
  <2> QED BY <1>2, <2>1 DEF FileInv, Index!TypeOK, OneRecord, Index!Alive
<1>8. CallRefers(u)' BY <1>1, <1>2 DEF CallRefers, StillHas, FileInv, Index!TypeOK
<1>9. CallsRefer' BY <1>1, <1>5, <1>8, CallKept DEF FileInv, CallsRefer
<1>10. JanitorsRefer' BY <1>1, <1>5, JanitorKept DEF FileInv, JanitorsRefer
<1>11. AllIndexed'
  <2>1. \A k \in SlabIds : Index!Indexing(k) => Index!Indexing(k)' BY <1>1 DEF Index!Indexing, SameCall
  <2>2. Index!Indexing(i)' BY <1>1 DEF Index!Indexing
  <2>3. \A k \in SlabIds \ {i} : hash'[k] = hash[k] BY <1>2 DEF FileInv, Index!TypeOK
  <2> QED BY <1>1, <2>1, <2>2, <2>3 DEF FileInv, AllIndexed, Index!Alive
<1>12. shares' = [shares EXCEPT ![u] = @ \cup {h}] BY DEF Index!PublishNew
<1>13. LeftNothing' BY <1>1, <1>12 DEF FileInv, Index!TypeOK, LeftNothing, SameCall, Leaving
<1>14. SharedHeld'
  <2> SUFFICES ASSUME NEW v \in Users, NEW g \in shares'[v]
               PROVE  \E k \in SlabIds : hash'[k] = g /\ v \in srcs'[k]
    BY DEF SharedHeld
  <2>1. CASE g \in shares[v]
    <3>1. PICK k \in SlabIds : hash[k] = g /\ v \in srcs[k] BY <2>1 DEF FileInv, SharedHeld
    <3>2. g \in IndexHashes BY <2>1 DEF FileInv, Index!TypeOK
    <3>3. k # i BY <1>3, <3>1, <3>2 DEF FileBounds
    <3>4. hash'[k] = g /\ v \in srcs'[k] BY <1>2, <3>1, <3>3 DEF FileInv, Index!TypeOK
    <3> QED BY <3>4
  <2>2. CASE g \notin shares[v]
    <3>1. v = u /\ g = h BY <1>12, <2>2 DEF FileInv, Index!TypeOK
    <3>2. hash'[i] = h /\ u \in srcs'[i] BY <1>2 DEF FileInv, Index!TypeOK
    <3> QED BY <3>1, <3>2
  <2> QED BY <2>1, <2>2
<1>15. Index!NoLastingOrphan'
  <2> SUFFICES ASSUME NEW k \in SlabIds, Index!Sourceless(k)'
               PROVE  (\E v \in Users : upc[v] = "evict" /\ uid[v] = k)'
    BY DEF Index!NoLastingOrphan
  <2>1. Index!Sourceless(k) BY <1>2 DEF Index!Sourceless, Index!Alive, FileInv, Index!TypeOK
  <2> QED BY <1>1, <2>1 DEF FileInv, Index!NoLastingOrphan, SameCall
<1> QED BY <1>4, <1>6, <1>7, <1>9, <1>10, <1>11, <1>13, <1>14, <1>15 DEF FileInv

(* What a tombstone does to the slab. *)
LEMMA Tombstoned ==
  ASSUME FileBounds, FileInv, NEW i \in SlabIds, Index!Alive(i), Index!Tombstone(i)
  PROVE  /\ hash' \in [SlabIds -> IndexHashes \cup {NoHash}]
         /\ recordSize' \in [SlabIds -> IndexSizes \cup {NoSize}]
         /\ srcs' \in [SlabIds -> SUBSET Users]
         /\ fresh' \subseteq SlabIds /\ quar' \subseteq SlabIds /\ aged' \subseteq SlabIds
         /\ \A k \in SlabIds : hash'[k] = NoHash <=> k \in fresh' \cup quar' \cup aged'
         /\ hash[i] \in IndexHashes /\ i \in quar'
         /\ \A k \in SlabIds \ {i} : hash'[k] = hash[k] /\ srcs'[k] = srcs[k]
         /\ \A k \in SlabIds : Index!Alive(k)' => Index!Alive(k) /\ k # i
         /\ SlabKeeps /\ SlabSound' /\ OneRecord'
<1>1. /\ hash' = [hash EXCEPT ![i] = NoHash] /\ recordSize' = [recordSize EXCEPT ![i] = NoSize]
      /\ srcs' = [srcs EXCEPT ![i] = {}] /\ quar' = quar \cup {i}
      /\ fresh' = fresh /\ aged' = aged
  BY DEF Index!Tombstone
<1>2. hash[i] \in IndexHashes /\ i \notin fresh \cup quar \cup aged
  BY DEF FileInv, Index!TypeOK, Index!Alive
<1>3. /\ hash' \in [SlabIds -> IndexHashes \cup {NoHash}]
      /\ recordSize' \in [SlabIds -> IndexSizes \cup {NoSize}]
      /\ srcs' \in [SlabIds -> SUBSET Users]
      /\ fresh' \subseteq SlabIds /\ quar' \subseteq SlabIds /\ aged' \subseteq SlabIds
  BY <1>1 DEF FileInv, Index!TypeOK
<1>4. \A k \in SlabIds : hash'[k] = NoHash <=> k \in fresh' \cup quar' \cup aged'
  BY <1>1 DEF FileInv, Index!TypeOK
<1>5. \A k \in SlabIds \ {i} : hash'[k] = hash[k] /\ srcs'[k] = srcs[k]
  BY <1>1 DEF FileInv, Index!TypeOK
<1>6. hash'[i] = NoHash BY <1>1 DEF FileInv, Index!TypeOK
<1>7. \A k \in SlabIds : Index!Alive(k)' => Index!Alive(k) /\ k # i BY <1>5, <1>6 DEF Index!Alive
<1>8. SlabKeeps BY <1>1, <1>5 DEF SlabKeeps
<1>9. SlabSound' BY <1>1, <1>2 DEF FileInv, SlabSound
<1>10. OneRecord' BY <1>5, <1>7 DEF FileInv, OneRecord, Index!Alive
<1> QED BY <1>1, <1>2, <1>3, <1>4, <1>5, <1>7, <1>8, <1>9, <1>10

(* A departure evicts what still has no source. *)
LEMMA FileOrphaned ==
  ASSUME FileBounds, FileInv, NEW u \in Users, Index!EvictOrphan(u)
  PROVE  FileInv'
<1> DEFINE i == uid[u]
<1>1. /\ upc[u] = "evict" /\ upc'[u] = "unindex" /\ uid'[u] = i /\ uhash'[u] = hash[i]
      /\ Index!Sourceless(i) /\ Index!Tombstone(i)
      /\ UNCHANGED <<kw, userFiles, usize, mid, mine, Index!janitor, shares>>
      /\ \A v \in Users \ {u} : SameCall(v)
  BY DEF FileInv, Index!TypeOK, Index!EvictOrphan, Index!UserGoto, SameCall
<1>2. i \in SlabIds BY <1>1 DEF FileInv, CallsRefer, CallRefers
<1>3. Index!Alive(i) /\ srcs[i] = {} BY <1>1 DEF Index!Sourceless
<1> HIDE DEF i
<1>4. /\ hash[i] \in IndexHashes /\ i \in quar'
      /\ \A k \in SlabIds \ {i} : hash'[k] = hash[k] /\ srcs'[k] = srcs[k]
      /\ \A k \in SlabIds : Index!Alive(k)' => Index!Alive(k) /\ k # i
      /\ SlabKeeps /\ SlabSound' /\ OneRecord'
  BY <1>1, <1>2, <1>3, Tombstoned
<1>5. Index!TypeOK'
  <2>1. /\ hash' \in [SlabIds -> IndexHashes \cup {NoHash}]
        /\ recordSize' \in [SlabIds -> IndexSizes \cup {NoSize}]
        /\ srcs' \in [SlabIds -> SUBSET Users]
        /\ fresh' \subseteq SlabIds /\ quar' \subseteq SlabIds /\ aged' \subseteq SlabIds
        /\ \A k \in SlabIds : hash'[k] = NoHash <=> k \in fresh' \cup quar' \cup aged'
    BY <1>1, <1>2, <1>3, Tombstoned
  <2>2. upc' \in [Users -> Index!UserPcs] /\ uhash' \in [Users -> IndexHashes \cup {NoHash}] /\ uid' = uid
    <3>1. /\ upc' = [upc EXCEPT ![u] = "unindex"] /\ uhash' = [uhash EXCEPT ![u] = hash[i]]
          /\ uid' = uid
      BY DEF Index!EvictOrphan, Index!UserGoto, i
    <3> QED BY <1>4, <3>1 DEF FileInv, Index!TypeOK, Index!UserPcs
  <2> QED BY <1>1, <2>1, <2>2 DEF FileInv, Index!TypeOK, Index!janitor
<1>6. CallRefers(u)' BY <1>1, <1>4 DEF CallRefers
<1>7. CallsRefer' BY <1>1, <1>4, <1>6, CallKept DEF FileInv, CallsRefer
<1>8. JanitorsRefer' BY <1>1, <1>4, JanitorKept DEF FileInv, JanitorsRefer
<1>9. AllIndexed'
  <2>1. \A k \in SlabIds : Index!Indexing(k) => Index!Indexing(k)' BY <1>1 DEF Index!Indexing, SameCall
  <2> QED BY <1>1, <1>4, <2>1 DEF FileInv, AllIndexed
<1>10. LeftNothing' BY <1>1 DEF FileInv, LeftNothing, SameCall, Leaving
<1>11. SharedHeld'
  <2> SUFFICES ASSUME NEW v \in Users, NEW g \in shares[v]
               PROVE  \E k \in SlabIds : hash'[k] = g /\ v \in srcs'[k]
    BY <1>1 DEF SharedHeld
  <2>1. PICK k \in SlabIds : hash[k] = g /\ v \in srcs[k] BY DEF FileInv, SharedHeld
  <2>2. k # i BY <1>3, <2>1
  <2> QED BY <1>4, <2>1, <2>2
<1>12. Index!NoLastingOrphan'
  <2> SUFFICES ASSUME NEW k \in SlabIds, Index!Sourceless(k)'
               PROVE  (\E v \in Users : upc[v] = "evict" /\ uid[v] = k)'
    BY DEF Index!NoLastingOrphan
  <2>1. k # i /\ Index!Sourceless(k) BY <1>4 DEF Index!Sourceless
  <2>2. PICK v \in Users : upc[v] = "evict" /\ uid[v] = k BY <2>1 DEF FileInv, Index!NoLastingOrphan
  <2>3. v # u BY <2>1, <2>2 DEF i
  <2> QED BY <1>1, <2>2, <2>3 DEF SameCall
<1> QED BY <1>4, <1>5, <1>7, <1>8, <1>9, <1>10, <1>11, <1>12 DEF FileInv

(* A slot is free again only once nothing refers to it. *)
LEMMA FileSlotFreed ==
  ASSUME FileBounds, FileInv, NEW i \in SlabIds, Index!QuarantineEnds(i)
  PROVE  FileInv'
<1>1. /\ i \in quar /\ quar' = quar \ {i} /\ aged' = aged \cup {i}
      /\ UNCHANGED <<hash, recordSize, srcs, fresh, kw, userFiles, Index!call, Index!janitor, shares>>
  BY DEF Index!QuarantineEnds
<1>2. \A u \in Users : uid[u] # i /\ mid[u] # i BY DEF Index!QuarantineEnds, Index!Quarantined
<1>3. \A j \in Janitors : jid[j] # i /\ i \notin Index!IdsOf(list[j] \cup evicted[j])
  BY DEF Index!QuarantineEnds, Index!Quarantined, FileBounds
<1>4. Index!TypeOK' BY <1>1 DEF FileInv, Index!TypeOK, Index!call, Index!janitor
<1>5. SlabSound' BY <1>1 DEF FileInv, SlabSound
<1>6. OneRecord' BY <1>1 DEF FileInv, OneRecord, Index!Alive
<1>7. \A k, h : k # i /\ StillHas(k, h) => StillHas(k, h)' BY <1>1 DEF StillHas
<1>8. CallsRefer'
  <2> SUFFICES ASSUME NEW u \in Users PROVE CallRefers(u)' BY DEF CallsRefer
  <2>1. CallRefers(u) BY DEF FileInv, CallsRefer
  <2>2. uid[u] # i /\ mid[u] # i BY <1>2
  <2> QED BY <1>1, <1>7, <2>1, <2>2 DEF CallRefers, Index!call
<1>9. JanitorsRefer'
  <2> SUFFICES ASSUME NEW j \in Janitors PROVE JanitorRefers(j)' BY DEF JanitorsRefer
  <2>1. JanitorRefers(j) BY DEF FileInv, JanitorsRefer
  <2>2. jid[j] # i BY <1>3
  <2>3. \A p \in list[j] : p[1] # i BY <1>3 DEF Index!IdsOf
  <2>4. \A p \in list[j] : StillHas(p[1], p[2])' BY <1>7, <2>1, <2>3 DEF JanitorRefers
  <2> QED BY <1>1, <2>1, <2>2, <2>4 DEF JanitorRefers, Index!janitor
<1>10. AllIndexed' BY <1>1 DEF FileInv, AllIndexed, Index!Alive, Index!Indexing, Index!call
<1>11. LeftNothing' /\ SharedHeld' BY <1>1 DEF FileInv, LeftNothing, SharedHeld, Index!call
<1>12. Index!NoLastingOrphan'
  BY <1>1 DEF FileInv, Index!NoLastingOrphan, Index!Sourceless, Index!Alive, Index!call
<1> QED BY <1>4, <1>5, <1>6, <1>8, <1>9, <1>10, <1>11, <1>12 DEF FileInv

-----------------------------------------------------------------------------
(* The janitors. *)
SameJanitor(k) ==
  /\ jpc'[k] = jpc[k] /\ jid'[k] = jid[k] /\ jhash'[k] = jhash[k]
  /\ list'[k] = list[k] /\ evicted'[k] = evicted[k]

(* One janitor moves, what the other refers to stays. *)
LEMMA JanitorsKept ==
  ASSUME FileBounds, FileInv, SlabKeeps, NEW j \in Janitors, JanitorRefers(j)',
         \A k \in Janitors \ {j} : SameJanitor(k)
  PROVE  JanitorsRefer'
<1> SUFFICES ASSUME NEW k \in Janitors PROVE JanitorRefers(k)' BY DEF JanitorsRefer
<1>1. CASE k = j BY <1>1
<1>2. CASE k # j
  <2>1. JanitorRefers(k) /\ SameJanitor(k) BY <1>2 DEF FileInv, JanitorsRefer
  <2>2. \A p \in list[k] : StillHas(p[1], p[2])' BY <2>1, HasKept DEF JanitorRefers
  <2> QED BY <2>1, <2>2 DEF JanitorRefers, SameJanitor, SlabKeeps
<1> QED BY <1>1, <1>2

(* A janitor's step that changes no record. *)
LEMMA JanitorStep ==
  ASSUME FileBounds, FileInv, NEW j \in Janitors, Index!TypeOK', JanitorRefers(j)', AllIndexed',
         UNCHANGED <<Index!slab, Index!call, shares>>,
         \A k \in Janitors \ {j} : SameJanitor(k)
  PROVE  FileInv'
<1>1. SlabKeeps BY DEF SlabKeeps, Index!slab
<1>2. SlabSound' /\ OneRecord' BY DEF FileInv, SlabSound, OneRecord, Index!Alive, Index!slab
<1>3. CallsRefer' BY <1>1, CallKept DEF FileInv, CallsRefer, SameCall, Index!call
<1>4. JanitorsRefer' BY <1>1, JanitorsKept
<1>5. LeftNothing' /\ SharedHeld' BY DEF FileInv, LeftNothing, SharedHeld, Index!call, Index!slab
<1>6. Index!NoLastingOrphan'
  BY DEF FileInv, Index!NoLastingOrphan, Index!Sourceless, Index!Alive, Index!call, Index!slab
<1> QED BY <1>2, <1>3, <1>4, <1>5, <1>6 DEF FileInv

(* What is indexed stays so while nothing about it changes. *)
LEMMA StaysIndexed ==
  ASSUME FileInv, UNCHANGED <<Index!slab, Index!call, kw>>
  PROVE  AllIndexed'
BY DEF FileInv, AllIndexed, Index!Alive, Index!Indexing, Index!slab, Index!call

(* The list a janitor makes is of records that are there. *)
LEMMA Listed ==
  ASSUME FileInv, NEW ids \in SUBSET SlabIds, \A i \in ids : Index!Alive(i)
  PROVE  /\ Index!WithHash(ids) \in SUBSET (SlabIds \X IndexHashes)
         /\ \A p \in Index!WithHash(ids) : StillHas(p[1], p[2])
BY DEF FileInv, Index!TypeOK, Index!WithHash, Index!Alive, StillHas

(* A sweep lists the sourceless, a check what is refused. *)
LEMMA FileListed ==
  ASSUME FileBounds, FileInv, NEW j \in Janitors,
         Index!ScanOrphans(j) \/ \E ids \in SUBSET SlabIds : Index!CheckIndex(j, ids)
  PROVE  FileInv'
<1>1. PICK ids \in SUBSET SlabIds :
        /\ \A i \in ids : Index!Alive(i)
        /\ jpc[j] = "idle" /\ jpc' = [jpc EXCEPT ![j] = "evict"]
        /\ list' = [list EXCEPT ![j] = Index!WithHash(ids)]
        /\ (evicted' = evicted /\ j = "sweep") \/ evicted' = [evicted EXCEPT ![j] = Index!WithHash(ids)]
        /\ UNCHANGED <<Index!slab, kw, userFiles, Index!call, jid, jhash, visit, shares>>
  <2>1. CASE Index!ScanOrphans(j)
    <3> DEFINE ids == {i \in SlabIds : Index!Sourceless(i)}
    <3>1. ids \in SUBSET SlabIds /\ \A i \in ids : Index!Alive(i) BY DEF Index!Sourceless
    <3> QED BY <2>1, <3>1 DEF Index!ScanOrphans, Index!JanitorGoto
  <2>2. CASE \E ids \in SUBSET SlabIds : Index!CheckIndex(j, ids)
    BY <2>2 DEF Index!CheckIndex, Index!JanitorGoto
  <2> QED BY <2>1, <2>2
<1>2. /\ Index!WithHash(ids) \in SUBSET (SlabIds \X IndexHashes)
      /\ \A p \in Index!WithHash(ids) : StillHas(p[1], p[2])
  BY <1>1, Listed
<1>3. Index!TypeOK' BY <1>1, <1>2 DEF FileInv, Index!TypeOK, Index!JanitorPcs, Index!slab, Index!call
<1>4. JanitorRefers(j)'
  <2>1. list'[j] = Index!WithHash(ids) /\ jpc'[j] = "evict" BY <1>1 DEF FileInv, Index!TypeOK
  <2>2. j = "purge" => evicted'[j] = Index!WithHash(ids) BY <1>1 DEF FileInv, Index!TypeOK
  <2>3. \A p \in Index!WithHash(ids) : StillHas(p[1], p[2])' BY <1>1, <1>2 DEF StillHas, Index!slab
  <2> QED BY <2>1, <2>2, <2>3 DEF JanitorRefers
<1>5. \A k \in Janitors \ {j} : SameJanitor(k) BY <1>1 DEF SameJanitor, FileInv, Index!TypeOK
<1> QED BY <1>1, <1>3, <1>4, <1>5, JanitorStep, StaysIndexed

(* Steps of a janitor that change neither records nor postings. *)
LEMMA FilePasses ==
  ASSUME FileBounds, FileInv, NEW j \in Janitors,
         \/ \E p \in SlabIds \X IndexHashes : Index!JanitorSpares(j, p)
         \/ Index!JanitorListDone(j) \/ Index!JanitorDone(j)
         \/ \E u \in Users : Index!PurgeUserFiles(j, u)
  PROVE  FileInv'
<1>1. /\ jpc[j] # "unindex" /\ jpc'[j] # "unindex" /\ jpc' \in [Janitors -> Index!JanitorPcs]
      /\ list' \in [Janitors -> SUBSET (SlabIds \X IndexHashes)]
      /\ evicted' \in [Janitors -> SUBSET (SlabIds \X IndexHashes)]
      /\ visit' \in [Janitors -> SUBSET Users] /\ userFiles' \in [Users -> SUBSET SlabIds]
      /\ UNCHANGED <<Index!slab, kw, Index!call, jid, jhash, shares>>
      /\ \A k \in Janitors \ {j} : SameJanitor(k)
      /\ list'[j] \subseteq list[j] /\ (jpc'[j] \in {"idle", "users"} => list'[j] = {})
  <2>0. jpc[j] = "users" => list[j] = {} BY DEF FileInv, JanitorsRefer, JanitorRefers
  <2>1. CASE \E p \in SlabIds \X IndexHashes : Index!JanitorSpares(j, p)
    BY <2>1 DEF Index!JanitorSpares, Index!JanitorGoto, SameJanitor, FileInv, Index!TypeOK,
                Index!JanitorPcs
  <2>2. CASE Index!JanitorListDone(j)
    BY <2>0, <2>2 DEF Index!JanitorListDone, Index!JanitorGoto, SameJanitor, FileInv, Index!TypeOK,
                      Index!JanitorPcs
  <2>3. CASE Index!JanitorDone(j)
    BY <2>0, <2>3 DEF Index!JanitorDone, Index!JanitorGoto, SameJanitor, FileInv, Index!TypeOK,
                      Index!JanitorPcs
  <2>4. CASE \E u \in Users : Index!PurgeUserFiles(j, u)
    BY <2>0, <2>4 DEF Index!PurgeUserFiles, Index!JanitorGoto, SameJanitor, FileInv, Index!TypeOK,
                      Index!JanitorPcs
  <2> QED BY <2>1, <2>2, <2>3, <2>4
<1>2. Index!TypeOK' BY <1>1 DEF FileInv, Index!TypeOK, Index!slab, Index!call
<1>3. j = "purge" => list'[j] \subseteq evicted'[j]
  <2>1. j = "purge" => list[j] \subseteq evicted[j] BY DEF FileInv, JanitorsRefer, JanitorRefers
  <2>2. CASE Index!JanitorDone(j)
    BY <1>1, <2>2 DEF Index!JanitorDone, Index!JanitorGoto, FileInv, JanitorsRefer, JanitorRefers
  <2> QED BY <1>1, <2>1, <2>2 DEF Index!JanitorSpares, Index!JanitorListDone, Index!PurgeUserFiles
<1>4. JanitorRefers(j)'
  <2>1. \A p \in list'[j] : StillHas(p[1], p[2])'
    BY <1>1 DEF FileInv, JanitorsRefer, JanitorRefers, StillHas, Index!slab
  <2> QED BY <1>1, <1>3, <2>1 DEF JanitorRefers
<1> QED BY <1>1, <1>2, <1>4, JanitorStep, StaysIndexed

(* A janitor evicts: whose file it was, shares it no more. *)
LEMMA FileEvicted ==
  ASSUME FileBounds, FileInv, NEW j \in Janitors, NEW p \in SlabIds \X IndexHashes,
         Index!JanitorEvict(j, p)
  PROVE  FileInv'
<1> DEFINE i == p[1]
<1>1. /\ p \in list[j] /\ jpc[j] = "evict" /\ jpc' = [jpc EXCEPT ![j] = "unindex"]
      /\ Index!Tombstone(i) /\ jid' = [jid EXCEPT ![j] = i] /\ jhash' = [jhash EXCEPT ![j] = hash[i]]
      /\ list' = [list EXCEPT ![j] = @ \ {p}]
      /\ evicted' = [evicted EXCEPT ![j] = IF j = "sweep" THEN @ \cup {p} ELSE @]
      /\ shares' = [u \in Users |-> IF u \in srcs[i] THEN shares[u] \ {hash[i]} ELSE shares[u]]
      /\ UNCHANGED <<kw, userFiles, Index!call, visit>>
  BY DEF Index!JanitorEvict, Index!JanitorGoto
<1>2. i \in SlabIds /\ Index!Alive(i) BY DEF Index!JanitorEvict, Index!MayEvict, Index!Sourceless
<1>3. p = <<i, hash[i]>>
  <2>1. StillHas(i, p[2]) BY <1>1 DEF FileInv, JanitorsRefer, JanitorRefers
  <2>2. hash[i] = p[2] BY <1>2, <2>1 DEF StillHas, FileInv, Index!TypeOK, Index!Alive
  <2> QED BY <2>2
<1> HIDE DEF i
<1>4. /\ hash' \in [SlabIds -> IndexHashes \cup {NoHash}]
      /\ recordSize' \in [SlabIds -> IndexSizes \cup {NoSize}]
      /\ srcs' \in [SlabIds -> SUBSET Users]
      /\ fresh' \subseteq SlabIds /\ quar' \subseteq SlabIds /\ aged' \subseteq SlabIds
      /\ \A k \in SlabIds : hash'[k] = NoHash <=> k \in fresh' \cup quar' \cup aged'
  BY <1>1, <1>2, Tombstoned
<1>5. /\ hash[i] \in IndexHashes /\ i \in quar'
      /\ \A k \in SlabIds \ {i} : hash'[k] = hash[k] /\ srcs'[k] = srcs[k]
      /\ \A k \in SlabIds : Index!Alive(k)' => Index!Alive(k) /\ k # i
      /\ SlabKeeps /\ SlabSound' /\ OneRecord'
  BY <1>1, <1>2, Tombstoned
<1>6. Index!TypeOK'
  <2>1. /\ jpc' \in [Janitors -> Index!JanitorPcs] /\ jid' \in [Janitors -> SlabIds \cup {NoId}]
        /\ jhash' \in [Janitors -> IndexHashes \cup {NoHash}]
        /\ list' \in [Janitors -> SUBSET (SlabIds \X IndexHashes)]
        /\ evicted' \in [Janitors -> SUBSET (SlabIds \X IndexHashes)]
    BY <1>1, <1>2, <1>5 DEF FileInv, Index!TypeOK, Index!JanitorPcs
  <2>2. shares' \in [Users -> SUBSET IndexHashes] BY <1>1 DEF FileInv, Index!TypeOK
  <2> QED BY <1>1, <1>4, <2>1, <2>2 DEF FileInv, Index!TypeOK, Index!call
<1>7. CallsRefer' BY <1>1, <1>5, CallKept DEF FileInv, CallsRefer, SameCall, Index!call
<1>8. JanitorRefers(j)'
  <2>1. /\ jpc'[j] = "unindex" /\ jid'[j] = i /\ jhash'[j] = hash[i] /\ list'[j] = list[j] \ {p}
        /\ evicted'[j] = IF j = "sweep" THEN evicted[j] \cup {p} ELSE evicted[j]
    BY <1>1 DEF FileInv, Index!TypeOK
  <2>2. JanitorRefers(j) BY DEF FileInv, JanitorsRefer
  <2>3. p \in evicted'[j] BY <1>1, <2>1, <2>2 DEF JanitorRefers, FileBounds
  <2>4. \A q \in list'[j] : StillHas(q[1], q[2])' BY <1>5, <2>1, <2>2, HasKept DEF JanitorRefers
  <2> QED BY <1>3, <1>5, <2>1, <2>2, <2>3, <2>4 DEF JanitorRefers
<1>9. \A k \in Janitors \ {j} : SameJanitor(k) BY <1>1 DEF SameJanitor, FileInv, Index!TypeOK
<1>10. JanitorsRefer' BY <1>5, <1>8, <1>9, JanitorsKept
<1>11. AllIndexed'
  <2>1. \A k \in SlabIds : Index!Indexing(k)' <=> Index!Indexing(k)
    BY <1>1 DEF Index!Indexing, Index!call
  <2> QED BY <1>1, <1>5, <2>1 DEF FileInv, AllIndexed
<1>12. LeftNothing'
  <2>1. \A u \in Users : shares'[u] \subseteq shares[u] BY <1>1
  <2> QED BY <1>1, <2>1 DEF FileInv, LeftNothing, Index!call
<1>13. SharedHeld'
  <2> SUFFICES ASSUME NEW v \in Users, NEW g \in shares'[v]
               PROVE  \E k \in SlabIds : hash'[k] = g /\ v \in srcs'[k]
    BY DEF SharedHeld
  <2>1. g \in shares[v] /\ (v \in srcs[i] => g # hash[i]) BY <1>1
  <2>2. PICK k \in SlabIds : hash[k] = g /\ v \in srcs[k] BY <2>1 DEF FileInv, SharedHeld
  <2>3. k # i BY <2>1, <2>2
  <2> QED BY <1>5, <2>2, <2>3
<1>14. Index!NoLastingOrphan'
  <2> SUFFICES ASSUME NEW k \in SlabIds, Index!Sourceless(k)'
               PROVE  (\E v \in Users : upc[v] = "evict" /\ uid[v] = k)'
    BY DEF Index!NoLastingOrphan
  <2>1. Index!Sourceless(k) BY <1>5 DEF Index!Sourceless
  <2> QED BY <1>1, <2>1 DEF FileInv, Index!NoLastingOrphan, Index!call
<1> QED BY <1>5, <1>6, <1>7, <1>10, <1>11, <1>12, <1>13, <1>14 DEF FileInv

(* A janitor takes out the postings of what it evicted. *)
LEMMA FileCleaned ==
  ASSUME FileBounds, FileInv, NEW j \in Janitors, Index!JanitorUnindex(j)
  PROVE  FileInv'
<1>1. /\ jpc[j] = "unindex" /\ jpc' = [jpc EXCEPT ![j] = "evict"]
      /\ kw' = kw \ {<<jid[j], jhash[j]>>}
      /\ jid' = [jid EXCEPT ![j] = NoId] /\ jhash' = [jhash EXCEPT ![j] = NoHash]
      /\ UNCHANGED <<Index!slab, userFiles, Index!call, list, evicted, visit, shares>>
  BY DEF Index!JanitorUnindex, Index!JanitorGoto
<1>2. JanitorRefers(j) /\ jid[j] \in quar BY <1>1 DEF FileInv, JanitorsRefer, JanitorRefers
<1>3. Index!TypeOK' BY <1>1 DEF FileInv, Index!TypeOK, Index!JanitorPcs, Index!slab, Index!call
<1>4. AllIndexed' BY <1>1, <1>2, UnindexedStill DEF Index!Indexing, Index!call
<1>5. JanitorRefers(j)'
  <2>1. jpc'[j] = "evict" BY <1>1 DEF FileInv, Index!TypeOK
  <2> QED BY <1>1, <1>2, <2>1 DEF JanitorRefers, StillHas, Index!slab
<1>6. \A k \in Janitors \ {j} : SameJanitor(k) BY <1>1 DEF SameJanitor, FileInv, Index!TypeOK
<1> QED BY <1>1, <1>3, <1>4, <1>5, <1>6, JanitorStep

-----------------------------------------------------------------------------
(* Every step keeps the invariant. *)
LEMMA FileStep ==
  ASSUME FileBounds, FileInv, (Index!Next \/ UNCHANGED Index!vars)
  PROVE  FileInv'
<1>1. ASSUME NEW u \in Users, Index!Publish(u) PROVE FileInv'
  <2>1. ASSUME NEW h \in IndexHashes, NEW s \in IndexSizes, NEW i \in SlabIds,
               Index!PublishNew(u, h, s, i) \/ Index!PublishKnown(u, h, s, i)
        PROVE  FileInv'
    BY <2>1, FileCreated, FileKnown
  <2>2. ASSUME NEW i \in SlabIds, Index!LookAgain(u, i) PROVE FileInv' BY <2>2, FileLooksAgain
  <2> QED BY <1>1, <2>1, <2>2, FileCallEnds, FileMerges, FileIndexed DEF Index!Publish
<1>2. ASSUME NEW u \in Users, Index!Depart(u) PROVE FileInv'
  BY <1>2, FileLeaves, FileLosesSource, FileOrphaned, FileSpared, FileUnindexed, FileCallEnds
   DEF Index!Depart
<1>3. ASSUME NEW j \in Janitors, Index!Clean(j) PROVE FileInv'
  BY <1>3, FileListed, FilePasses, FileEvicted, FileCleaned DEF Index!Clean
<1>4. ASSUME NEW i \in SlabIds, Index!QuarantineEnds(i) PROVE FileInv' BY <1>4, FileSlotFreed
<1>5. CASE UNCHANGED Index!vars
  <2>1. UNCHANGED <<Index!slab, kw, userFiles, Index!call, Index!janitor, shares>>
    BY <1>5 DEF Index!vars
  <2>2. Index!TypeOK' BY <2>1 DEF FileInv, Index!TypeOK, Index!slab, Index!call, Index!janitor
  <2>3. SlabKeeps BY <2>1 DEF SlabKeeps, Index!slab
  <2>4. SlabSound' /\ OneRecord' BY <2>1 DEF FileInv, SlabSound, OneRecord, Index!Alive, Index!slab
  <2>5. CallsRefer' BY <2>1, <2>3, CallKept DEF FileInv, CallsRefer, SameCall, Index!call
  <2>6. JanitorsRefer' BY <2>1, <2>3, JanitorKept DEF FileInv, JanitorsRefer
  <2>7. LeftNothing' /\ SharedHeld' BY <2>1 DEF FileInv, LeftNothing, SharedHeld, Index!call, Index!slab
  <2>8. Index!NoLastingOrphan'
    BY <2>1 DEF FileInv, Index!NoLastingOrphan, Index!Sourceless, Index!Alive, Index!call,
                Index!slab
  <2> QED BY <2>1, <2>2, <2>4, <2>5, <2>6, <2>7, <2>8, StaysIndexed DEF FileInv
<1> QED BY <1>1, <1>2, <1>3, <1>4, <1>5 DEF Index!Next

(* What the runs check follows. *)
LEMMA FilesKept ==
  ASSUME FileBounds, FileInv
  PROVE  Index!TypeOK /\ Index!SharedFindable /\ Index!NoLastingOrphan /\ Index!PurgesWhatWasChecked
<1>1. Index!SharedFindable
  <2> SUFFICES ASSUME NEW u \in Users, NEW h \in shares[u]
               PROVE  \E i \in Index!Found(h) : u \in srcs[i] /\ (<<i, h>> \in kw \/ Index!Indexing(i))
    BY DEF Index!SharedFindable
  <2>1. PICK i \in SlabIds : hash[i] = h /\ u \in srcs[i] BY DEF FileInv, SharedHeld
  <2>2. Index!Alive(i) BY <2>1 DEF FileInv, Index!TypeOK, FileBounds, Index!Alive
  <2> QED BY <2>1, <2>2 DEF FileInv, AllIndexed, Index!Found
<1>2. Index!PurgesWhatWasChecked
  BY DEF FileInv, JanitorsRefer, JanitorRefers, Index!PurgesWhatWasChecked
<1> QED BY <1>1, <1>2 DEF FileInv

-----------------------------------------------------------------------------
(* While nothing is purged, postings are of what is there.                   *)
LEMMA Untouched ==
  ASSUME FileInv, Precise, UNCHANGED <<hash, srcs, kw>>,
         \A u \in Users : upc'[u] = "keyword" => upc[u] = "keyword" /\ uid'[u] = uid[u],
         \A i, h : Index!Unindexing(i, h) => Index!Unindexing(i, h)'
  PROVE  Precise'
<1>1. KeywordHeld' BY DEF Precise, KeywordHeld
<1>2. DeadBare' BY DEF Precise, DeadBare, Index!Alive
<1>3. Index!PostingsPrecise' BY DEF Precise, Index!PostingsPrecise
<1> QED BY <1>1, <1>2, <1>3 DEF Precise

(* A slot that is used again has no posting left of its old file. *)
LEMMA PreciseCreated ==
  ASSUME FileBounds, FileInv, Precise, NEW u \in Users,
         NEW h \in IndexHashes, NEW s \in IndexSizes, NEW i \in SlabIds,
         Index!PublishNew(u, h, s, i)
  PROVE  Precise'
<1>1. /\ upc[u] = "idle" /\ upc'[u] = "keyword" /\ uid'[u] = i
      /\ UNCHANGED <<kw, Index!janitor>> /\ \A v \in Users \ {u} : SameCall(v)
  BY DEF FileInv, Index!TypeOK, Index!PublishNew, Index!UserGoto, SameCall
<1>2. /\ i \in fresh \cup aged /\ hash' = [hash EXCEPT ![i] = h] /\ srcs' = [srcs EXCEPT ![i] = {u}]
  BY DEF Index!PublishNew, Index!InsertRecord
<1>3. hash[i] = NoHash /\ i \notin quar BY <1>2 DEF FileInv, Index!TypeOK, SlabSound
<1>4. \A k \in SlabIds \ {i} : hash'[k] = hash[k] /\ srcs'[k] = srcs[k]
  BY <1>2 DEF FileInv, Index!TypeOK
<1>5. hash'[i] = h /\ srcs'[i] = {u} BY <1>2 DEF FileInv, Index!TypeOK
<1>6. KeywordHeld'
  <2> SUFFICES ASSUME NEW v \in Users, upc'[v] = "keyword" PROVE v \in srcs'[uid'[v]]
    BY DEF KeywordHeld
  <2>1. CASE v = u BY <1>1, <1>5, <2>1
  <2>2. CASE v # u
    <3>1. upc[v] = "keyword" /\ uid'[v] = uid[v] BY <1>1, <2>2 DEF SameCall
    <3>2. v \in srcs[uid[v]] /\ StillHas(uid[v], uhash[v])
      BY <3>1 DEF Precise, KeywordHeld, FileInv, CallsRefer, CallRefers
    <3>3. uid[v] # i BY <1>3, <3>2 DEF StillHas, FileBounds
    <3> QED BY <1>4, <3>1, <3>2, <3>3 DEF StillHas
  <2> QED BY <2>1, <2>2
<1>7. DeadBare' BY <1>4, <1>5 DEF Precise, DeadBare, Index!Alive, FileBounds
<1>8. Index!PostingsPrecise'
  <2> SUFFICES ASSUME NEW p \in kw PROVE hash'[p[1]] = p[2] \/ Index!Unindexing(p[1], p[2])'
    BY <1>1 DEF Index!PostingsPrecise
  <2>1. p[1] \in SlabIds /\ p[2] \in IndexHashes BY DEF FileInv, Index!TypeOK
  <2>2. ~Index!Unindexing(i, p[2])
    <3>1. \A v \in Users : upc[v] = "unindex" => uid[v] \in quar BY DEF FileInv, CallsRefer, CallRefers
    <3>2. \A j \in Janitors : jpc[j] = "unindex" => jid[j] \in quar
      BY DEF FileInv, JanitorsRefer, JanitorRefers
    <3> QED BY <1>3, <3>1, <3>2 DEF Index!Unindexing
  <2>3. p[1] # i BY <1>3, <2>1, <2>2 DEF Precise, Index!PostingsPrecise, FileBounds
  <2>4. Index!Unindexing(p[1], p[2]) => Index!Unindexing(p[1], p[2])'
    BY <1>1 DEF Index!Unindexing, SameCall, Index!janitor
  <2> QED BY <1>4, <2>1, <2>3, <2>4 DEF Precise, Index!PostingsPrecise
<1> QED BY <1>6, <1>7, <1>8 DEF Precise

(* What is indexed is there: its publisher is a source of it. *)
LEMMA PreciseIndexed ==
  ASSUME FileBounds, FileInv, Precise, NEW u \in Users, Index!AddKeywords(u)
  PROVE  Precise'
<1>1. /\ upc[u] = "keyword" /\ upc'[u] = "reverse" /\ kw' = kw \cup {<<uid[u], uhash[u]>>}
      /\ UNCHANGED <<Index!slab, Index!janitor>> /\ \A v \in Users \ {u} : SameCall(v)
  BY DEF FileInv, Index!TypeOK, Index!AddKeywords, Index!UserGoto, SameCall
<1>2. u \in srcs[uid[u]] /\ StillHas(uid[u], uhash[u])
  BY <1>1 DEF Precise, KeywordHeld, FileInv, CallsRefer, CallRefers
<1>3. Index!Alive(uid[u]) BY <1>2 DEF Precise, DeadBare, StillHas
<1>4. hash[uid[u]] = uhash[u] BY <1>2, <1>3 DEF StillHas, FileInv, Index!TypeOK, Index!Alive
<1>5. \A i, h : Index!Unindexing(i, h) => Index!Unindexing(i, h)'
  BY <1>1 DEF Index!Unindexing, SameCall, Index!janitor
<1>6. KeywordHeld' BY <1>1 DEF Precise, KeywordHeld, SameCall, Index!slab
<1>7. DeadBare' BY <1>1 DEF Precise, DeadBare, Index!Alive, Index!slab
<1>8. Index!PostingsPrecise' BY <1>1, <1>4, <1>5 DEF Precise, Index!PostingsPrecise, Index!slab
<1> QED BY <1>6, <1>7, <1>8 DEF Precise

(* Sources change only of records that are there, and nobody loses the      *)
(* record it indexes.                                                       *)
LEMMA PreciseSources ==
  ASSUME FileBounds, FileInv, Precise, NEW u \in Users,
         Index!MergeSource(u) \/ \E i \in SlabIds : Index!RemoveSource(u, i)
  PROVE  Precise'
<1>1. /\ upc[u] \notin {"keyword", "unindex"} /\ upc'[u] \notin {"keyword", "unindex"}
      /\ UNCHANGED <<hash, kw, Index!janitor>> /\ \A v \in Users \ {u} : SameCall(v)
      /\ \A k \in SlabIds : srcs'[k] \in {srcs[k], srcs[k] \ {u}} \/ (Index!Alive(k) /\ srcs'[k] = srcs[k] \cup {u})
  <2>1. CASE Index!MergeSource(u)
    BY <2>1 DEF FileInv, Index!TypeOK, Index!MergeSource, Index!Mergeable, Index!UserGoto, SameCall
  <2>2. CASE \E i \in SlabIds : Index!RemoveSource(u, i)
    BY <2>2 DEF FileInv, Index!TypeOK, Index!RemoveSource, Index!UserGoto, SameCall
  <2> QED BY <2>1, <2>2
<1>2. \A i, h : Index!Unindexing(i, h) => Index!Unindexing(i, h)'
  BY <1>1 DEF Index!Unindexing, SameCall, Index!janitor
<1>3. KeywordHeld'
  <2> SUFFICES ASSUME NEW v \in Users, upc'[v] = "keyword" PROVE v \in srcs'[uid'[v]]
    BY DEF KeywordHeld
  <2>1. v # u /\ upc[v] = "keyword" /\ uid'[v] = uid[v] BY <1>1 DEF SameCall
  <2>2. v \in srcs[uid[v]] /\ uid[v] \in SlabIds
    BY <2>1 DEF Precise, KeywordHeld, FileInv, CallsRefer, CallRefers, StillHas
  <2> QED BY <1>1, <2>1, <2>2
<1>4. DeadBare' BY <1>1 DEF Precise, DeadBare, Index!Alive
<1>5. Index!PostingsPrecise' BY <1>1, <1>2 DEF Precise, Index!PostingsPrecise
<1> QED BY <1>3, <1>4, <1>5 DEF Precise

(* What is tombstoned has no source: nobody indexes it, and who tombstones   *)
(* it takes out its postings.                                                *)
LEMMA PreciseTombstoned ==
  ASSUME FileBounds, FileInv, Precise, NEW i \in SlabIds, NEW g, g = hash[i],
         Index!Sourceless(i), Index!Tombstone(i), UNCHANGED kw,
         \A v \in Users : upc'[v] = "keyword" => upc[v] = "keyword" /\ uid'[v] = uid[v],
         \A k, h : Index!Unindexing(k, h) => Index!Unindexing(k, h)',
         Index!Unindexing(i, g)'
  PROVE  Precise'
<1>1. /\ hash' = [hash EXCEPT ![i] = NoHash] /\ srcs' = [srcs EXCEPT ![i] = {}] BY DEF Index!Tombstone
<1>2. \A k \in SlabIds \ {i} : hash'[k] = hash[k] /\ srcs'[k] = srcs[k]
  BY <1>1 DEF FileInv, Index!TypeOK
<1>3. hash'[i] = NoHash /\ srcs'[i] = {} /\ srcs[i] = {}
  BY <1>1 DEF FileInv, Index!TypeOK, Index!Sourceless
<1>4. KeywordHeld'
  <2> SUFFICES ASSUME NEW v \in Users, upc'[v] = "keyword" PROVE v \in srcs'[uid'[v]]
    BY DEF KeywordHeld
  <2>1. upc[v] = "keyword" /\ uid'[v] = uid[v] OBVIOUS
  <2>2. v \in srcs[uid[v]] /\ uid[v] \in SlabIds
    BY <2>1 DEF Precise, KeywordHeld, FileInv, CallsRefer, CallRefers, StillHas
  <2> QED BY <1>2, <1>3, <2>1, <2>2
<1>5. DeadBare' BY <1>2, <1>3 DEF Precise, DeadBare, Index!Alive
<1>6. Index!PostingsPrecise'
  <2> SUFFICES ASSUME NEW p \in kw PROVE hash'[p[1]] = p[2] \/ Index!Unindexing(p[1], p[2])'
    BY DEF Index!PostingsPrecise
  <2>1. p[1] \in SlabIds BY DEF FileInv, Index!TypeOK
  <2>2. hash[p[1]] = p[2] \/ Index!Unindexing(p[1], p[2]) BY DEF Precise, Index!PostingsPrecise
  <2>3. CASE p[1] = i BY <2>2, <2>3
  <2>4. CASE p[1] # i BY <1>2, <2>1, <2>2, <2>4
  <2> QED BY <2>3, <2>4
<1> QED BY <1>4, <1>5, <1>6 DEF Precise

(* Departures and the sweep evict only what has no source. *)
LEMMA PreciseEvicted ==
  ASSUME FileBounds, FileInv, Precise, PurgeIdle,
         \/ \E u \in Users : Index!EvictOrphan(u)
         \/ \E j \in Janitors, p \in SlabIds \X IndexHashes : Index!JanitorEvict(j, p)
  PROVE  Precise'
<1>1. CASE \E u \in Users : Index!EvictOrphan(u)
  <2>1. PICK u \in Users : Index!EvictOrphan(u) BY <1>1
  <2>2. /\ upc[u] = "evict" /\ upc'[u] = "unindex" /\ uid'[u] = uid[u] /\ uhash'[u] = hash[uid[u]]
        /\ Index!Sourceless(uid[u]) /\ Index!Tombstone(uid[u]) /\ UNCHANGED <<kw, Index!janitor>>
        /\ \A v \in Users \ {u} : SameCall(v)
    BY <2>1 DEF FileInv, Index!TypeOK, Index!EvictOrphan, Index!UserGoto, SameCall
  <2>3. uid[u] \in SlabIds BY <2>2 DEF FileInv, CallsRefer, CallRefers
  <2>4. \A k, h : Index!Unindexing(k, h) => Index!Unindexing(k, h)'
    BY <2>2 DEF Index!Unindexing, SameCall, Index!janitor
  <2>5. PICK i \in SlabIds : i = uid[u] BY <2>3
  <2>6. PICK g : g = hash[i] OBVIOUS
  <2>7. \A v \in Users : upc'[v] = "keyword" => upc[v] = "keyword" /\ uid'[v] = uid[v]
    BY <2>2 DEF SameCall
  <2>8. Index!Unindexing(i, g)' BY <2>2, <2>5, <2>6 DEF Index!Unindexing
  <2>9. Index!Sourceless(i) /\ Index!Tombstone(i) BY <2>2, <2>5
  <2> QED BY <2>2, <2>4, <2>5, <2>7, <2>8, <2>9, <2>6, PreciseTombstoned
<1>2. CASE \E j \in Janitors, p \in SlabIds \X IndexHashes : Index!JanitorEvict(j, p)
  <2>1. PICK j \in Janitors, p \in SlabIds \X IndexHashes : Index!JanitorEvict(j, p) BY <1>2
  <2> DEFINE i == p[1]
  <2>2. /\ jpc[j] = "evict" /\ jpc' = [jpc EXCEPT ![j] = "unindex"] /\ Index!MayEvict(j, i)
        /\ Index!Tombstone(i) /\ jid' = [jid EXCEPT ![j] = i] /\ jhash' = [jhash EXCEPT ![j] = hash[i]]
        /\ UNCHANGED <<kw, Index!call>> /\ i \in SlabIds
    BY <2>1 DEF Index!JanitorEvict, Index!JanitorGoto
  <2> HIDE DEF i
  <2>3. Index!Sourceless(i) BY <2>2 DEF Index!MayEvict, PurgeIdle, FileBounds
  <2>4. \A k, h : Index!Unindexing(k, h) => Index!Unindexing(k, h)'
    BY <2>2 DEF Index!Unindexing, Index!call, FileInv, Index!TypeOK
  <2>5. jpc'[j] = "unindex" /\ jid'[j] = i /\ jhash'[j] = hash[i] BY <2>2 DEF FileInv, Index!TypeOK
  <2>6. PICK g : g = hash[i] OBVIOUS
  <2>7. Index!Unindexing(i, g)' BY <2>2, <2>5, <2>6 DEF Index!Unindexing
  <2> QED BY <2>2, <2>3, <2>4, <2>6, <2>7, PreciseTombstoned DEF Index!call
<1> QED BY <1>1, <1>2

(* The postings of what was evicted go with who takes them out. *)
LEMMA PostingsGone ==
  ASSUME FileInv, Precise, NEW i, NEW h, kw' = kw \ {<<i, h>>}, UNCHANGED Index!slab,
         \A v \in Users : upc'[v] = "keyword" => upc[v] = "keyword" /\ uid'[v] = uid[v],
         \A k, g : Index!Unindexing(k, g) => Index!Unindexing(k, g)' \/ (k = i /\ g = h)
  PROVE  Precise'
<1>1. KeywordHeld' BY DEF Precise, KeywordHeld, Index!slab
<1>2. DeadBare' BY DEF Precise, DeadBare, Index!Alive, Index!slab
<1>3. Index!PostingsPrecise'
  <2> SUFFICES ASSUME NEW p \in kw' PROVE hash[p[1]] = p[2] \/ Index!Unindexing(p[1], p[2])'
    BY DEF Index!PostingsPrecise, Index!slab
  <2>1. p \in kw /\ p # <<i, h>> OBVIOUS
  <2>2. p = <<p[1], p[2]>> BY <2>1 DEF FileInv, Index!TypeOK
  <2>3. hash[p[1]] = p[2] \/ Index!Unindexing(p[1], p[2]) BY <2>1 DEF Precise, Index!PostingsPrecise
  <2> QED BY <2>1, <2>2, <2>3
<1> QED BY <1>1, <1>2, <1>3 DEF Precise

(* Only who evicted a file takes out its postings. *)
LEMMA PreciseUnindexed ==
  ASSUME FileBounds, FileInv, Precise,
         (\E u \in Users : Index!RemoveKeywords(u)) \/ \E j \in Janitors : Index!JanitorUnindex(j)
  PROVE  Precise'
<1>1. ASSUME NEW u \in Users, Index!RemoveKeywords(u) PROVE Precise'
  <2>1. PICK i, h : i = uid[u] /\ h = uhash[u] OBVIOUS
  <2>2. /\ upc[u] = "unindex" /\ upc'[u] = "leave" /\ kw' = kw \ {<<i, h>>}
        /\ UNCHANGED <<Index!slab, Index!janitor>> /\ \A v \in Users \ {u} : SameCall(v)
    BY <1>1, <2>1 DEF FileInv, Index!TypeOK, Index!RemoveKeywords, Index!UserGoto, SameCall
  <2>3. \A k, g : Index!Unindexing(k, g) => Index!Unindexing(k, g)' \/ (k = i /\ g = h)
    BY <2>1, <2>2 DEF Index!Unindexing, SameCall, Index!janitor
  <2> QED BY <2>2, <2>3, PostingsGone DEF SameCall
<1>2. ASSUME NEW j \in Janitors, Index!JanitorUnindex(j) PROVE Precise'
  <2>1. PICK i, h : i = jid[j] /\ h = jhash[j] OBVIOUS
  <2>2. /\ jpc[j] = "unindex" /\ kw' = kw \ {<<i, h>>} /\ UNCHANGED <<Index!slab, Index!call>>
        /\ \A k \in Janitors \ {j} : SameJanitor(k)
    BY <1>2, <2>1 DEF FileInv, Index!TypeOK, Index!JanitorUnindex, Index!JanitorGoto, SameJanitor
  <2>3. \A k, g : Index!Unindexing(k, g) => Index!Unindexing(k, g)' \/ (k = i /\ g = h)
    BY <2>1, <2>2 DEF Index!Unindexing, SameJanitor, Index!call
  <2> QED BY <2>2, <2>3, PostingsGone DEF Index!call
<1> QED BY <1>1, <1>2

(* The other steps touch neither records nor postings. *)
LEMMA PreciseOtherwise ==
  ASSUME FileBounds, FileInv, Precise,
         \/ \E u \in Users :
              \/ \E h \in IndexHashes, s \in IndexSizes, i \in SlabIds : Index!PublishKnown(u, h, s, i)
              \/ \E i \in SlabIds : Index!LookAgain(u, i)
              \/ Index!MergeUnknown(u) \/ Index!MergeRefused(u) \/ Index!AddReverse(u)
              \/ Index!Leave(u) \/ Index!EvictSpared(u) \/ Index!LeaveDone(u)
         \/ \E j \in Janitors :
              \/ Index!ScanOrphans(j) \/ (\E ids \in SUBSET SlabIds : Index!CheckIndex(j, ids))
              \/ (\E p \in SlabIds \X IndexHashes : Index!JanitorSpares(j, p))
              \/ Index!JanitorListDone(j) \/ Index!JanitorDone(j)
              \/ (\E u \in Users : Index!PurgeUserFiles(j, u))
         \/ \E i \in SlabIds : Index!QuarantineEnds(i)
         \/ UNCHANGED Index!vars
  PROVE  Precise'
<1>1. ASSUME NEW u \in Users,
             \/ \E h \in IndexHashes, s \in IndexSizes, i \in SlabIds : Index!PublishKnown(u, h, s, i)
             \/ \E i \in SlabIds : Index!LookAgain(u, i)
             \/ Index!MergeUnknown(u) \/ Index!MergeRefused(u) \/ Index!AddReverse(u)
             \/ Index!Leave(u) \/ Index!EvictSpared(u) \/ Index!LeaveDone(u)
      PROVE  Precise'
  <2>1. /\ UNCHANGED <<Index!slab, kw, Index!janitor>> /\ \A v \in Users \ {u} : SameCall(v)
        /\ upc[u] \notin {"keyword", "unindex"} /\ upc'[u] \notin {"keyword", "unindex"}
    BY <1>1 DEF Index!PublishKnown, Index!LookAgain, Index!MergeUnknown, Index!MergeRefused,
                Index!AddReverse, Index!Leave, Index!EvictSpared,
                Index!LeaveDone, Index!UserIdle, Index!UserGoto, SameCall, FileInv, Index!TypeOK
  <2>2. \A i, h : Index!Unindexing(i, h) => Index!Unindexing(i, h)'
    BY <2>1 DEF Index!Unindexing, SameCall, Index!janitor
  <2>3. \A v \in Users : upc'[v] = "keyword" => upc[v] = "keyword" /\ uid'[v] = uid[v]
    BY <2>1 DEF SameCall
  <2>4. UNCHANGED <<hash, srcs, kw>> BY <2>1 DEF Index!slab
  <2> QED BY <2>2, <2>3, <2>4, Untouched
<1>2. ASSUME NEW j \in Janitors,
             \/ Index!ScanOrphans(j) \/ (\E ids \in SUBSET SlabIds : Index!CheckIndex(j, ids))
             \/ (\E p \in SlabIds \X IndexHashes : Index!JanitorSpares(j, p))
             \/ Index!JanitorListDone(j) \/ Index!JanitorDone(j)
             \/ (\E u \in Users : Index!PurgeUserFiles(j, u))
      PROVE  Precise'
  <2>1. /\ UNCHANGED <<Index!slab, kw, Index!call, jid, jhash>> /\ jpc[j] # "unindex"
        /\ \A k \in Janitors \ {j} : jpc'[k] = jpc[k]
    BY <1>2 DEF Index!ScanOrphans, Index!CheckIndex, Index!JanitorSpares, Index!JanitorListDone,
                Index!PurgeUserFiles, Index!JanitorDone,
                Index!JanitorGoto, FileInv, Index!TypeOK
  <2>2. \A i, h : Index!Unindexing(i, h) => Index!Unindexing(i, h)'
    BY <2>1 DEF Index!Unindexing, Index!call
  <2> QED BY <2>1, <2>2, Untouched DEF Index!slab, Index!call
<1>3. ASSUME (\E i \in SlabIds : Index!QuarantineEnds(i)) \/ UNCHANGED Index!vars PROVE Precise'
  <2>1. UNCHANGED <<hash, srcs, kw, Index!call, Index!janitor>>
    BY <1>3 DEF Index!QuarantineEnds, Index!vars, Index!slab
  <2>2. \A i, h : Index!Unindexing(i, h) => Index!Unindexing(i, h)'
    BY <2>1 DEF Index!Unindexing, Index!call, Index!janitor
  <2> QED BY <2>1, <2>2, Untouched DEF Index!call
<1> QED BY <1>1, <1>2, <1>3

(* Every step but those of a purge keeps postings precise. *)
LEMMA PreciseStep ==
  ASSUME FileBounds, FileInv, Precise, PurgeIdle, (Index!Next \/ UNCHANGED Index!vars)
  PROVE  Precise'
<1>1. ASSUME NEW u \in Users, Index!Publish(u) PROVE Precise'
  <2>1. ASSUME NEW h \in IndexHashes, NEW s \in IndexSizes, NEW i \in SlabIds, Index!PublishNew(u, h, s, i)
               PROVE  Precise'
    BY <2>1, PreciseCreated
  <2>2. ASSUME NEW h \in IndexHashes, NEW s \in IndexSizes, NEW i \in SlabIds, Index!PublishKnown(u, h, s, i)
               PROVE  Precise'
    BY <2>2, PreciseOtherwise
  <2>3. CASE Index!MergeSource(u) BY <2>3, PreciseSources
  <2>4. CASE Index!AddKeywords(u) BY <2>4, PreciseIndexed
  <2>5. CASE \/ (\E i \in SlabIds : Index!LookAgain(u, i))
             \/ Index!MergeUnknown(u) \/ Index!MergeRefused(u) \/ Index!AddReverse(u)
    BY <2>5, PreciseOtherwise
  <2> QED BY <1>1, <2>1, <2>2, <2>3, <2>4, <2>5 DEF Index!Publish
<1>2. ASSUME NEW u \in Users, Index!Depart(u) PROVE Precise'
  <2>1. CASE \E i \in SlabIds : Index!RemoveSource(u, i) BY <2>1, PreciseSources
  <2>2. CASE Index!EvictOrphan(u) BY <2>2, PreciseEvicted
  <2>3. CASE Index!RemoveKeywords(u) BY <2>3, PreciseUnindexed
  <2>4. CASE Index!Leave(u) \/ Index!EvictSpared(u) \/ Index!LeaveDone(u) BY <2>4, PreciseOtherwise
  <2> QED BY <1>2, <2>1, <2>2, <2>3, <2>4 DEF Index!Depart
<1>3. ASSUME NEW j \in Janitors, Index!Clean(j) PROVE Precise'
  <2>1. CASE \E p \in SlabIds \X IndexHashes : Index!JanitorEvict(j, p) BY <2>1, PreciseEvicted
  <2>2. CASE Index!JanitorUnindex(j) BY <2>2, PreciseUnindexed
  <2>3. CASE \/ Index!ScanOrphans(j) \/ (\E ids \in SUBSET SlabIds : Index!CheckIndex(j, ids))
             \/ (\E p \in SlabIds \X IndexHashes : Index!JanitorSpares(j, p))
             \/ Index!JanitorListDone(j) \/ Index!JanitorDone(j)
             \/ (\E u \in Users : Index!PurgeUserFiles(j, u))
    BY <2>3, PreciseOtherwise
  <2> QED BY <1>3, <2>1, <2>2, <2>3 DEF Index!Clean
<1>4. CASE (\E i \in SlabIds : Index!QuarantineEnds(i)) \/ UNCHANGED Index!vars
  BY <1>4, PreciseOtherwise
<1> QED BY <1>1, <1>2, <1>3, <1>4 DEF Index!Next

-----------------------------------------------------------------------------
(* Whatever publishes, departures, sweeps and purges interleave, what a user *)
(* shares is findable with the user as a source, a record without a source   *)
(* is one a departure is evicting, and a purge evicts what was checked.      *)
THEOREM SharedAlwaysFindable ==
  ASSUME FileBounds
  PROVE  Index!Spec => [](/\ Index!TypeOK /\ Index!SharedFindable
                         /\ Index!NoLastingOrphan /\ Index!PurgesWhatWasChecked)
<1>1. Index!Init => FileInv BY FileInit
<1>2. FileInv /\ (Index!Next \/ UNCHANGED Index!vars) => FileInv' BY FileStep
<1> QED BY <1>1, <1>2, FilesKept, PTL DEF Index!Spec

(* While the operator purges nothing, no posting outlives its record: every  *)
(* one names a live record of its own file, or is about to be taken out.     *)
THEOREM PostingsAlwaysPrecise ==
  ASSUME FileBounds, "purge" \notin Janitors
  PROVE  Index!Spec => []Index!PostingsPrecise
<1>1. Index!Init => FileInv /\ Precise BY FileInit
<1>2. FileInv /\ Precise /\ (Index!Next \/ UNCHANGED Index!vars) => FileInv' /\ Precise'
  BY FileStep, PreciseStep DEF PurgeIdle
<1>3. Precise => Index!PostingsPrecise BY DEF Precise
<1> QED BY <1>1, <1>2, <1>3, PTL DEF Index!Spec

(* While the sweep is looked at the purge rests. *)
SweepInv == works = "sweep" => Precise /\ PurgeIdle

(* The two together, one janitor at a time: what is shared is findable, no   *)
(* record or posting is left of what is gone, a purge evicts what was        *)
(* checked, and while it is the sweep that runs postings are precise too.    *)
THEOREM FilesAlwaysSound ==
  ASSUME FileBounds
  PROVE  Index!Init /\ works \in Janitors /\ [][Index!Next /\ OneJanitor]_<<Index!vars, works>>
           => []FilesSound
<1>1. Index!Init => FileInv /\ SweepInv BY FileInit DEF SweepInv, PurgeIdle, Index!Init
<1>2. FileInv /\ [Index!Next /\ OneJanitor]_<<Index!vars, works>> => FileInv' BY FileStep
<1>3. FileInv /\ SweepInv /\ [Index!Next /\ OneJanitor]_<<Index!vars, works>> => SweepInv'
  <2> SUFFICES ASSUME FileInv, SweepInv, [Index!Next /\ OneJanitor]_<<Index!vars, works>>, works' = "sweep"
               PROVE  Precise' /\ PurgeIdle'
    BY DEF SweepInv
  <2>1. works = "sweep" BY DEF OneJanitor
  <2>2. Precise' BY <2>1, PreciseStep DEF SweepInv
  <2>3. PurgeIdle' BY <2>1 DEF SweepInv, PurgeIdle, OneJanitor, Index!vars, Index!janitor
  <2> QED BY <2>2, <2>3
<1>4. FileInv /\ SweepInv => FilesSound BY FilesKept DEF SweepInv, Precise, FilesSound, SweptPrecise
<1> QED BY <1>1, <1>2, <1>3, <1>4, PTL

-----------------------------------------------------------------------------
PublishBounds ==
  /\ IsFiniteSet(Hashes) /\ IsFiniteSet(Conns)
  /\ Soft \in Nat /\ Threshold \in Nat /\ MaxBatch \in Nat

Catches == [Hashes -> {"no", "recent", "old"}]
TableSet == [attempts : Nat, warned : BOOLEAN, sourced : Nat, indexed : SUBSET Hashes,
             caught : Catches, banned : BOOLEAN, left : Seq(Hashes)]

Blocking(s) == {h \in Hashes : Verdict[h] = "block" /\ \E i \in 1 .. Len(s) : s[i] = h}

(* What a batch leaves behind it: who is banned has earned it with blocked  *)
(* files, which are those it offered.                                       *)
Earned(t, blocked) ==
  /\ Blocking(t.left) \subseteq blocked
  /\ \A h \in Hashes : t.caught[h] # "no" => h \in blocked
  /\ t.banned => Cardinality(blocked) > Threshold

(* A batch that has seen the last of its files counted adds no more; one   *)
(* that has not adds one.  Others may be others like it.                   *)
Alone(t) == t.sourced >= Cardinality(t.indexed) /\ Cardinality(t.indexed) <= Soft
Together(t, others) ==
  Cardinality(t.indexed) >= Soft =>
    Cardinality(t.indexed) + others + (IF t.sourced < Soft THEN 1 ELSE 0)
      <= Soft + Cardinality(Conns) - 1

-----------------------------------------------------------------------------
LEMMA PublishCardinality == \A S : Publish!Cardinality(S) = Cardinality(S)
BY DEF Publish!Cardinality, Cardinality

LEMMA HashesFinite ==
  ASSUME PublishBounds
  PROVE  \A S \in SUBSET Hashes : IsFiniteSet(S) /\ Cardinality(S) \in Nat
BY FS_Subset, FS_CardinalityType DEF PublishBounds

LEMMA SmallerSet ==
  ASSUME PublishBounds, NEW S \in SUBSET Hashes, NEW T \in SUBSET S
  PROVE  Cardinality(T) <= Cardinality(S)
BY HashesFinite, FS_Subset

LEMMA TailBlocking ==
  ASSUME NEW s \in Seq(Hashes), s # <<>>
  PROVE  /\ Head(s) \in Hashes /\ Tail(s) \in Seq(Hashes)
         /\ Blocking(Tail(s)) \subseteq Blocking(s)
         /\ Verdict[Head(s)] = "block" => Head(s) \in Blocking(s)
<1>1. /\ Head(s) \in Hashes /\ Tail(s) \in Seq(Hashes) /\ Len(Tail(s)) = Len(s) - 1
      /\ \A i \in 1 .. Len(Tail(s)) : Tail(s)[i] = s[i + 1]
  BY HeadTailProperties
<1>2. Len(s) \in Nat \ {0} BY EmptySeq
<1>3. ASSUME NEW i \in 1 .. Len(Tail(s)) PROVE i + 1 \in 1 .. Len(s) BY <1>1, <1>2
<1>4. Blocking(Tail(s)) \subseteq Blocking(s) BY <1>1, <1>3 DEF Blocking
<1>5. Head(s) = s[1] /\ 1 \in 1 .. Len(s) BY <1>2
<1> QED BY <1>1, <1>4, <1>5 DEF Blocking

LEMMA NoneBlocking == Blocking(<<>>) = {}
BY DEF Blocking

(* The fields of a record's outcome. *)
LEMMA BlockedFields ==
  ASSUME PublishBounds, NEW t \in TableSet, t.left # <<>>, NEW h \in Hashes
  PROVE  LET r == Publish!Blocked(t, h)
             catch == IF t.caught[h] = "no" THEN [t.caught EXCEPT ![h] = "recent"] ELSE t.caught
         IN /\ r \in TableSet /\ r.caught = catch /\ r.indexed = t.indexed /\ r.sourced = t.sourced
            /\ r.left = <<>> \/ r.left = Tail(t.left)
            /\ r.banned => t.banned \/ Cardinality({g \in Hashes : catch[g] = "recent"}) > Threshold
<1> DEFINE catch == IF t.caught[h] = "no" THEN [t.caught EXCEPT ![h] = "recent"] ELSE t.caught
           bans == Publish!Cardinality({g \in Hashes : catch[g] = "recent"}) > Threshold
           r == [t EXCEPT !.attempts = @ + 1, !.caught = catch, !.banned = @ \/ bans,
                          !.left = IF bans THEN <<>> ELSE Tail(@)]
<1>1. Publish!Blocked(t, h) = r BY DEF Publish!Blocked
<1>2. catch \in Catches BY DEF TableSet, Catches
<1>3. Tail(t.left) \in Seq(Hashes) /\ <<>> \in Seq(Hashes) BY TailBlocking, EmptySeq DEF TableSet
<1>4. bans \in BOOLEAN OBVIOUS
<1>5. bans => Cardinality({g \in Hashes : catch[g] = "recent"}) > Threshold BY PublishCardinality
<1> HIDE DEF catch, bans
<1>6. /\ r.attempts = t.attempts + 1 /\ r.caught = catch /\ r.indexed = t.indexed
      /\ r.sourced = t.sourced /\ r.left = IF bans THEN <<>> ELSE Tail(t.left)
  BY DEF TableSet
<1>7. r.banned = (t.banned \/ bans) /\ r.warned = t.warned BY Zenon DEF TableSet
<1>8. r \in TableSet
  <2>1. t.attempts + 1 \in Nat BY DEF TableSet
  <2>2. (IF bans THEN <<>> ELSE Tail(t.left)) \in Seq(Hashes) BY Zenon, <1>3
  <2>3. (t.banned \/ bans) \in BOOLEAN BY Zenon
  <2> QED BY Zenon, <1>2, <2>1, <2>2, <2>3 DEF TableSet
<1>9. r.left = <<>> \/ r.left = Tail(t.left) BY Zenon, <1>6
<1> HIDE DEF r
<1>10. r.banned => t.banned \/ Cardinality({g \in Hashes : catch[g] = "recent"}) > Threshold
  BY Zenon, <1>5, <1>7
<1> QED BY Zenon, <1>1, <1>6, <1>8, <1>9, <1>10 DEF catch

LEMMA BlockedEarns ==
  ASSUME PublishBounds, NEW t \in TableSet, t.left # <<>>, NEW h \in Hashes,
         NEW blocked \in SUBSET Hashes, h \in blocked, Earned(t, blocked)
  PROVE  Earned(Publish!Blocked(t, h), blocked)
<1> DEFINE r == Publish!Blocked(t, h)
           catch == IF t.caught[h] = "no" THEN [t.caught EXCEPT ![h] = "recent"] ELSE t.caught
           recent == {g \in Hashes : catch[g] = "recent"}
<1>1. /\ r \in TableSet /\ r.caught = catch
      /\ r.left = <<>> \/ r.left = Tail(t.left)
      /\ r.banned => t.banned \/ Cardinality(recent) > Threshold
  BY Zenon, BlockedFields
<1>2. t.left \in Seq(Hashes) /\ t.caught \in Catches BY DEF TableSet
<1>3. \A g \in Hashes : catch[g] # "no" => g \in blocked BY <1>2 DEF Earned, Catches
<1>4. recent \in SUBSET blocked BY <1>3
<1>5. Cardinality(recent) <= Cardinality(blocked) BY <1>4, SmallerSet
<1>6. Cardinality(recent) \in Nat /\ Cardinality(blocked) \in Nat BY HashesFinite
<1>7. Cardinality(recent) > Threshold => Cardinality(blocked) > Threshold
  <2> HIDE DEF recent
  <2> QED BY <1>5, <1>6 DEF PublishBounds
<1>8. t.banned => Cardinality(blocked) > Threshold BY Zenon DEF Earned
<1>9. Blocking(r.left) \subseteq blocked
  <2>1. CASE r.left = <<>> BY <2>1, NoneBlocking
  <2>2. CASE r.left = Tail(t.left) BY <1>2, <2>2, TailBlocking DEF Earned
  <2> QED BY <1>1, <2>1, <2>2
<1> HIDE DEF r, catch, recent
<1>10. r.banned => Cardinality(blocked) > Threshold BY Zenon, <1>1, <1>7, <1>8
<1>11. \A g \in Hashes : r.caught[g] # "no" => g \in blocked BY <1>1, <1>3
<1>12. Earned(r, blocked) BY Zenon, <1>9, <1>10, <1>11 DEF Earned
<1> QED BY <1>12 DEF r

LEMMA AllowedFields ==
  ASSUME PublishBounds, NEW t \in TableSet, t.left # <<>>, NEW h \in Hashes
  PROVE  LET r == Publish!Allowed(t, h)
         IN /\ r \in TableSet /\ r.caught = t.caught /\ r.banned = t.banned /\ r.left = Tail(t.left)
            /\ \/ r.indexed = t.indexed /\ r.sourced = t.sourced
               \/ /\ Soft > 0 => t.sourced < Soft \/ h \in t.indexed
                  /\ r.indexed = t.indexed \cup {h} /\ r.sourced = Cardinality(t.indexed \cup {h})
<1> DEFINE r == Publish!Allowed(t, h)
           full == Soft > 0 /\ t.sourced >= Soft /\ h \notin t.indexed
           grown == t.indexed \cup {h}
<1>1. Tail(t.left) \in Seq(Hashes) BY TailBlocking DEF TableSet
<1>2. CASE full
  <2>1. r = [t EXCEPT !.warned = TRUE, !.left = Tail(@)] BY <1>2 DEF Publish!Allowed
  <2>2. /\ r.indexed = t.indexed /\ r.sourced = t.sourced /\ r.caught = t.caught
        /\ r.left = Tail(t.left) /\ r.attempts = t.attempts
    BY <2>1 DEF TableSet
  <2>3. r.banned = t.banned BY Zenon, <2>1 DEF TableSet
  <2>4. r \in TableSet BY Zenon, <1>1, <2>1 DEF TableSet
  <2> QED BY Zenon, <2>2, <2>3, <2>4
<1>3. CASE ~full
  <2>1. r = [t EXCEPT !.indexed = @ \cup {h}, !.sourced = Publish!Cardinality(t.indexed \cup {h}),
                      !.left = Tail(@)]
    BY <1>3 DEF Publish!Allowed
  <2>2. grown \subseteq Hashes /\ Cardinality(grown) \in Nat
    <3>1. grown \subseteq Hashes BY DEF TableSet
    <3> QED BY <3>1, HashesFinite
  <2>3. r = [t EXCEPT !.indexed = grown, !.sourced = Cardinality(grown), !.left = Tail(t.left)]
    BY Zenon, <2>1, PublishCardinality DEF TableSet
  <2>4. Soft > 0 => t.sourced < Soft \/ h \in t.indexed BY <1>3 DEF TableSet, PublishBounds
  <2> HIDE DEF grown, full
  <2>5. /\ r.indexed = grown /\ r.sourced = Cardinality(grown) /\ r.caught = t.caught
        /\ r.left = Tail(t.left) /\ r.attempts = t.attempts
    BY <2>3 DEF TableSet
  <2>6. r.banned = t.banned BY Zenon, <2>3 DEF TableSet
  <2>7. r \in TableSet BY Zenon, <1>1, <2>2, <2>3 DEF TableSet
  <2> QED BY Zenon, <2>4, <2>5, <2>6, <2>7 DEF grown
<1> QED BY <1>2, <1>3

(* One more record keeps what is earned, and the budget alone or with others. *)
LEMMA RecordKeeps ==
  ASSUME PublishBounds, NEW t \in TableSet, t.left # <<>>, NEW blocked \in SUBSET Hashes,
         Earned(t, blocked)
  PROVE  LET r == Publish!Record(t)
         IN /\ r \in TableSet /\ Earned(r, blocked)
            /\ Soft > 0 /\ Alone(t) => Alone(r)
            /\ \A others \in 0 .. Cardinality(Conns) - 1 :
                 Soft > 0 /\ Together(t, others) => Together(r, others)
<1> DEFINE h == Head(t.left)
           r == Publish!Record(t)
<1>1. t.left \in Seq(Hashes) BY DEF TableSet
<1>2. /\ h \in Hashes /\ Tail(t.left) \in Seq(Hashes)
      /\ Blocking(Tail(t.left)) \subseteq Blocking(t.left)
      /\ Verdict[h] = "block" => h \in Blocking(t.left)
  BY <1>1, TailBlocking
<1> HIDE DEF h
<1>3. CASE Verdict[h] = "block"
  <2>1. r = Publish!Blocked(t, h) BY <1>3 DEF Publish!Record, h
  <2>2. h \in blocked BY <1>2, <1>3 DEF Earned
  <2>3. Earned(r, blocked) BY <1>2, <2>1, <2>2, BlockedEarns
  <2>4. r \in TableSet /\ r.indexed = t.indexed /\ r.sourced = t.sourced
    <3>1. /\ Publish!Blocked(t, h) \in TableSet
          /\ Publish!Blocked(t, h).indexed = t.indexed
          /\ Publish!Blocked(t, h).sourced = t.sourced
      BY Zenon, <1>2, BlockedFields
    <3> QED BY Zenon, <2>1, <3>1
  <2> QED BY Zenon, <2>3, <2>4 DEF Alone, Together
<1>4. CASE Verdict[h] = "poison"
  <2>1. r = [t EXCEPT !.left = Tail(@)] BY <1>4 DEF Publish!Record, h
  <2>2. r \in TableSet BY Zenon, <1>2, <2>1 DEF TableSet
  <2>3. r.indexed = t.indexed /\ r.sourced = t.sourced /\ r.caught = t.caught /\ r.left = Tail(t.left)
    BY <2>1 DEF TableSet
  <2>4. r.banned = t.banned BY Zenon, <2>1 DEF TableSet
  <2>5. Earned(r, blocked) BY Zenon, <1>2, <2>3, <2>4 DEF Earned
  <2> QED BY Zenon, <2>2, <2>3, <2>5 DEF Alone, Together
<1>5. CASE Verdict[h] \notin {"block", "poison"}
  <2>1. r = Publish!Allowed(t, h) BY <1>5 DEF Publish!Record, h
  <2>2. /\ r \in TableSet /\ r.caught = t.caught /\ r.banned = t.banned /\ r.left = Tail(t.left)
        /\ \/ r.indexed = t.indexed /\ r.sourced = t.sourced
           \/ /\ Soft > 0 => t.sourced < Soft \/ h \in t.indexed
              /\ r.indexed = t.indexed \cup {h} /\ r.sourced = Cardinality(t.indexed \cup {h})
    BY Zenon, <1>2, <2>1, AllowedFields
  <2>3. Earned(r, blocked) BY Zenon, <1>2, <2>2 DEF Earned
  <2>4. CASE r.indexed = t.indexed /\ r.sourced = t.sourced
    BY Zenon, <2>2, <2>3, <2>4 DEF Alone, Together
  <2>5. CASE /\ Soft > 0 => t.sourced < Soft \/ h \in t.indexed
             /\ r.indexed = t.indexed \cup {h} /\ r.sourced = Cardinality(t.indexed \cup {h})
    <3> DEFINE n == Cardinality(t.indexed)
               m == Cardinality(t.indexed \cup {h})
    <3>1. /\ n \in Nat /\ m \in Nat /\ n <= m /\ m <= n + 1 /\ (h \in t.indexed => m = n)
          /\ Cardinality(r.indexed) = m
      <4>1. IsFiniteSet(t.indexed) /\ n \in Nat BY HashesFinite DEF TableSet
      <4>2. m = IF h \in t.indexed THEN n ELSE n + 1 BY <4>1, FS_AddElement
      <4> HIDE DEF n, m
      <4>3. Cardinality(r.indexed) = m BY <2>5 DEF m
      <4> QED BY <4>1, <4>2, <4>3
    <3>2. r.sourced = m /\ t.sourced \in Nat BY <2>5 DEF TableSet
    <3>3. Soft > 0 => t.sourced < Soft \/ m = n BY <2>5, <3>1
    <3>4. Soft > 0 /\ Alone(t) => Alone(r)
      <4>1. Alone(t) => t.sourced >= n /\ n <= Soft BY DEF Alone
      <4> HIDE DEF n, m
      <4>2. Soft > 0 /\ Alone(t) => r.sourced >= m /\ m <= Soft
        BY <3>1, <3>2, <3>3, <4>1 DEF PublishBounds
      <4> QED BY <3>1, <4>2 DEF Alone
    <3>5. ASSUME NEW others \in 0 .. Cardinality(Conns) - 1, Soft > 0, Together(t, others)
          PROVE  Together(r, others)
      <4>1. n >= Soft => n + others + (IF t.sourced < Soft THEN 1 ELSE 0) <= Soft + Cardinality(Conns) - 1
        BY <3>5 DEF Together
      <4>2. Cardinality(Conns) \in Nat BY FS_CardinalityType DEF PublishBounds
      <4> HIDE DEF n, m
      <4>3. m >= Soft => m + others + (IF r.sourced < Soft THEN 1 ELSE 0) <= Soft + Cardinality(Conns) - 1
        <5> SUFFICES ASSUME m >= Soft
                     PROVE  m + others <= Soft + Cardinality(Conns) - 1
          BY <3>1, <3>2 DEF PublishBounds
        <5>1. CASE m = n
          <6>1. n + others + (IF t.sourced < Soft THEN 1 ELSE 0) <= Soft + Cardinality(Conns) - 1
            BY <4>1, <5>1
          <6> QED BY <3>1, <3>2, <4>2, <5>1, <6>1 DEF PublishBounds
        <5>2. CASE m = n + 1 /\ t.sourced < Soft
          BY <3>1, <3>2, <4>1, <4>2, <5>2 DEF PublishBounds
        <5> QED BY <3>1, <3>3, <3>5, <5>1, <5>2
      <4> QED BY <3>1, <4>3 DEF Together
    <3> HIDE DEF n, m
    <3> QED BY <2>2, <2>3, <3>4, <3>5
  <2> QED BY <2>2, <2>4, <2>5
<1> QED BY <1>3, <1>4, <1>5

-----------------------------------------------------------------------------
(* Induction over the numbers, as a fact about a set of them. *)
LEMMA NatSetInduction ==
  ASSUME NEW G, 0 \in G, \A n \in Nat : n \in G => n + 1 \in G
  PROVE  Nat \subseteq G
<1> DEFINE T == Nat \ G
           R == OpToRel(<, Nat)
<1>1. SUFFICES ASSUME T # {} PROVE FALSE
  OBVIOUS
<1>2. IsWellFoundedOn(R, Nat)
  BY NatLessThanWellFounded
<1>3. PICK x \in T : \A y \in T : ~(<<y, x>> \in R)
  <2> HIDE DEF R
  <2> QED BY <1>1, <1>2, WFMin
<1>4. \A y \in T : ~(y < x)
  <2> SUFFICES ASSUME NEW y \in T, y < x PROVE FALSE
    OBVIOUS
  <2>1. <<y, x>> \in R
    BY Zenon DEF OpToRel
  <2> QED BY <2>1, <1>3
<1> HIDE DEF R
<1>5. x # 0 /\ x - 1 \in Nat
  BY SMT
<1>6. x - 1 \notin T
  BY <1>4, <1>5
<1>7. x - 1 \in G BY <1>5, <1>6
<1>8. x \in Nat /\ (x - 1) + 1 = x /\ x \notin G OBVIOUS
<1> QED BY <1>5, <1>7, <1>8

OneMore(t) == IF t.left = <<>> THEN t ELSE Publish!Record(t)
IsRun(f, t, n) == f = [k \in 0 .. n |-> IF k = 0 THEN t ELSE OneMore(f[k - 1])]

LEMMA RunExists ==
  ASSUME NEW t, NEW n \in Nat
  PROVE  \E f : IsRun(f, t, n)
<1> DEFINE G == {m \in Nat : \E f : IsRun(f, t, m)}
<1>1. 0 \in G
  <2> DEFINE f == [k \in 0 .. 0 |-> t]
  <2>1. IsRun(f, t, 0) BY DEF IsRun
  <2> QED BY <2>1
<1>2. ASSUME NEW m \in Nat, m \in G PROVE m + 1 \in G
  <2>1. PICK f : IsRun(f, t, m) BY <1>2
  <2> DEFINE g == [k \in 0 .. m + 1 |-> IF k = m + 1 THEN OneMore(f[m]) ELSE f[k]]
  <2>2. \A k \in 0 .. m : g[k] = f[k] OBVIOUS
  <2>3. \A k \in 0 .. m : f[k] = IF k = 0 THEN t ELSE OneMore(f[k - 1]) BY <2>1 DEF IsRun
  <2>4. ASSUME NEW k \in 0 .. m + 1
        PROVE  g[k] = IF k = 0 THEN t ELSE OneMore(g[k - 1])
    <3>1. CASE k = m + 1
      <4>1. k # 0 /\ k - 1 = m /\ m \in 0 .. m BY <3>1
      <4>2. g[k - 1] = f[m] BY <2>2, <4>1
      <4>3. g[k] = OneMore(f[m]) BY <3>1
      <4> QED BY <4>1, <4>2, <4>3
    <3>2. CASE k # m + 1
      <4>1. k \in 0 .. m /\ (k # 0 => k - 1 \in 0 .. m) BY <3>2
      <4>2. g[k] = f[k] /\ (k # 0 => g[k - 1] = f[k - 1]) BY <2>2, <4>1
      <4> HIDE DEF g
      <4> QED BY <2>3, <4>1, <4>2
    <3> QED BY <3>1, <3>2
  <2>5. g = [k \in 0 .. m + 1 |-> g[k]] OBVIOUS
  <2> HIDE DEF g
  <2>6. g = [k \in 0 .. m + 1 |-> IF k = 0 THEN t ELSE OneMore(g[k - 1])]
    <3>1. [k \in 0 .. m + 1 |-> g[k]] = [k \in 0 .. m + 1 |-> IF k = 0 THEN t ELSE OneMore(g[k - 1])]
      BY <2>4
    <3> QED BY <2>5, <3>1
  <2>7. IsRun(g, t, m + 1) BY <2>6 DEF IsRun
  <2> QED BY <2>7
<1> HIDE DEF G
<1>3. Nat \subseteq G BY <1>1, <1>2, NatSetInduction
<1> QED BY <1>3 DEF G

LEMMA AfterIsRun ==
  ASSUME NEW t, NEW n \in Nat
  PROVE  \E f : IsRun(f, t, n) /\ Publish!After(t, n) = f[n]
<1> DEFINE f == CHOOSE run : run = [k \in 0 .. n |-> IF k = 0 THEN t
                                   ELSE IF run[k - 1].left = <<>> THEN run[k - 1] ELSE Publish!Record(run[k - 1])]
<1>1. PICK g : IsRun(g, t, n) BY RunExists
<1>2. g = [k \in 0 .. n |-> IF k = 0 THEN t
             ELSE IF g[k - 1].left = <<>> THEN g[k - 1] ELSE Publish!Record(g[k - 1])]
  BY <1>1 DEF IsRun, OneMore
<1>3. f = [k \in 0 .. n |-> IF k = 0 THEN t
             ELSE IF f[k - 1].left = <<>> THEN f[k - 1] ELSE Publish!Record(f[k - 1])]
  BY <1>2
<1>4. Publish!After(t, n) = f[n] BY DEF Publish!After
<1>5. IsRun(f, t, n)
  <2> HIDE DEF f
  <2> QED BY <1>3 DEF IsRun, OneMore
<1> QED BY <1>4, <1>5

(* Whatever holds of a batch and is kept by each record holds after n.     *)
LEMMA AfterKeeps ==
  ASSUME NEW t, NEW n \in Nat, NEW Good, t \in Good, \A r \in Good : OneMore(r) \in Good
  PROVE  Publish!After(t, n) \in Good
<1>1. PICK f : IsRun(f, t, n) /\ Publish!After(t, n) = f[n] BY AfterIsRun
<1>2. \A k \in 0 .. n : f[k] = IF k = 0 THEN t ELSE OneMore(f[k - 1]) BY <1>1 DEF IsRun
<1> DEFINE G == {k \in Nat : k <= n => f[k] \in Good}
<1>3. 0 \in G BY <1>2
<1>4. ASSUME NEW k \in Nat, k \in G PROVE k + 1 \in G
  <2> SUFFICES ASSUME k + 1 <= n PROVE f[k + 1] \in Good OBVIOUS
  <2>1. k + 1 \in 0 .. n /\ k + 1 # 0 /\ (k + 1) - 1 = k /\ k <= n OBVIOUS
  <2>2. f[k + 1] = OneMore(f[k]) BY <1>2, <2>1
  <2>3. f[k] \in Good BY <1>4, <2>1
  <2> QED BY <2>2, <2>3
<1> HIDE DEF G
<1>5. n \in G BY <1>3, <1>4, NatSetInduction
<1> QED BY <1>1, <1>5 DEF G

-----------------------------------------------------------------------------
PublishTypes ==
  /\ conn \in [Conns -> {"new", "in", "running", "gone"}] /\ current \in Conns \cup {0}
  /\ attempts \in [Conns -> Nat] /\ todo \in [Conns -> Seq(Hashes)] /\ sourced \in [Conns -> Nat]
  /\ indexed \in SUBSET Hashes /\ caught \in Catches /\ blockedEver \in SUBSET Hashes

PublishFlags ==
  warned \in [Conns -> BOOLEAN] /\ banned \in BOOLEAN /\ overlapped \in BOOLEAN

EarnedInv ==
  /\ \A c \in Conns : Blocking(todo[c]) \subseteq blockedEver
  /\ \A h \in Hashes : caught[h] # "no" => h \in blockedEver
  /\ banned => Cardinality(blockedEver) > Threshold

Batching == {c \in Conns : conn[c] = "running"}
Open == {c \in Batching : sourced[c] < Soft}

SharedBudget ==
  Soft > 0 /\ Cardinality(indexed) >= Soft =>
    Cardinality(indexed) + Cardinality(Open) <= Soft + Cardinality(Conns) - 1

OwnBudget ==
  Soft > 0 /\ ~overlapped =>
    /\ \A c, d \in Batching : c = d
    /\ \A c \in Batching : sourced[c] >= Cardinality(indexed)
    /\ Cardinality(indexed) <= Soft

BudgetInv == SharedBudget /\ OwnBudget
PublishInv == PublishTypes /\ PublishFlags /\ EarnedInv /\ BudgetInv

LEMMA OpenFinite ==
  ASSUME PublishBounds
  PROVE  /\ IsFiniteSet(Open) /\ Cardinality(Open) \in Nat /\ Cardinality(Conns) \in Nat
         /\ IsFiniteSet(Open') /\ Cardinality(Open') \in Nat
         /\ \A c \in Conns : Cardinality(Open \ {c}) \in 0 .. Cardinality(Conns) - 1
<1>1. Open \in SUBSET Conns BY DEF Open, Batching
<1>2. Open' \in SUBSET Conns BY DEF Open, Batching
<1>3. IsFiniteSet(Conns) /\ Cardinality(Conns) \in Nat BY FS_CardinalityType DEF PublishBounds
<1>4. IsFiniteSet(Open) /\ Cardinality(Open) \in Nat BY <1>1, <1>3, FS_Subset, FS_CardinalityType
<1>5. IsFiniteSet(Open') /\ Cardinality(Open') \in Nat BY <1>2, <1>3, FS_Subset, FS_CardinalityType
<1>6. ASSUME NEW c \in Conns PROVE Cardinality(Open \ {c}) \in 0 .. Cardinality(Conns) - 1
  <2>1. IsFiniteSet(Conns \ {c}) /\ Cardinality(Conns \ {c}) = Cardinality(Conns) - 1
    BY <1>3, FS_RemoveElement
  <2>2. (Open \ {c}) \in SUBSET (Conns \ {c}) BY <1>1
  <2>3. IsFiniteSet(Open \ {c}) /\ Cardinality(Open \ {c}) <= Cardinality(Conns \ {c})
    BY <2>1, <2>2, FS_Subset
  <2>4. Cardinality(Open \ {c}) \in Nat BY <2>3, FS_CardinalityType
  <2> QED BY <1>3, <2>1, <2>3, <2>4
<1> QED BY <1>3, <1>4, <1>5, <1>6

LEMMA BudgetLess ==
  ASSUME PublishBounds, PublishTypes, BudgetInv, Batching' \subseteq Batching, sourced' = sourced,
         indexed' = indexed \/ indexed' = {}, overlapped' = overlapped
  PROVE  BudgetInv'
<1>1. Cardinality(indexed) \in Nat /\ Cardinality({}) = 0 BY HashesFinite, FS_EmptySet DEF PublishTypes
<1>2. Cardinality(indexed') \in Nat /\ Cardinality(indexed') <= Cardinality(indexed)
  BY <1>1
<1>3. Open' \in SUBSET Open BY DEF Open
<1>4. Cardinality(Open') <= Cardinality(Open) BY <1>3, OpenFinite, FS_Subset
<1>5. SharedBudget'
  <2>1. CASE indexed' = indexed BY <1>1, <1>4, <2>1, OpenFinite DEF BudgetInv, SharedBudget, PublishBounds
  <2>2. CASE indexed' = {} BY <1>1, <2>2 DEF SharedBudget, PublishBounds
  <2> QED BY <2>1, <2>2
<1>6. OwnBudget'
  <2> SUFFICES ASSUME Soft > 0, ~overlapped'
               PROVE  /\ \A c, d \in Batching' : c = d
                      /\ \A c \in Batching' : sourced'[c] >= Cardinality(indexed')
                      /\ Cardinality(indexed') <= Soft
    BY DEF OwnBudget
  <2>1. ~overlapped BY Zenon
  <2>2. /\ \A c, d \in Batching : c = d
        /\ \A c \in Batching : sourced[c] >= Cardinality(indexed)
        /\ Cardinality(indexed) <= Soft
    BY Zenon, <2>1 DEF BudgetInv, OwnBudget
  <2>3. \A c \in Batching' : sourced[c] \in Nat BY DEF PublishTypes, Batching
  <2> QED BY <1>1, <1>2, <2>2, <2>3 DEF PublishBounds
<1> QED BY <1>5, <1>6 DEF BudgetInv

LEMMA EarnedLess ==
  ASSUME PublishTypes, EarnedInv, todo' = todo, blockedEver' = blockedEver, banned' => banned,
         \A h \in Hashes : caught'[h] # "no" => caught[h] # "no"
  PROVE  EarnedInv'
<1>1. \A c \in Conns : Blocking(todo[c])' = Blocking(todo[c]) BY DEF Blocking
<1>2. \A c \in Conns : Blocking(todo[c])' \subseteq blockedEver' BY <1>1 DEF EarnedInv
<1>3. \A h \in Hashes : caught'[h] # "no" => h \in blockedEver' BY DEF EarnedInv
<1>4. banned' => Cardinality(blockedEver') > Threshold BY Zenon DEF EarnedInv
<1> QED BY Zenon, <1>2, <1>3, <1>4 DEF EarnedInv

(* What a step of records leaves: the batch's tables are the publisher's.  *)
LEMMA TablesKnown ==
  ASSUME PublishTypes, PublishFlags, NEW c \in Conns
  PROVE  Publish!Tables(c) \in TableSet
<1>1. /\ attempts[c] \in Nat /\ sourced[c] \in Nat /\ indexed \in SUBSET Hashes /\ caught \in Catches
      /\ todo[c] \in Seq(Hashes)
  BY DEF PublishTypes
<1>2. warned[c] \in BOOLEAN /\ banned \in BOOLEAN BY Zenon DEF PublishFlags
<1> QED BY Zenon, <1>1, <1>2 DEF Publish!Tables, TableSet

LEMMA Written ==
  ASSUME PublishTypes, PublishFlags, EarnedInv, NEW c \in Conns, NEW t \in TableSet, Publish!Writes(c, t),
         conn' \in [Conns -> {"new", "in", "running", "gone"}], current' \in Conns \cup {0},
         overlapped' \in BOOLEAN, blockedEver' \in SUBSET Hashes, blockedEver \subseteq blockedEver',
         Earned(t, blockedEver')
  PROVE  PublishTypes' /\ PublishFlags' /\ EarnedInv'
<1>1. /\ attempts' = [attempts EXCEPT ![c] = t.attempts] /\ sourced' = [sourced EXCEPT ![c] = t.sourced]
      /\ todo' = [todo EXCEPT ![c] = t.left] /\ indexed' = t.indexed /\ caught' = t.caught
      /\ t.attempts \in Nat /\ t.sourced \in Nat /\ t.left \in Seq(Hashes) /\ t.indexed \in SUBSET Hashes
      /\ t.caught \in Catches
  BY DEF Publish!Writes, TableSet
<1>2. /\ warned' = [warned EXCEPT ![c] = t.warned] /\ banned' = t.banned
      /\ t.warned \in BOOLEAN /\ t.banned \in BOOLEAN
  BY Zenon DEF Publish!Writes, TableSet
<1>3. PublishTypes' BY <1>1 DEF PublishTypes
<1>4. PublishFlags' BY Zenon, <1>2 DEF PublishFlags
<1>5. \A d \in Conns : Blocking(todo[d])' \subseteq blockedEver'
  <2>1. todo'[c] = t.left /\ \A d \in Conns \ {c} : todo'[d] = todo[d] BY <1>1 DEF PublishTypes
  <2>2. Blocking(t.left) \subseteq blockedEver' BY DEF Earned
  <2>3. \A d \in Conns : Blocking(todo[d]) \subseteq blockedEver' BY DEF EarnedInv
  <2>4. \A d \in Conns : Blocking(todo[d])' = Blocking(todo'[d]) BY DEF Blocking
  <2> QED BY Zenon, <2>1, <2>2, <2>3, <2>4
<1>6. \A h \in Hashes : caught'[h] # "no" => h \in blockedEver' BY <1>1 DEF Earned
<1>7. banned' => Cardinality(blockedEver') > Threshold BY Zenon, <1>2 DEF Earned
<1>8. EarnedInv' BY Zenon, <1>5, <1>6, <1>7 DEF EarnedInv
<1> QED BY <1>3, <1>4, <1>8

(* The records of a batch, one or all of them. *)
LEMMA RecordsKeep ==
  ASSUME PublishBounds, NEW t \in TableSet, NEW n \in Nat, NEW blocked \in SUBSET Hashes,
         Earned(t, blocked), NEW others \in 0 .. Cardinality(Conns) - 1
  PROVE  LET r == Publish!After(t, n)
         IN /\ r \in TableSet /\ Earned(r, blocked)
            /\ Soft > 0 /\ Alone(t) => Alone(r)
            /\ Soft > 0 /\ Together(t, others) => Together(r, others)
<1> DEFINE Good == {r \in TableSet : /\ Earned(r, blocked)
                                     /\ Soft > 0 /\ Alone(t) => Alone(r)
                                     /\ Soft > 0 /\ Together(t, others) => Together(r, others)}
<1>1. t \in Good OBVIOUS
<1>2. ASSUME NEW r \in Good PROVE OneMore(r) \in Good
  <2>1. CASE r.left = <<>> BY <2>1 DEF OneMore
  <2>2. CASE r.left # <<>>
    <3>1. LET q == Publish!Record(r)
          IN /\ q \in TableSet /\ Earned(q, blocked)
             /\ Soft > 0 /\ Alone(r) => Alone(q)
             /\ \A o \in 0 .. Cardinality(Conns) - 1 : Soft > 0 /\ Together(r, o) => Together(q, o)
      BY Zenon, <2>2, RecordKeeps
    <3>2. OneMore(r) = Publish!Record(r) BY <2>2 DEF OneMore
    <3> QED BY Zenon, <3>1, <3>2
  <2> QED BY <2>1, <2>2
<1> HIDE DEF Good
<1>3. Publish!After(t, n) \in Good BY <1>1, <1>2, AfterKeeps
<1> QED BY Zenon, <1>3 DEF Good

(* A step that reads no records: nobody becomes a batch, nothing is added. *)
LEMMA NoRecords ==
  ASSUME PublishBounds, PublishInv, UNCHANGED <<attempts, todo, sourced, blockedEver>>,
         warned' = warned, overlapped' = overlapped,
         conn' \in [Conns -> {"new", "in", "running", "gone"}], current' \in Conns \cup {0},
         caught' \in Catches, \A h \in Hashes : caught'[h] # "no" => caught[h] # "no",
         banned' \in BOOLEAN, banned' => banned, Batching' \subseteq Batching,
         indexed' = indexed \/ indexed' = {}
  PROVE  PublishInv'
<1>1. PublishTypes' BY DEF PublishInv, PublishTypes
<1>2. PublishFlags' BY Zenon DEF PublishInv, PublishFlags
<1>3. EarnedInv' BY Zenon, EarnedLess DEF PublishInv
<1>4. BudgetInv' BY Zenon, BudgetLess DEF PublishInv
<1> QED BY <1>1, <1>2, <1>3, <1>4 DEF PublishInv

LEMMA ConnEnds ==
  ASSUME PublishInv, NEW c \in Conns, Publish!End(c)
  PROVE  /\ conn' \in [Conns -> {"new", "in", "running", "gone"}] /\ current' \in Conns \cup {0}
         /\ Batching' = Batching \ {c}
BY DEF PublishInv, PublishTypes, Publish!End, Batching

LEMMA PublishLogin ==
  ASSUME PublishBounds, PublishInv, NEW c \in Conns, Publish!Login(c)
  PROVE  PublishInv'
<1>1. /\ conn' \in [Conns -> {"new", "in", "running", "gone"}] /\ current' \in Conns \cup {0}
      /\ Batching' \subseteq Batching
  BY DEF Publish!Login, PublishInv, PublishTypes, Batching
<1>2. /\ UNCHANGED <<attempts, todo, sourced, indexed, caught, blockedEver>>
      /\ warned' = warned /\ overlapped' = overlapped /\ banned' = banned
  BY DEF Publish!Login, Publish!counters
<1>3. caught' \in Catches BY <1>2 DEF PublishInv, PublishTypes
<1>4. banned' \in BOOLEAN BY Zenon, <1>2 DEF PublishInv, PublishFlags
<1> QED BY Zenon, <1>1, <1>2, <1>3, <1>4, NoRecords

LEMMA PublishEnds ==
  ASSUME PublishBounds, PublishInv, NEW c \in Conns, Publish!End(c),
         indexed' = indexed \/ indexed' = {},
         UNCHANGED <<attempts, todo, sourced, caught, blockedEver>>,
         warned' = warned, overlapped' = overlapped, banned' = banned
  PROVE  PublishInv'
<1>1. /\ conn' \in [Conns -> {"new", "in", "running", "gone"}] /\ current' \in Conns \cup {0}
      /\ Batching' \subseteq Batching
  BY ConnEnds
<1>2. caught' \in Catches /\ caught' = caught BY DEF PublishInv, PublishTypes
<1>3. banned' \in BOOLEAN BY Zenon DEF PublishInv, PublishFlags
<1> QED BY Zenon, <1>1, <1>2, <1>3, NoRecords

LEMMA PublishDone ==
  ASSUME PublishBounds, PublishInv, NEW c \in Conns, Publish!PooledDone(c)
  PROVE  PublishInv'
<1>1. /\ UNCHANGED <<attempts, todo, sourced, caught, blockedEver>>
      /\ warned' = warned /\ overlapped' = overlapped /\ banned' = banned
  BY DEF Publish!PooledDone, Publish!counters
<1>2. CASE attempts[c] > Threshold
  <2>1. Publish!End(c) /\ (indexed' = indexed \/ indexed' = {}) BY <1>2 DEF Publish!PooledDone
  <2> QED BY <1>1, <2>1, PublishEnds
<1>3. CASE ~(attempts[c] > Threshold)
  <2>1. conn' = [conn EXCEPT ![c] = "in"] /\ UNCHANGED <<current, indexed>>
    BY <1>3 DEF Publish!PooledDone
  <2>2. /\ conn' \in [Conns -> {"new", "in", "running", "gone"}] /\ current' \in Conns \cup {0}
        /\ Batching' \subseteq Batching
    BY <2>1 DEF PublishInv, PublishTypes, Batching
  <2>3. caught' \in Catches /\ caught' = caught BY <1>1 DEF PublishInv, PublishTypes
  <2>4. banned' \in BOOLEAN BY Zenon, <1>1 DEF PublishInv, PublishFlags
  <2>5. indexed' = indexed BY <2>1
  <2> QED BY Zenon, <1>1, <2>2, <2>3, <2>4, <2>5, NoRecords
<1> QED BY <1>2, <1>3

LEMMA PublishTimes ==
  ASSUME PublishBounds, PublishInv,
         (\E h \in Hashes : Publish!WindowPasses(h)) \/ Publish!RetentionPasses
  PROVE  PublishInv'
<1>1. /\ UNCHANGED <<conn, current, attempts, todo, sourced, indexed, blockedEver>>
      /\ warned' = warned /\ overlapped' = overlapped
  BY DEF Publish!WindowPasses, Publish!RetentionPasses, Publish!counters
<1>2. caught' \in Catches /\ \A h \in Hashes : caught'[h] # "no" => caught[h] # "no"
  <2>1. ASSUME NEW h \in Hashes, Publish!WindowPasses(h)
        PROVE  caught' \in Catches /\ \A g \in Hashes : caught'[g] # "no" => caught[g] # "no"
    BY <2>1 DEF Publish!WindowPasses, PublishInv, PublishTypes, Catches
  <2>2. ASSUME Publish!RetentionPasses
        PROVE  caught' \in Catches /\ \A g \in Hashes : caught'[g] # "no" => caught[g] # "no"
    BY <2>2 DEF Publish!RetentionPasses, Catches
  <2> QED BY <2>1, <2>2
<1>3. banned' = banned \/ banned' = FALSE
  BY Zenon DEF Publish!WindowPasses, Publish!RetentionPasses
<1>4. banned' \in BOOLEAN /\ (banned' => banned)
  <2>1. CASE banned' = banned BY Zenon, <2>1 DEF PublishInv, PublishFlags
  <2>2. CASE banned' = FALSE BY <2>2
  <2> QED BY Zenon, <1>3, <2>1, <2>2
<1>5. /\ conn' \in [Conns -> {"new", "in", "running", "gone"}] /\ current' \in Conns \cup {0}
      /\ Batching' \subseteq Batching
  BY <1>1 DEF PublishInv, PublishTypes, Batching
<1> QED BY Zenon, <1>1, <1>2, <1>4, <1>5, NoRecords

(* A batch as a sequence; the blocked files it offers are noted. *)
LEMMA BatchNoted ==
  ASSUME PublishBounds, PublishInv, NEW b \in Publish!Batches, Publish!NotesOffer(b)
  PROVE  /\ b \in Seq(Hashes) /\ Len(b) \in Nat
         /\ blockedEver' \in SUBSET Hashes /\ blockedEver \subseteq blockedEver'
         /\ Blocking(b) \subseteq blockedEver'
<1>1. PICK n \in 1 .. MaxBatch : b \in [1 .. n -> Hashes] BY DEF Publish!Batches
<1>2. n \in Nat BY DEF PublishBounds
<1>3. b \in Seq(Hashes) BY <1>1, <1>2
<1>4. Len(b) \in Nat /\ DOMAIN b = 1 .. Len(b) /\ \A i \in 1 .. Len(b) : b[i] \in Hashes
  BY <1>3, LenProperties, ElementOfSeq
<1>5. Publish!Offered(b) = {b[i] : i \in 1 .. Len(b)} BY <1>4 DEF Publish!Offered
<1>6. blockedEver' = blockedEver \cup {h \in Publish!Offered(b) : Verdict[h] = "block"}
  BY DEF Publish!NotesOffer
<1>7. blockedEver' \in SUBSET Hashes BY <1>4, <1>5, <1>6 DEF PublishInv, PublishTypes
<1>8. Blocking(b) \subseteq blockedEver' BY <1>5, <1>6 DEF Blocking
<1> QED BY <1>3, <1>4, <1>6, <1>7, <1>8

(* What was earned of fewer blocked files is earned of more. *)
LEMMA EarnedOfMore ==
  ASSUME PublishBounds, PublishInv, NEW grown \in SUBSET Hashes, blockedEver \subseteq grown
  PROVE  /\ \A c \in Conns : Blocking(todo[c]) \subseteq grown
         /\ \A h \in Hashes : caught[h] # "no" => h \in grown
         /\ banned => Cardinality(grown) > Threshold
<1>1. Cardinality(blockedEver) <= Cardinality(grown) BY SmallerSet
<1>2. Cardinality(blockedEver) \in Nat /\ Cardinality(grown) \in Nat
  BY HashesFinite DEF PublishInv, PublishTypes
<1>3. Cardinality(blockedEver) > Threshold => Cardinality(grown) > Threshold
  BY <1>1, <1>2 DEF PublishBounds
<1>4. banned => Cardinality(grown) > Threshold BY Zenon, <1>3 DEF PublishInv, EarnedInv
<1>5. \A c \in Conns : Blocking(todo[c]) \subseteq grown BY DEF PublishInv, EarnedInv
<1>6. \A h \in Hashes : caught[h] # "no" => h \in grown BY DEF PublishInv, EarnedInv
<1> QED BY <1>4, <1>5, <1>6

LEMMA PublishPools ==
  ASSUME PublishBounds, PublishInv, NEW c \in Conns, NEW b \in Publish!Batches, Publish!OfferPooled(c, b)
  PROVE  PublishInv'
<1>1. /\ conn[c] = "in" /\ conn' = [conn EXCEPT ![c] = "running"]
      /\ todo' = [todo EXCEPT ![c] = b] /\ Publish!NotesOffer(b)
      /\ sourced' = [sourced EXCEPT ![c] = Cardinality(indexed)]
      /\ UNCHANGED <<current, attempts, indexed, caught>>
  BY PublishCardinality DEF Publish!OfferPooled, Publish!counters
<1>2. /\ overlapped' = (overlapped \/ \E d \in Conns \ {c} : conn[d] = "running")
      /\ warned' = warned /\ banned' = banned
  BY Zenon DEF Publish!OfferPooled, Publish!counters
<1>3. /\ b \in Seq(Hashes) /\ blockedEver' \in SUBSET Hashes /\ blockedEver \subseteq blockedEver'
      /\ Blocking(b) \subseteq blockedEver'
  BY <1>1, BatchNoted
<1>4. Cardinality(indexed) \in Nat BY HashesFinite DEF PublishInv, PublishTypes
<1>5. PublishTypes' BY <1>1, <1>3, <1>4 DEF PublishInv, PublishTypes
<1>6. PublishFlags'
  <2>1. overlapped' \in BOOLEAN BY <1>2
  <2> QED BY Zenon, <1>2, <2>1 DEF PublishInv, PublishFlags
<1>7. EarnedInv'
  <2>1. /\ \A d \in Conns : Blocking(todo[d]) \subseteq blockedEver'
        /\ \A h \in Hashes : caught[h] # "no" => h \in blockedEver'
        /\ banned => Cardinality(blockedEver') > Threshold
    BY Zenon, <1>3, EarnedOfMore
  <2>2. todo'[c] = b /\ \A d \in Conns \ {c} : todo'[d] = todo[d] BY <1>1 DEF PublishInv, PublishTypes
  <2>3. \A d \in Conns : Blocking(todo[d])' = Blocking(todo'[d]) BY DEF Blocking
  <2>4. \A d \in Conns : Blocking(todo[d])' \subseteq blockedEver' BY Zenon, <1>3, <2>1, <2>2, <2>3
  <2>5. \A h \in Hashes : caught'[h] # "no" => h \in blockedEver' BY <1>1, <2>1
  <2>6. banned' => Cardinality(blockedEver') > Threshold BY Zenon, <1>2, <2>1
  <2> QED BY Zenon, <2>4, <2>5, <2>6 DEF EarnedInv
<1>8. Batching' = Batching \cup {c} /\ c \notin Batching
  BY <1>1 DEF PublishInv, PublishTypes, Batching
<1>9. /\ sourced'[c] = Cardinality(indexed) /\ \A d \in Conns \ {c} : sourced'[d] = sourced[d]
  BY <1>1 DEF PublishInv, PublishTypes
<1>10. SharedBudget'
  <2> SUFFICES ASSUME Soft > 0, Cardinality(indexed) >= Soft
               PROVE  Cardinality(indexed) + Cardinality(Open') <= Soft + Cardinality(Conns) - 1
    BY <1>1 DEF SharedBudget
  <2>1. ~(sourced'[c] < Soft) BY <1>4, <1>9 DEF PublishBounds
  <2>2. Open' = Open BY <1>8, <1>9, <2>1 DEF Open, Batching
  <2> QED BY <2>2 DEF PublishInv, BudgetInv, SharedBudget
<1>11. OwnBudget'
  <2> SUFFICES ASSUME Soft > 0, ~overlapped'
               PROVE  /\ \A d, e \in Batching' : d = e
                      /\ \A d \in Batching' : sourced'[d] >= Cardinality(indexed')
                      /\ Cardinality(indexed') <= Soft
    BY DEF OwnBudget
  <2>1. ~overlapped /\ \A d \in Conns \ {c} : conn[d] # "running" BY Zenon, <1>2
  <2>2. Batching' \subseteq {c} BY <1>8, <2>1 DEF Batching
  <2>3. Cardinality(indexed) <= Soft BY Zenon, <2>1 DEF PublishInv, BudgetInv, OwnBudget
  <2> QED BY <1>1, <1>4, <1>9, <2>2, <2>3
<1> QED BY <1>5, <1>6, <1>7, <1>10, <1>11 DEF PublishInv, BudgetInv

(* The tables a batch starts from. *)
LEMMA InlineTables ==
  ASSUME PublishBounds, PublishInv, NEW c \in Conns, NEW b \in Seq(Hashes),
         NEW grown \in SUBSET Hashes, blockedEver \subseteq grown, Blocking(b) \subseteq grown
  PROVE  LET t == [Publish!Tables(c) EXCEPT !.left = b, !.sourced = Publish!Cardinality(indexed)]
         IN /\ t \in TableSet /\ Earned(t, grown) /\ t.indexed = indexed
            /\ t.sourced = Cardinality(indexed)
<1> DEFINE t == [Publish!Tables(c) EXCEPT !.left = b, !.sourced = Publish!Cardinality(indexed)]
           u == Publish!Tables(c)
<1>1. u \in TableSet BY TablesKnown DEF PublishInv
<1>2. t = [u EXCEPT !.left = b, !.sourced = Cardinality(indexed)] BY Zenon, PublishCardinality
<1>3. Cardinality(indexed) \in Nat BY HashesFinite DEF PublishInv, PublishTypes
<1>4. u.indexed = indexed /\ u.caught = caught BY DEF Publish!Tables
<1>5. u.banned = banned BY Zenon DEF Publish!Tables
<1> HIDE DEF t, u
<1>6. t \in TableSet BY Zenon, <1>1, <1>2, <1>3 DEF TableSet
<1>7. t.indexed = u.indexed /\ t.caught = u.caught /\ t.left = b /\ t.sourced = Cardinality(indexed)
  BY <1>1, <1>2 DEF TableSet
<1>8. t.banned = u.banned BY Zenon, <1>1, <1>2 DEF TableSet
<1>9. /\ \A h \in Hashes : caught[h] # "no" => h \in grown
      /\ banned => Cardinality(grown) > Threshold
  BY Zenon, EarnedOfMore
<1>10. Earned(t, grown) BY Zenon, <1>4, <1>5, <1>7, <1>8, <1>9 DEF Earned
<1> QED BY Zenon, <1>4, <1>6, <1>7, <1>10 DEF t

LEMMA PublishInline ==
  ASSUME PublishBounds, PublishInv, NEW c \in Conns, NEW b \in Publish!Batches, Publish!OfferInline(c, b)
  PROVE  PublishInv'
<1> DEFINE t == [Publish!Tables(c) EXCEPT !.left = b, !.sourced = Publish!Cardinality(indexed)]
           r == Publish!After(t, Len(b))
           q == [r EXCEPT !.indexed = IF current = c THEN {} ELSE @]
           others == Cardinality(Open \ {c})
<1>1. /\ conn[c] = "in" /\ Publish!NotesOffer(b)
      /\ IF r.attempts > Threshold THEN Publish!End(c) /\ Publish!Writes(c, q)
         ELSE Publish!Writes(c, r) /\ UNCHANGED <<conn, current>>
  BY DEF Publish!OfferInline
<1>2. overlapped' = (overlapped \/ \E d \in Conns \ {c} : conn[d] = "running")
  BY Zenon DEF Publish!OfferInline
<1>3. /\ b \in Seq(Hashes) /\ Len(b) \in Nat
      /\ blockedEver' \in SUBSET Hashes /\ blockedEver \subseteq blockedEver'
      /\ Blocking(b) \subseteq blockedEver'
  BY <1>1, BatchNoted
<1>4. /\ t \in TableSet /\ Earned(t, blockedEver') /\ t.indexed = indexed
      /\ t.sourced = Cardinality(indexed)
  BY Zenon, <1>3, InlineTables
<1>5. others \in 0 .. Cardinality(Conns) - 1 BY OpenFinite
<1> HIDE DEF t, others
<1>6. /\ r \in TableSet /\ Earned(r, blockedEver')
      /\ Soft > 0 /\ Alone(t) => Alone(r)
      /\ Soft > 0 /\ Together(t, others) => Together(r, others)
  BY Zenon, <1>3, <1>4, <1>5, RecordsKeep
<1> HIDE DEF r
<1>7. overlapped' \in BOOLEAN BY <1>2
<1>8. /\ q \in TableSet /\ Earned(q, blockedEver')
      /\ q.indexed = IF current = c THEN {} ELSE r.indexed
  <2>1. r.indexed \in SUBSET Hashes BY <1>6 DEF TableSet
  <2>2. (IF current = c THEN {} ELSE r.indexed) \in SUBSET Hashes BY <2>1
  <2>3. q = [r EXCEPT !.indexed = IF current = c THEN {} ELSE r.indexed] BY Zenon, <1>6 DEF TableSet
  <2> HIDE DEF q
  <2>4. q \in TableSet BY Zenon, <1>6, <2>2, <2>3 DEF TableSet
  <2>5. q.indexed = (IF current = c THEN {} ELSE r.indexed) /\ q.caught = r.caught /\ q.left = r.left
    BY <1>6, <2>3 DEF TableSet
  <2>6. q.banned = r.banned BY Zenon, <1>6, <2>3 DEF TableSet
  <2>7. Earned(q, blockedEver') BY Zenon, <1>6, <2>5, <2>6 DEF Earned
  <2> QED BY <2>4, <2>5, <2>7
<1> HIDE DEF q
<1>9. /\ conn' \in [Conns -> {"new", "in", "running", "gone"}] /\ current' \in Conns \cup {0}
      /\ Batching' = Batching /\ c \notin Batching
  <2>1. c \notin Batching BY <1>1 DEF Batching
  <2>2. CASE r.attempts > Threshold BY <1>1, <2>1, <2>2, ConnEnds
  <2>3. CASE ~(r.attempts > Threshold)
    BY <1>1, <2>1, <2>3 DEF PublishInv, PublishTypes, Batching
  <2> QED BY <2>2, <2>3
<1>10. PICK w \in TableSet : /\ Publish!Writes(c, w) /\ Earned(w, blockedEver')
                             /\ w.indexed = r.indexed \/ w.indexed = {}
  <2>1. CASE r.attempts > Threshold BY <1>1, <1>8, <2>1
  <2>2. CASE ~(r.attempts > Threshold) BY <1>1, <1>6, <2>2
  <2> QED BY <2>1, <2>2
<1>11. PublishTypes' /\ PublishFlags' /\ EarnedInv'
  BY Zenon, <1>3, <1>7, <1>9, <1>10, Written DEF PublishInv
<1>12. /\ indexed' = r.indexed \/ indexed' = {}
       /\ \A d \in Conns \ {c} : sourced'[d] = sourced[d]
  BY <1>10 DEF Publish!Writes, PublishInv, PublishTypes
<1>13. Open' = Open /\ Open = Open \ {c}
  BY <1>9, <1>12 DEF Open, Batching
<1>14. /\ Cardinality(indexed) \in Nat /\ Cardinality(r.indexed) \in Nat /\ Cardinality({}) = 0
       /\ Cardinality(Conns) \in Nat
  <2>1. r.indexed \in SUBSET Hashes BY <1>6 DEF TableSet
  <2>2. Cardinality({}) = 0 BY FS_EmptySet
  <2> QED BY <2>1, <2>2, HashesFinite, OpenFinite DEF PublishInv, PublishTypes
<1>15. SharedBudget'
  <2> SUFFICES ASSUME Soft > 0, Cardinality(indexed') >= Soft
               PROVE  Cardinality(indexed') + Cardinality(Open') <= Soft + Cardinality(Conns) - 1
    BY DEF SharedBudget
  <2>1. indexed' = r.indexed BY <1>12, <1>14 DEF PublishBounds
  <2>2. Cardinality(Open') = others BY <1>13 DEF others
  <2>3. Together(t, others)
    <3>1. Cardinality(indexed) >= Soft => Cardinality(indexed) + others <= Soft + Cardinality(Conns) - 1
      BY <1>13 DEF others, PublishInv, BudgetInv, SharedBudget
    <3> QED BY <1>4, <1>5, <1>14, <3>1 DEF Together, PublishBounds
  <2>4. Together(r, others) BY <1>6, <2>3
  <2>5. r.sourced \in Nat BY <1>6 DEF TableSet
  <2> QED BY <1>5, <1>14, <2>1, <2>2, <2>4, <2>5 DEF Together, PublishBounds
<1>16. OwnBudget'
  <2> SUFFICES ASSUME Soft > 0, ~overlapped'
               PROVE  /\ \A d, e \in Batching' : d = e
                      /\ \A d \in Batching' : sourced'[d] >= Cardinality(indexed')
                      /\ Cardinality(indexed') <= Soft
    BY DEF OwnBudget
  <2>1. ~overlapped /\ \A d \in Conns \ {c} : conn[d] # "running" BY Zenon, <1>2
  <2>2. Batching' = {} BY <1>9, <2>1 DEF Batching
  <2>3. Cardinality(indexed) <= Soft BY Zenon, <2>1 DEF PublishInv, BudgetInv, OwnBudget
  <2>4. Alone(t) BY <1>4, <1>14, <2>3 DEF Alone
  <2>5. Cardinality(r.indexed) <= Soft BY <1>6, <2>4 DEF Alone
  <2> QED BY <1>12, <1>14, <2>2, <2>5 DEF PublishBounds
<1> QED BY <1>11, <1>15, <1>16 DEF PublishInv, BudgetInv

LEMMA PublishRecord ==
  ASSUME PublishBounds, PublishInv, NEW c \in Conns, Publish!PooledRecord(c)
  PROVE  PublishInv'
<1> DEFINE t == Publish!Tables(c)
           r == Publish!After(t, 1)
           others == Cardinality(Open \ {c})
<1>1. /\ conn[c] = "running" /\ Publish!Writes(c, r)
      /\ UNCHANGED <<conn, current, blockedEver>>
  BY DEF Publish!PooledRecord
<1>2. overlapped' = overlapped BY DEF Publish!PooledRecord
<1>3. t \in TableSet BY TablesKnown DEF PublishInv
<1>4. /\ t.indexed = indexed /\ t.sourced = sourced[c] /\ t.left = todo[c] /\ t.caught = caught
  BY DEF Publish!Tables
<1>5. t.banned = banned BY Zenon DEF Publish!Tables
<1>6. Earned(t, blockedEver) BY Zenon, <1>4, <1>5 DEF Earned, PublishInv, EarnedInv
<1>7. others \in 0 .. Cardinality(Conns) - 1 BY OpenFinite
<1> HIDE DEF t, others
<1>8. /\ r \in TableSet /\ Earned(r, blockedEver)
      /\ Soft > 0 /\ Alone(t) => Alone(r)
      /\ Soft > 0 /\ Together(t, others) => Together(r, others)
  <2>1. blockedEver \in SUBSET Hashes BY DEF PublishInv, PublishTypes
  <2> QED BY Zenon, <1>3, <1>6, <1>7, <2>1, RecordsKeep
<1> HIDE DEF r
<1>9. PublishTypes' /\ PublishFlags' /\ EarnedInv'
  <2>1. /\ conn' \in [Conns -> {"new", "in", "running", "gone"}] /\ current' \in Conns \cup {0}
        /\ blockedEver' \in SUBSET Hashes /\ blockedEver \subseteq blockedEver'
    BY <1>1 DEF PublishInv, PublishTypes
  <2>2. overlapped' \in BOOLEAN BY Zenon, <1>2 DEF PublishInv, PublishFlags
  <2>3. Earned(r, blockedEver') BY <1>1, <1>8
  <2> QED BY Zenon, <1>1, <1>8, <2>1, <2>2, <2>3, Written DEF PublishInv
<1>10. /\ indexed' = r.indexed /\ sourced'[c] = r.sourced
       /\ \A d \in Conns \ {c} : sourced'[d] = sourced[d]
  BY <1>1 DEF Publish!Writes, PublishInv, PublishTypes
<1>11. /\ Cardinality(indexed) \in Nat /\ Cardinality(r.indexed) \in Nat /\ r.sourced \in Nat
       /\ sourced[c] \in Nat /\ Cardinality(Conns) \in Nat
  <2>1. r.indexed \in SUBSET Hashes /\ r.sourced \in Nat BY <1>8 DEF TableSet
  <2> QED BY <2>1, HashesFinite, OpenFinite DEF PublishInv, PublishTypes
<1>12. /\ Cardinality(Open) = others + (IF sourced[c] < Soft THEN 1 ELSE 0)
       /\ Cardinality(Open') = others + (IF r.sourced < Soft THEN 1 ELSE 0)
  <2>1. c \in Open <=> sourced[c] < Soft BY <1>1 DEF Open, Batching
  <2>2. c \in Open' <=> r.sourced < Soft BY <1>1, <1>10 DEF Open, Batching
  <2>3. Open' \ {c} = Open \ {c} BY <1>1, <1>10 DEF Open, Batching
  <2>4. Cardinality(Open \ {c}) = IF c \in Open THEN Cardinality(Open) - 1 ELSE Cardinality(Open)
    BY OpenFinite, FS_RemoveElement
  <2>5. Cardinality(Open' \ {c}) = IF c \in Open' THEN Cardinality(Open') - 1 ELSE Cardinality(Open')
    BY OpenFinite, FS_RemoveElement
  <2>6. others = Cardinality(Open \ {c}) /\ others = Cardinality(Open' \ {c}) BY <2>3 DEF others
  <2> QED BY <2>1, <2>2, <2>4, <2>5, <2>6, OpenFinite
<1>13. SharedBudget'
  <2> SUFFICES ASSUME Soft > 0, Cardinality(r.indexed) >= Soft
               PROVE  Cardinality(r.indexed) + Cardinality(Open') <= Soft + Cardinality(Conns) - 1
    BY <1>10 DEF SharedBudget
  <2>1. Together(t, others)
    <3>1. Cardinality(indexed) >= Soft =>
             Cardinality(indexed) + Cardinality(Open) <= Soft + Cardinality(Conns) - 1
      BY DEF PublishInv, BudgetInv, SharedBudget
    <3>2. Cardinality(Open) = others + (IF t.sourced < Soft THEN 1 ELSE 0) BY <1>4, <1>12
    <3> QED BY <1>4, <1>7, <1>11, <3>1, <3>2 DEF Together, PublishBounds
  <2>2. Together(r, others) BY <1>8, <2>1
  <2>3. Cardinality(r.indexed) + others + (IF r.sourced < Soft THEN 1 ELSE 0)
          <= Soft + Cardinality(Conns) - 1
    BY <2>2 DEF Together
  <2> QED BY <1>7, <1>11, <1>12, <2>3 DEF PublishBounds
<1>14. OwnBudget'
  <2> SUFFICES ASSUME Soft > 0, ~overlapped'
               PROVE  /\ \A d, e \in Batching' : d = e
                      /\ \A d \in Batching' : sourced'[d] >= Cardinality(indexed')
                      /\ Cardinality(indexed') <= Soft
    BY DEF OwnBudget
  <2>1. ~overlapped BY Zenon, <1>2
  <2>2. /\ \A d, e \in Batching : d = e
        /\ \A d \in Batching : sourced[d] >= Cardinality(indexed)
        /\ Cardinality(indexed) <= Soft
    BY Zenon, <2>1 DEF PublishInv, BudgetInv, OwnBudget
  <2>3. c \in Batching /\ Batching' = Batching BY <1>1 DEF Batching
  <2>4. Alone(t) BY <1>4, <2>2, <2>3 DEF Alone
  <2>5. r.sourced >= Cardinality(r.indexed) /\ Cardinality(r.indexed) <= Soft
    BY <1>8, <2>4 DEF Alone
  <2> QED BY <1>10, <2>2, <2>3, <2>5
<1> QED BY <1>9, <1>13, <1>14 DEF PublishInv, BudgetInv

LEMMA PublishInit ==
  ASSUME PublishBounds, Publish!Init
  PROVE  PublishInv
<1>1. <<>> \in Seq(Hashes) BY EmptySeq
<1>2. Cardinality({}) = 0 BY FS_EmptySet
<1>3. PublishTypes BY <1>1 DEF Publish!Init, PublishTypes, Catches
<1>4. PublishFlags
  <2>1. [c \in Conns |-> FALSE] \in [Conns -> BOOLEAN] OBVIOUS
  <2> QED BY Zenon, <2>1 DEF Publish!Init, PublishFlags
<1>5. EarnedInv
  <2>1. \A c \in Conns : Blocking(todo[c]) = {} BY NoneBlocking DEF Publish!Init
  <2>2. ~banned BY DEF Publish!Init
  <2>3. \A h \in Hashes : caught[h] = "no" BY DEF Publish!Init
  <2> QED BY Zenon, <2>1, <2>2, <2>3 DEF EarnedInv
<1>6. SharedBudget BY <1>2 DEF Publish!Init, SharedBudget, PublishBounds
<1>7. OwnBudget
  <2>1. Batching = {} BY DEF Publish!Init, Batching
  <2>2. Cardinality(indexed) <= Soft BY <1>2 DEF Publish!Init, PublishBounds
  <2> QED BY <2>1, <2>2 DEF OwnBudget
<1> QED BY <1>3, <1>4, <1>5, <1>6, <1>7 DEF PublishInv, BudgetInv

LEMMA PublishStep ==
  ASSUME PublishBounds, PublishInv, [Publish!Next]_Publish!vars
  PROVE  PublishInv'
<1>1. ASSUME NEW c \in Conns, Publish!Drop(c) PROVE PublishInv'
  <2>1. /\ Publish!End(c) /\ (indexed' = indexed \/ indexed' = {})
        /\ UNCHANGED <<attempts, todo, sourced, caught, blockedEver>>
        /\ warned' = warned /\ overlapped' = overlapped /\ banned' = banned
    BY <1>1 DEF Publish!Drop, Publish!counters
  <2> QED BY <2>1, PublishEnds
<1>2. ASSUME NEW c \in Conns, NEW b \in Publish!Batches, Publish!OfferRefused(c, b)
      PROVE  PublishInv'
  <2>1. /\ Publish!End(c) /\ (indexed' = indexed \/ indexed' = {})
        /\ UNCHANGED <<attempts, todo, sourced, caught, blockedEver>>
        /\ warned' = warned /\ overlapped' = overlapped /\ banned' = banned
    BY <1>2 DEF Publish!OfferRefused, Publish!counters
  <2> QED BY <2>1, PublishEnds
<1>3. CASE UNCHANGED Publish!vars
  <2>1. /\ UNCHANGED <<conn, current, attempts, todo, sourced, indexed, caught, blockedEver>>
        /\ warned' = warned /\ overlapped' = overlapped /\ banned' = banned
    BY <1>3 DEF Publish!vars, Publish!counters
  <2>2. /\ conn' \in [Conns -> {"new", "in", "running", "gone"}] /\ current' \in Conns \cup {0}
        /\ Batching' \subseteq Batching /\ caught' \in Catches
    BY <2>1 DEF PublishInv, PublishTypes, Batching
  <2>3. banned' \in BOOLEAN BY Zenon, <2>1 DEF PublishInv, PublishFlags
  <2> QED BY Zenon, <2>1, <2>2, <2>3, NoRecords
<1> QED BY <1>1, <1>2, <1>3, PublishLogin, PublishRecord, PublishDone, PublishInline, PublishPools,
           PublishTimes DEF Publish!Next

LEMMA PublishImplies ==
  ASSUME PublishBounds, PublishInv
  PROVE  PublishLimits
<1>1. Publish!TypeOK BY Zenon DEF Publish!TypeOK, PublishInv, PublishTypes, PublishFlags, Catches
<1>2. Publish!BanEarned
  BY Zenon, PublishCardinality DEF Publish!BanEarned, PublishInv, EarnedInv
<1>3. Publish!SoftBudget
  <2> SUFFICES ASSUME Soft > 0
               PROVE  Cardinality(indexed) <= IF overlapped THEN Soft + Cardinality(Conns) - 1 ELSE Soft
    BY PublishCardinality DEF Publish!SoftBudget
  <2>1. /\ Cardinality(indexed) \in Nat /\ Cardinality(Conns) \in Nat /\ Cardinality(Open) \in Nat
    BY HashesFinite, OpenFinite DEF PublishInv, PublishTypes
  <2>2. CASE ~overlapped BY Zenon, <2>2 DEF PublishInv, BudgetInv, OwnBudget
  <2>3. CASE overlapped
    <3>1. Cardinality(indexed) >= Soft =>
             Cardinality(indexed) + Cardinality(Open) <= Soft + Cardinality(Conns) - 1
      BY DEF PublishInv, BudgetInv, SharedBudget
    <3>2. Cardinality(indexed) <= Soft + Cardinality(Conns) - 1 BY <2>1, <3>1 DEF PublishBounds
    <3> QED BY Zenon, <2>3, <3>2
  <2> QED BY Zenon, <2>2, <2>3
<1> QED BY <1>1, <1>2, <1>3 DEF PublishLimits, Publish!PublishLimits

(* For any files, lists, thresholds and connections: a ban is earned with  *)
(* more distinct blocked files than the threshold, and the soft limit is   *)
(* exact until batches overlap, and then exceeded by one file for each     *)
(* other connection at most.                                               *)
THEOREM PublishAlwaysLimited ==
  ASSUME PublishBounds
  PROVE  Publish!Spec => []PublishLimits
<1>1. Publish!Init => PublishInv BY PublishInit
<1>2. PublishInv /\ [Publish!Next]_Publish!vars => PublishInv' BY PublishStep
<1>3. PublishInv => PublishLimits BY PublishImplies
<1> QED BY <1>1, <1>2, <1>3, PTL DEF Publish!Spec

-----------------------------------------------------------------------------
(* The members of a sequence that are in a set, of its first i: how Kept   *)
(* computes them one by one.                                               *)
Kept1(s, S, k, i) == IF s[i] \in S THEN Append(k, s[i]) ELSE k
KeepsRun(f, s, S, n) == f = [i \in 0 .. n |-> IF i = 0 THEN <<>> ELSE Kept1(s, S, f[i - 1], i)]

LEMMA KeptRunExists ==
  ASSUME NEW s, NEW S, NEW n \in Nat
  PROVE  \E f : KeepsRun(f, s, S, n)
<1> DEFINE G == {m \in Nat : \E f : KeepsRun(f, s, S, m)}
<1>1. 0 \in G
  <2> DEFINE f == [k \in 0 .. 0 |-> <<>>]
  <2>1. KeepsRun(f, s, S, 0) BY DEF KeepsRun
  <2> QED BY <2>1
<1>2. ASSUME NEW m \in Nat, m \in G PROVE m + 1 \in G
  <2>1. PICK f : KeepsRun(f, s, S, m) BY <1>2
  <2> DEFINE g == [k \in 0 .. m + 1 |-> IF k = m + 1 THEN Kept1(s, S, f[m], m + 1) ELSE f[k]]
  <2>2. \A k \in 0 .. m : g[k] = f[k] OBVIOUS
  <2>3. \A k \in 0 .. m : f[k] = IF k = 0 THEN <<>> ELSE Kept1(s, S, f[k - 1], k)
    BY <2>1 DEF KeepsRun
  <2>4. ASSUME NEW k \in 0 .. m + 1
        PROVE  g[k] = IF k = 0 THEN <<>> ELSE Kept1(s, S, g[k - 1], k)
    <3>1. CASE k = m + 1
      <4>1. k # 0 /\ k - 1 = m /\ m \in 0 .. m BY <3>1
      <4>2. g[k - 1] = f[m] BY <2>2, <4>1
      <4>3. g[k] = Kept1(s, S, f[m], m + 1) BY <3>1
      <4> QED BY <3>1, <4>1, <4>2, <4>3
    <3>2. CASE k # m + 1
      <4>1. k \in 0 .. m /\ (k # 0 => k - 1 \in 0 .. m) BY <3>2
      <4>2. g[k] = f[k] /\ (k # 0 => g[k - 1] = f[k - 1]) BY <2>2, <4>1
      <4> HIDE DEF g
      <4> QED BY <2>3, <4>1, <4>2
    <3> QED BY <3>1, <3>2
  <2>5. g = [k \in 0 .. m + 1 |-> g[k]] OBVIOUS
  <2> HIDE DEF g
  <2>6. [k \in 0 .. m + 1 |-> g[k]]
          = [k \in 0 .. m + 1 |-> IF k = 0 THEN <<>> ELSE Kept1(s, S, g[k - 1], k)]
    BY <2>4
  <2>7. KeepsRun(g, s, S, m + 1) BY <2>5, <2>6 DEF KeepsRun
  <2> QED BY <2>7
<1> HIDE DEF G
<1>3. Nat \subseteq G BY <1>1, <1>2, NatSetInduction
<1> QED BY <1>3 DEF G

LEMMA KeptIsRun ==
  ASSUME NEW s, NEW S, Len(s) \in Nat
  PROVE  \E f : KeepsRun(f, s, S, Len(s)) /\ Answer!Kept(s, S) = f[Len(s)]
<1> DEFINE f == CHOOSE kept : kept = [i \in 0 .. Len(s) |->
                  IF i = 0 THEN <<>> ELSE IF s[i] \in S THEN Append(kept[i - 1], s[i]) ELSE kept[i - 1]]
<1>1. PICK g : KeepsRun(g, s, S, Len(s)) BY KeptRunExists
<1>2. g = [i \in 0 .. Len(s) |->
             IF i = 0 THEN <<>> ELSE IF s[i] \in S THEN Append(g[i - 1], s[i]) ELSE g[i - 1]]
  BY <1>1 DEF KeepsRun, Kept1
<1>3. f = [i \in 0 .. Len(s) |->
             IF i = 0 THEN <<>> ELSE IF s[i] \in S THEN Append(f[i - 1], s[i]) ELSE f[i - 1]]
  BY <1>2
<1>4. Answer!Kept(s, S) = f[Len(s)] BY DEF Answer!Kept
<1>5. KeepsRun(f, s, S, Len(s))
  <2> HIDE DEF f
  <2> QED BY <1>3 DEF KeepsRun, Kept1
<1> QED BY <1>4, <1>5

(* A selection: which places of s its members come from, in order. *)
Places(g, k, s, S, n) ==
  /\ g \in [1 .. Len(k) -> 1 .. n]
  /\ \A i \in 1 .. Len(k) : k[i] = s[g[i]] /\ s[g[i]] \in S
  /\ \A i, j \in 1 .. Len(k) : i < j => g[i] < g[j]
  /\ \A m \in 1 .. n : s[m] \in S => \E i \in 1 .. Len(k) : g[i] = m

LEMMA KeptPlaces ==
  ASSUME NEW T, NEW s \in Seq(T), NEW S
  PROVE  /\ Answer!Kept(s, S) \in Seq(T)
         /\ \E g : Places(g, Answer!Kept(s, S), s, S, Len(s))
<1>1. Len(s) \in Nat /\ \A m \in 1 .. Len(s) : s[m] \in T BY LenProperties, ElementOfSeq
<1>2. PICK f : KeepsRun(f, s, S, Len(s)) /\ Answer!Kept(s, S) = f[Len(s)] BY <1>1, KeptIsRun
<1>3. \A n \in 0 .. Len(s) : f[n] = IF n = 0 THEN <<>> ELSE Kept1(s, S, f[n - 1], n)
  BY <1>2 DEF KeepsRun
<1> DEFINE G == {n \in Nat : n <= Len(s) => f[n] \in Seq(T) /\ \E g : Places(g, f[n], s, S, n)}
<1>4. 0 \in G
  <2>1. f[0] = <<>> BY <1>1, <1>3
  <2>2. <<>> \in Seq(T) /\ Len(<<>>) = 0 BY EmptySeq
  <2>3. Places(<<>>, <<>>, s, S, 0)
    <3>1. 1 .. 0 = {} /\ <<>> \in [1 .. 0 -> 1 .. 0] OBVIOUS
    <3> QED BY <2>2, <3>1 DEF Places
  <2> QED BY <2>1, <2>2, <2>3
<1>5. ASSUME NEW n \in Nat, n \in G PROVE n + 1 \in G
  <2> SUFFICES ASSUME n + 1 <= Len(s)
               PROVE  f[n + 1] \in Seq(T) /\ \E g : Places(g, f[n + 1], s, S, n + 1)
    OBVIOUS
  <2>1. n + 1 \in 0 .. Len(s) /\ n + 1 # 0 /\ (n + 1) - 1 = n /\ n <= Len(s) /\ n + 1 \in 1 .. Len(s)
    BY <1>1
  <2> DEFINE k == f[n]
             e == s[n + 1]
  <2>2. k \in Seq(T) BY <1>5, <2>1
  <2>3. PICK g : Places(g, k, s, S, n) BY <1>5, <2>1
  <2>4. f[n + 1] = Kept1(s, S, k, n + 1) /\ e \in T BY <1>1, <1>3, <2>1
  <2>5. Len(k) \in Nat BY <2>2, LenProperties
  <2>6. CASE e \in S
    <3> DEFINE h == [i \in 1 .. Len(k) + 1 |-> IF i <= Len(k) THEN g[i] ELSE n + 1]
               a == Append(k, e)
    <3>1. f[n + 1] = a BY <2>4, <2>6 DEF Kept1
    <3>2. /\ a \in Seq(T) /\ Len(a) = Len(k) + 1 /\ \A i \in 1 .. Len(k) : a[i] = k[i]
          /\ a[Len(k) + 1] = e
      BY <2>2, <2>4, AppendProperties
    <3> HIDE DEF a, k
    <3>3. /\ \A i \in 1 .. Len(k) : g[i] \in 1 .. n /\ h[i] = g[i]
          /\ h[Len(k) + 1] = n + 1
      BY <2>3, <2>5 DEF Places
    <3>4. h \in [1 .. Len(a) -> 1 .. n + 1]
      <4>1. ASSUME NEW i \in 1 .. Len(k) + 1
            PROVE  (IF i <= Len(k) THEN g[i] ELSE n + 1) \in 1 .. n + 1
        <5>1. i <= Len(k) => i \in 1 .. Len(k) BY <2>5
        <5>2. \A j \in 1 .. Len(k) : g[j] \in 1 .. n BY <2>3 DEF Places
        <5>3. i <= Len(k) => g[i] \in 1 .. n BY Zenon, <5>1, <5>2
        <5>4. 1 .. n \subseteq 1 .. n + 1 OBVIOUS
        <5>5. n + 1 \in 1 .. n + 1 OBVIOUS
        <5> QED BY Zenon, <5>3, <5>4, <5>5
      <4>2. h \in [1 .. Len(k) + 1 -> 1 .. n + 1] BY <4>1
      <4> QED BY <3>2, <4>2
    <3> HIDE DEF h
    <3>5. \A i \in 1 .. Len(a) : i \in 1 .. Len(k) \/ i = Len(k) + 1 BY <2>5, <3>2
    <3>6. \A i \in 1 .. Len(a) : a[i] = s[h[i]] /\ s[h[i]] \in S
      BY <2>3, <2>6, <3>2, <3>3, <3>5 DEF Places
    <3>7. ASSUME NEW i \in 1 .. Len(a), NEW j \in 1 .. Len(a), i < j PROVE h[i] < h[j]
      <4>1. i \in 1 .. Len(k) BY <2>5, <3>2, <3>7
      <4>2. CASE j \in 1 .. Len(k) BY <2>3, <3>3, <3>7, <4>1, <4>2 DEF Places
      <4>3. CASE j = Len(k) + 1 BY <3>3, <4>1, <4>3
      <4> QED BY <3>5, <4>2, <4>3
    <3>8. ASSUME NEW m \in 1 .. n + 1, s[m] \in S PROVE \E i \in 1 .. Len(a) : h[i] = m
      <4>1. CASE m \in 1 .. n
        <5>1. PICK i \in 1 .. Len(k) : g[i] = m BY <2>3, <3>8, <4>1 DEF Places
        <5>2. i \in 1 .. Len(a) BY <2>5, <3>2
        <5> QED BY <3>3, <5>1, <5>2
      <4>2. CASE m = n + 1
        <5>1. Len(k) + 1 \in 1 .. Len(a) BY <2>5, <3>2
        <5> QED BY <3>3, <4>2, <5>1
      <4> QED BY <4>1, <4>2
    <3>9. Places(h, a, s, S, n + 1) BY <3>4, <3>6, <3>7, <3>8 DEF Places
    <3> QED BY <3>1, <3>2, <3>9
  <2>7. CASE e \notin S
    <3>1. f[n + 1] = k BY <2>4, <2>7 DEF Kept1
    <3>2. g \in [1 .. Len(k) -> 1 .. n + 1]
      <4>1. g \in [1 .. Len(k) -> 1 .. n] BY <2>3 DEF Places
      <4>2. 1 .. n \subseteq 1 .. n + 1 OBVIOUS
      <4> QED BY <4>1, <4>2
    <3>3. \A m \in 1 .. n + 1 : s[m] \in S => m \in 1 .. n BY <2>7
    <3>4. Places(g, k, s, S, n + 1) BY <2>3, <3>2, <3>3 DEF Places
    <3> QED BY <2>2, <3>1, <3>4
  <2> QED BY <2>6, <2>7
<1> HIDE DEF G
<1>6. Len(s) \in G BY <1>1, <1>4, <1>5, NatSetInduction
<1> QED BY <1>1, <1>2, <1>6 DEF G

-----------------------------------------------------------------------------
Once(s) == \A i, j \in 1 .. Len(s) : s[i] = s[j] => i = j
Holds(s, x) == \E i \in 1 .. Len(s) : s[i] = x
(* Once one of the set is met, all that follow are of it. *)
Last(s, S) == \A i, j \in 1 .. Len(s) : i < j /\ s[i] \in S => s[j] \in S

LEMMA KeptFacts ==
  ASSUME NEW T, NEW s \in Seq(T), NEW S
  PROVE  LET k == Answer!Kept(s, S)
         IN /\ k \in Seq(T)
            /\ \A x : Holds(k, x) <=> Holds(s, x) /\ x \in S
            /\ Once(s) => Once(k)
            /\ \A L : Last(s, L) => Last(k, L)
<1> DEFINE k == Answer!Kept(s, S)
<1>1. k \in Seq(T) BY KeptPlaces
<1>2. PICK g : Places(g, k, s, S, Len(s)) BY KeptPlaces
<1> HIDE DEF k
<1>3. Len(k) \in Nat /\ Len(s) \in Nat BY <1>1, LenProperties
<1>4. /\ \A i \in 1 .. Len(k) : g[i] \in 1 .. Len(s) /\ k[i] = s[g[i]] /\ k[i] \in S
      /\ \A i, j \in 1 .. Len(k) : i < j => g[i] < g[j]
      /\ \A m \in 1 .. Len(s) : s[m] \in S => \E i \in 1 .. Len(k) : g[i] = m
  BY <1>2 DEF Places
<1>5. ASSUME NEW x PROVE Holds(k, x) <=> Holds(s, x) /\ x \in S
  <2>1. ASSUME Holds(k, x) PROVE Holds(s, x) /\ x \in S BY <1>4, <2>1 DEF Holds
  <2>2. ASSUME Holds(s, x), x \in S PROVE Holds(k, x)
    <3>1. PICK m \in 1 .. Len(s) : s[m] = x BY <2>2 DEF Holds
    <3>2. PICK i \in 1 .. Len(k) : g[i] = m BY <1>4, <2>2, <3>1
    <3> QED BY <1>4, <3>1, <3>2 DEF Holds
  <2> QED BY <2>1, <2>2
<1>6. ASSUME Once(s) PROVE Once(k)
  <2> SUFFICES ASSUME NEW i \in 1 .. Len(k), NEW j \in 1 .. Len(k), k[i] = k[j] PROVE i = j
    BY DEF Once
  <2>1. g[i] = g[j] BY <1>4, <1>6 DEF Once
  <2>2. i < j => g[i] < g[j] BY <1>4
  <2>3. j < i => g[j] < g[i] BY <1>4
  <2>4. g[i] \in Int /\ g[j] \in Int BY <1>3, <1>4
  <2> QED BY <2>1, <2>2, <2>3, <2>4
<1>7. ASSUME NEW L, Last(s, L) PROVE Last(k, L)
  <2> SUFFICES ASSUME NEW i \in 1 .. Len(k), NEW j \in 1 .. Len(k), i < j, k[i] \in L PROVE k[j] \in L
    BY DEF Last
  <2>1. g[i] < g[j] /\ s[g[i]] \in L BY <1>4
  <2> QED BY <1>4, <1>7, <2>1 DEF Last
<1> QED BY <1>1, <1>5, <1>6, <1>7 DEF k

LEMMA PrefixFacts ==
  ASSUME NEW T, NEW s \in Seq(T), NEW n \in Nat
  PROVE  LET p == Answer!Prefix(s, n)
         IN /\ p \in Seq(T) /\ Len(p) = IF Len(s) < n THEN Len(s) ELSE n
            /\ \A i \in 1 .. Len(p) : i \in 1 .. Len(s) /\ p[i] = s[i]
            /\ Once(s) => Once(p)
            /\ \A L : Last(s, L) => Last(p, L)
<1> DEFINE m == IF Len(s) < n THEN Len(s) ELSE n
           p == SubSeq(s, 1, m)
<1>1. Len(s) \in Nat /\ \A i \in 1 .. Len(s) : s[i] \in T BY LenProperties, ElementOfSeq
<1>2. m \in Nat /\ m <= Len(s) BY <1>1
<1> HIDE DEF m
<1>3. /\ p \in Seq(T) /\ Len(p) = IF 1 <= m THEN m - 1 + 1 ELSE 0
      /\ \A i \in 1 .. m - 1 + 1 : p[i] = s[1 + i - 1]
  <2>1. \A i \in 1 .. m : s[i] \in T BY <1>1, <1>2
  <2> QED BY <1>2, <2>1, SubSeqProperties
<1> HIDE DEF p
<1>4. Len(p) = m BY <1>2, <1>3
<1>5. \A i \in 1 .. Len(p) : i \in 1 .. Len(s) /\ p[i] = s[i] BY <1>1, <1>2, <1>3, <1>4
<1>6. Once(s) => Once(p) BY <1>5 DEF Once
<1>7. \A L : Last(s, L) => Last(p, L) BY <1>5 DEF Last
<1>8. Answer!Prefix(s, n) = p BY DEF Answer!Prefix, p, m
<1>9. Len(p) = IF Len(s) < n THEN Len(s) ELSE n BY <1>4 DEF m
<1> QED BY <1>3, <1>5, <1>6, <1>7, <1>8, <1>9

-----------------------------------------------------------------------------
Lives == {"high", "low", "natt", "gone"}
AnswerBounds ==
  /\ \A u \in Srcs : CanBe[u] \subseteq Lives
  /\ MaxReply \in Nat /\ Scan \in Nat /\ UdpScan \in Nat /\ UdpMax \in Nat /\ MaxMoves \in Nat

AnswerTypes ==
  /\ pubOrder \in Seq(Srcs) /\ Once(pubOrder)
  /\ live \in [Srcs -> Lives] /\ \A u \in Srcs : live[u] \in CanBe[u] \cup {"gone"}
  /\ moves \in 0 .. MaxMoves

LEMMA OrderedFacts ==
  ASSUME AnswerTypes, NEW n \in Nat
  PROVE  LET o == Answer!Ordered(n)
             p == Answer!Prefix(pubOrder, n)
         IN /\ o \in Seq(Srcs) /\ Once(o) /\ Last(o, Answer!LowIds)
            /\ \A x : Holds(o, x) <=> Holds(p, x)
<1> DEFINE p == Answer!Prefix(pubOrder, n)
           L == Answer!LowIds
           a == Answer!Kept(p, Srcs \ L)
           b == Answer!Kept(p, L)
           o == a \o b
<1>1. p \in Seq(Srcs) /\ Once(p)
  <2>1. pubOrder \in Seq(Srcs) /\ Once(pubOrder) BY DEF AnswerTypes
  <2> QED BY <2>1, PrefixFacts
<1> HIDE DEF p, L
<1>2. /\ a \in Seq(Srcs) /\ \A x : Holds(a, x) <=> Holds(p, x) /\ x \in Srcs \ L
      /\ Once(a)
  BY <1>1, KeptFacts
<1>3. /\ b \in Seq(Srcs) /\ \A x : Holds(b, x) <=> Holds(p, x) /\ x \in L
      /\ Once(b)
  BY <1>1, KeptFacts
<1> HIDE DEF a, b
<1>4. Len(a) \in Nat /\ Len(b) \in Nat BY <1>2, <1>3, LenProperties
<1>5. /\ o \in Seq(Srcs) /\ Len(o) = Len(a) + Len(b)
      /\ \A i \in 1 .. Len(a) + Len(b) : o[i] = IF i <= Len(a) THEN a[i] ELSE b[i - Len(a)]
  BY <1>2, <1>3, ConcatProperties
<1> HIDE DEF o
<1>6. ASSUME NEW i \in 1 .. Len(o)
      PROVE  \/ i \in 1 .. Len(a) /\ o[i] = a[i] /\ o[i] \in Srcs \ L
             \/ i - Len(a) \in 1 .. Len(b) /\ o[i] = b[i - Len(a)] /\ o[i] \in L
  <2>1. CASE i <= Len(a)
    <3>1. i \in 1 .. Len(a) /\ o[i] = a[i] BY <1>4, <1>5, <2>1
    <3> QED BY <1>2, <3>1 DEF Holds
  <2>2. CASE ~(i <= Len(a))
    <3>1. i - Len(a) \in 1 .. Len(b) /\ o[i] = b[i - Len(a)] BY <1>4, <1>5, <2>2
    <3> QED BY <1>3, <3>1 DEF Holds
  <2> QED BY <2>1, <2>2
<1>7. Once(o)
  <2> SUFFICES ASSUME NEW i \in 1 .. Len(o), NEW j \in 1 .. Len(o), o[i] = o[j] PROVE i = j
    BY DEF Once
  <2>1. CASE o[i] \in L
    <3>1. /\ i - Len(a) \in 1 .. Len(b) /\ j - Len(a) \in 1 .. Len(b)
          /\ b[i - Len(a)] = b[j - Len(a)]
      BY <1>6, <2>1
    <3>2. i - Len(a) = j - Len(a) BY <1>3, <3>1 DEF Once
    <3> QED BY <1>4, <3>2
  <2>2. CASE o[i] \notin L
    <3>1. i \in 1 .. Len(a) /\ j \in 1 .. Len(a) /\ a[i] = a[j] BY <1>6, <2>2
    <3> QED BY <1>2, <3>1 DEF Once
  <2> QED BY <2>1, <2>2
<1>8. Last(o, L)
  <2> SUFFICES ASSUME NEW i \in 1 .. Len(o), NEW j \in 1 .. Len(o), i < j, o[i] \in L PROVE o[j] \in L
    BY DEF Last
  <2>1. i - Len(a) \in 1 .. Len(b) BY <1>6
  <2>2. ~(j \in 1 .. Len(a)) BY <1>4, <2>1
  <2> QED BY <1>6, <2>2
<1>9. ASSUME NEW x PROVE Holds(o, x) <=> Holds(p, x)
  <2>1. ASSUME Holds(o, x) PROVE Holds(p, x)
    <3>1. PICK i \in 1 .. Len(o) : o[i] = x BY <2>1 DEF Holds
    <3>2. Holds(a, x) \/ Holds(b, x) BY <1>6, <3>1 DEF Holds
    <3> QED BY <1>2, <1>3, <3>2
  <2>2. ASSUME Holds(p, x) PROVE Holds(o, x)
    <3>1. x \in Srcs BY <1>1, <2>2, ElementOfSeq DEF Holds
    <3>2. Holds(a, x) \/ Holds(b, x) BY <1>2, <1>3, <2>2, <3>1
    <3>3. CASE Holds(a, x)
      <4>1. PICK i \in 1 .. Len(a) : a[i] = x BY <3>3 DEF Holds
      <4>2. i \in 1 .. Len(o) /\ o[i] = a[i] BY <1>4, <1>5, <4>1
      <4> QED BY <4>1, <4>2 DEF Holds
    <3>4. CASE Holds(b, x)
      <4>1. PICK i \in 1 .. Len(b) : b[i] = x BY <3>4 DEF Holds
      <4>2. /\ i + Len(a) \in 1 .. Len(o) /\ i + Len(a) \in 1 .. Len(a) + Len(b)
            /\ ~(i + Len(a) <= Len(a)) /\ (i + Len(a)) - Len(a) = i
        BY <1>4, <1>5
      <4>3. o[i + Len(a)] = b[i] BY <1>5, <4>2
      <4> QED BY <4>1, <4>2, <4>3 DEF Holds
    <3> QED BY <3>2, <3>3, <3>4
  <2> QED BY <2>1, <2>2
<1>10. Answer!Ordered(n) = o BY DEF Answer!Ordered, o, a, b, p, L
<1> QED BY <1>5, <1>7, <1>8, <1>9, <1>10 DEF p, L

-----------------------------------------------------------------------------
Recs == [owner : Srcs, natt : BOOLEAN, by : {"v6", "low", "addr"}]
Direct == {r \in Recs : r.by = "addr"}
OneEach(recs) == \A i, j \in 1 .. Len(recs) : recs[i].owner = recs[j].owner => i = j
DirectFirst(recs) == \A i, j \in 1 .. Len(recs) : i < j /\ recs[j].by = "addr" => recs[i].by = "addr"

(* No address of a source that had a LowID. *)
Discreet(recs, was) ==
  \A i \in 1 .. Len(recs) : recs[i].by = "addr" => was[recs[i].owner] \notin {"low", "natt"}

Dialled(of, was) ==
  {u \in Srcs : Holds(Answer!Prefix(of, Scan), u) /\ was[u] \in {"high", "gone"} /\ u \notin Lan}
Named(recs, u) == \E i \in 1 .. Len(recs) : recs[i].owner = u /\ recs[i].by = "addr"
FullOf(recs, n) == Len(recs) = n /\ \A i \in 1 .. Len(recs) : recs[i].by = "addr"

(* What all requesters share names each source that can be dialled, or is  *)
(* full of such sources, one more than a reply.                            *)
PayloadGood(recs, of, was) ==
  /\ recs \in Seq(Recs) /\ OneEach(recs) /\ DirectFirst(recs) /\ Discreet(recs, was)
  /\ (\A u \in Dialled(of, was) : Named(recs, u)) \/ FullOf(recs, MaxReply + 1)
  /\ of \in Seq(Srcs)

LEMMA RecordFacts ==
  ASSUME AnswerTypes, NEW u \in Srcs, NEW six \in BOOLEAN
  PROVE  LET r == Answer!Record(u, six)
         IN /\ r \in Recs /\ r.owner = u
            /\ r.by = "addr" <=> u \notin Answer!LowIds
            /\ u \notin Answer!LowIds <=> live[u] \notin {"low", "natt"}
<1>1. u \in Answer!LowIds <=> live[u] \in {"low", "natt"} BY DEF Answer!LowIds, Answer!LowId
<1>2. Answer!LowId(u) <=> u \in Answer!LowIds BY DEF Answer!LowIds
<1>3. (live[u] = "natt") \in BOOLEAN OBVIOUS
<1> DEFINE by == CASE six /\ u \in Six /\ Answer!LowId(u) -> "v6"
                   [] Answer!LowId(u) -> "low"
                   [] OTHER -> "addr"
<1>4. by \in {"v6", "low", "addr"} /\ (by = "addr" <=> ~Answer!LowId(u)) OBVIOUS
<1> HIDE DEF by
<1>5. Answer!Record(u, six) = [owner |-> u, natt |-> live[u] = "natt", by |-> by]
  BY DEF Answer!Record, by
<1>6. [owner |-> u, natt |-> live[u] = "natt", by |-> by] \in Recs BY Zenon, <1>3, <1>4 DEF Recs
<1>7. Answer!Record(u, six).owner = u /\ Answer!Record(u, six).by = by BY <1>5
<1> QED BY Zenon, <1>1, <1>2, <1>4, <1>5, <1>6, <1>7

(* The records of sources that are named once. *)
LEMMA RecordsOf ==
  ASSUME AnswerTypes, NEW us \in Seq(Srcs), Once(us), NEW six \in BOOLEAN
  PROVE  LET rs == [i \in DOMAIN us |-> Answer!Record(us[i], six)]
         IN /\ rs \in Seq(Recs) /\ Len(rs) = Len(us) /\ OneEach(rs) /\ Discreet(rs, live)
            /\ \A i \in 1 .. Len(rs) : rs[i].owner = us[i] /\ (rs[i].by = "addr" <=> us[i] \notin Answer!LowIds)
<1> DEFINE rs == [i \in DOMAIN us |-> Answer!Record(us[i], six)]
<1>1. Len(us) \in Nat /\ DOMAIN us = 1 .. Len(us) /\ \A i \in 1 .. Len(us) : us[i] \in Srcs
  BY LenProperties, ElementOfSeq
<1>2. \A i \in 1 .. Len(us) :
        /\ Answer!Record(us[i], six) \in Recs /\ Answer!Record(us[i], six).owner = us[i]
        /\ Answer!Record(us[i], six).by = "addr" <=> us[i] \notin Answer!LowIds
        /\ us[i] \notin Answer!LowIds <=> live[us[i]] \notin {"low", "natt"}
  BY Zenon, <1>1, RecordFacts
<1>3. \A i \in 1 .. Len(us) : rs[i] = Answer!Record(us[i], six) BY <1>1
<1>4. rs \in [1 .. Len(us) -> Recs] BY <1>1, <1>2
<1>5. rs \in Seq(Recs) /\ Len(rs) = Len(us) BY <1>1, <1>4
<1> HIDE DEF rs
<1>6. \A i \in 1 .. Len(rs) : /\ rs[i].owner = us[i]
                              /\ rs[i].by = "addr" <=> us[i] \notin Answer!LowIds
                              /\ us[i] \notin Answer!LowIds <=> live[us[i]] \notin {"low", "natt"}
  BY Zenon, <1>2, <1>3, <1>5
<1>7. OneEach(rs)
  <2> SUFFICES ASSUME NEW i \in 1 .. Len(rs), NEW j \in 1 .. Len(rs), rs[i].owner = rs[j].owner
               PROVE  i = j
    BY DEF OneEach
  <2>1. us[i] = us[j] BY Zenon, <1>6
  <2>2. i \in 1 .. Len(us) /\ j \in 1 .. Len(us) BY Zenon, <1>5
  <2> QED BY Zenon, <2>1, <2>2 DEF Once
<1>8. Discreet(rs, live) BY Zenon, <1>6 DEF Discreet
<1> QED BY Zenon, <1>5, <1>6, <1>7, <1>8 DEF rs

LEMMA PrefixOfRecords ==
  ASSUME NEW rs \in Seq(Recs), NEW n \in Nat, OneEach(rs)
  PROVE  LET p == Answer!Prefix(rs, n)
         IN /\ p \in Seq(Recs) /\ OneEach(p)
            /\ DirectFirst(rs) => DirectFirst(p)
            /\ \A was : Discreet(rs, was) => Discreet(p, was)
            /\ Len(p) = IF Len(rs) < n THEN Len(rs) ELSE n
            /\ \A i \in 1 .. Len(p) : i \in 1 .. Len(rs) /\ p[i] = rs[i]
            /\ \A u : Named(rs, u) /\ DirectFirst(rs) => Named(p, u) \/ FullOf(p, n)
<1> DEFINE p == Answer!Prefix(rs, n)
<1>1. /\ p \in Seq(Recs) /\ Len(p) = IF Len(rs) < n THEN Len(rs) ELSE n
      /\ \A i \in 1 .. Len(p) : i \in 1 .. Len(rs) /\ p[i] = rs[i]
  BY PrefixFacts
<1>2. Len(rs) \in Nat BY LenProperties
<1> HIDE DEF p
<1>3. OneEach(p) BY <1>1 DEF OneEach
<1>4. DirectFirst(rs) => DirectFirst(p) BY <1>1 DEF DirectFirst
<1>5. \A was : Discreet(rs, was) => Discreet(p, was) BY Zenon, <1>1 DEF Discreet
<1>6. ASSUME NEW u, Named(rs, u), DirectFirst(rs) PROVE Named(p, u) \/ FullOf(p, n)
  <2>1. PICK i \in 1 .. Len(rs) : rs[i].owner = u /\ rs[i].by = "addr" BY <1>6 DEF Named
  <2>2. CASE i <= Len(p)
    <3>1. i \in 1 .. Len(p) BY <1>1, <1>2, <2>2
    <3> QED BY <1>1, <2>1, <3>1 DEF Named
  <2>3. CASE ~(i <= Len(p))
    <3>1. Len(p) = n BY <1>1, <1>2, <2>3
    <3>2. \A j \in 1 .. Len(p) : j < i /\ j \in 1 .. Len(rs) BY <1>1, <1>2, <2>3
    <3>3. \A j \in 1 .. Len(p) : rs[j].by = "addr" BY <1>6, <2>1, <3>2 DEF DirectFirst
    <3> QED BY <1>1, <3>1, <3>3 DEF FullOf
  <2> QED BY <2>2, <2>3
<1> QED BY <1>1, <1>3, <1>4, <1>5, <1>6 DEF p

LEMMA SharedGood ==
  ASSUME AnswerBounds, AnswerTypes
  PROVE  PayloadGood(Answer!SharedPayload, pubOrder, live)
<1> DEFINE o == Answer!Ordered(Scan)
           us == Answer!Kept(o, Answer!WithRecord)
           rs == [i \in DOMAIN us |-> Answer!Record(us[i], FALSE)]
           p == Answer!Prefix(rs, MaxReply + 1)
<1>1. /\ o \in Seq(Srcs) /\ Once(o) /\ Last(o, Answer!LowIds)
      /\ \A x : Holds(o, x) <=> Holds(Answer!Prefix(pubOrder, Scan), x)
  BY OrderedFacts DEF AnswerBounds
<1> HIDE DEF o
<1>2. /\ us \in Seq(Srcs) /\ Once(us) /\ Last(us, Answer!LowIds)
      /\ \A x : Holds(us, x) <=> Holds(o, x) /\ x \in Answer!WithRecord
  BY <1>1, KeptFacts
<1> HIDE DEF us
<1>3. /\ rs \in Seq(Recs) /\ Len(rs) = Len(us) /\ OneEach(rs) /\ Discreet(rs, live)
      /\ \A i \in 1 .. Len(rs) : rs[i].owner = us[i] /\ (rs[i].by = "addr" <=> us[i] \notin Answer!LowIds)
  BY Zenon, <1>2, RecordsOf
<1> HIDE DEF rs
<1>4. DirectFirst(rs) BY Zenon, <1>2, <1>3 DEF DirectFirst, Last
<1>5. MaxReply + 1 \in Nat BY DEF AnswerBounds
<1>6. /\ p \in Seq(Recs) /\ OneEach(p) /\ DirectFirst(p) /\ Discreet(p, live)
      /\ \A u : Named(rs, u) => Named(p, u) \/ FullOf(p, MaxReply + 1)
  BY Zenon, <1>3, <1>4, <1>5, PrefixOfRecords
<1> HIDE DEF p
<1>7. ASSUME NEW u \in Dialled(pubOrder, live) PROVE Named(rs, u)
  <2>1. Holds(o, u) /\ u \in Srcs BY <1>1 DEF Dialled
  <2>2. u \notin Answer!LowIds /\ u \in Answer!WithRecord
    BY <2>1 DEF Dialled, Answer!LowIds, Answer!LowId, Answer!WithRecord
  <2>3. PICK i \in 1 .. Len(us) : us[i] = u BY <1>2, <2>1, <2>2 DEF Holds
  <2> QED BY <1>3, <2>2, <2>3 DEF Named
<1>8. (\A u \in Dialled(pubOrder, live) : Named(p, u)) \/ FullOf(p, MaxReply + 1)
  BY Zenon, <1>6, <1>7
<1>9. Answer!SharedPayload = p BY DEF Answer!SharedPayload, p, rs, us, o
<1>10. pubOrder \in Seq(Srcs) BY DEF AnswerTypes
<1> QED BY Zenon, <1>6, <1>8, <1>9, <1>10 DEF PayloadGood

(* The cut of it that a requester is served. *)
LEMMA AnswerCardinality == \A S : Answer!Cardinality(S) = Cardinality(S)
BY DEF Answer!Cardinality, Cardinality

LEMMA RangeOfRecs ==
  ASSUME NEW recs \in Seq(Recs)
  PROVE  /\ Answer!Range(recs) = {recs[i] : i \in 1 .. Len(recs)}
         /\ Answer!Owners(recs) = {recs[i].owner : i \in 1 .. Len(recs)}
         /\ \A i \in 1 .. Len(recs) : recs[i] \in Recs
<1>1. DOMAIN recs = 1 .. Len(recs) /\ \A i \in 1 .. Len(recs) : recs[i] \in Recs
  BY LenProperties, ElementOfSeq
<1> QED BY <1>1 DEF Answer!Range, Answer!Owners

(* A reply full of sources that can be dialled has as many of them. *)
LEMMA FullCounted ==
  ASSUME NEW n \in Nat, NEW p \in Seq(Recs), OneEach(p), FullOf(p, n)
  PROVE  Cardinality({r \in Answer!Range(p) : r.by = "addr"}) = n
<1>1. Answer!Range(p) = {p[i] : i \in 1 .. Len(p)} /\ \A i \in 1 .. Len(p) : p[i] \in Recs
  BY RangeOfRecs
<1>2. Len(p) = n /\ \A i \in 1 .. n : p[i].by = "addr" BY DEF FullOf
<1> DEFINE D == {r \in Answer!Range(p) : r.by = "addr"}
<1>3. D = {p[i] : i \in 1 .. n} BY <1>1, <1>2
<1> HIDE DEF D
<1>4. p \in [1 .. n -> D] /\ p \in Seq(Recs)
  <2>1. p \in [1 .. n -> Recs] BY <1>2, LenProperties
  <2> QED BY <1>3, <2>1
<1>5. \A i, j \in 1 .. n : p[i] = p[j] => i = j BY <1>2 DEF OneEach
<1>6. \A d \in D : \E i \in 1 .. n : p[i] = d BY <1>3
<1>7. p \in Bijection(1 .. n, D)
  BY <1>4, <1>5, <1>6 DEF Bijection, Injection, Surjection, IsInjective
<1>8. ExistsBijection(1 .. n, D) BY <1>7 DEF ExistsBijection
<1>9. IsFiniteSet(1 .. n) /\ Cardinality(1 .. n) = n
  <2>1. IsFiniteSet(1 .. n) /\ Cardinality(1 .. n) = IF 1 > n THEN 0 ELSE n - 1 + 1
    BY FS_Interval
  <2> QED BY <2>1
<1>10. Cardinality(D) = Cardinality(1 .. n) BY <1>8, <1>9, FS_Bijection
<1> QED BY <1>9, <1>10 DEF D

LEMMA CutFacts ==
  ASSUME AnswerBounds, NEW recs, NEW of, NEW was, PayloadGood(recs, of, was), NEW me
  PROVE  LET r == Answer!WithoutOwner(recs, me)
         IN /\ r \in Seq(Recs) /\ Discreet(r, was) /\ me \notin Answer!Owners(r)
            /\ \/ Dialled(of, was) \ {me} \subseteq Answer!Owners(r)
               \/ Cardinality({x \in Answer!Range(r) : x.by = "addr"}) = MaxReply
<1> DEFINE servedNow == {r \in Answer!Range(recs) :
             /\ r.owner # me
             /\ r.by = "low" => Answer!Reach(me) = "all" \/ (Answer!Reach(me) = "natt" /\ r.natt)}
           kept == Answer!Kept(recs, servedNow)
           p == Answer!Prefix(kept, MaxReply)
           NotDirect == {r \in Recs : r.by # "addr"}
<1>1. /\ recs \in Seq(Recs) /\ OneEach(recs) /\ DirectFirst(recs) /\ Discreet(recs, was)
      /\ (\A u \in Dialled(of, was) : Named(recs, u)) \/ FullOf(recs, MaxReply + 1)
  BY Zenon DEF PayloadGood
<1>2. /\ Answer!Range(recs) = {recs[i] : i \in 1 .. Len(recs)}
      /\ \A i \in 1 .. Len(recs) : recs[i] \in Recs
  BY <1>1, RangeOfRecs
<1>3. \A r \in Answer!Range(recs) : r.by = "addr" => (r \in servedNow <=> r.owner # me)
  OBVIOUS
<1>4. \A r \in servedNow : r.owner # me OBVIOUS
<1> HIDE DEF servedNow
<1>5. Once(recs) BY <1>1 DEF OneEach, Once
<1>6. Last(recs, NotDirect) BY <1>1, <1>2 DEF DirectFirst, Last
<1>7. /\ kept \in Seq(Recs) /\ Once(kept) /\ Last(kept, NotDirect)
      /\ \A x : Holds(kept, x) <=> Holds(recs, x) /\ x \in servedNow
  BY <1>1, <1>5, <1>6, KeptFacts
<1> HIDE DEF kept
<1>8. \A i \in 1 .. Len(kept) : kept[i] \in Recs /\ kept[i] \in servedNow /\ Holds(recs, kept[i])
  <2>1. \A i \in 1 .. Len(kept) : kept[i] \in Recs BY <1>7, RangeOfRecs
  <2>2. \A i \in 1 .. Len(kept) : Holds(kept, kept[i]) BY DEF Holds
  <2> QED BY Zenon, <1>7, <2>1, <2>2
<1>9. OneEach(kept)
  <2> SUFFICES ASSUME NEW i \in 1 .. Len(kept), NEW j \in 1 .. Len(kept), kept[i].owner = kept[j].owner
               PROVE  i = j
    BY DEF OneEach
  <2>1. PICK a \in 1 .. Len(recs) : recs[a] = kept[i] BY <1>8 DEF Holds
  <2>2. PICK b \in 1 .. Len(recs) : recs[b] = kept[j] BY <1>8 DEF Holds
  <2>3. a = b BY Zenon, <1>1, <2>1, <2>2 DEF OneEach
  <2> QED BY <1>7, <2>1, <2>2, <2>3 DEF Once
<1>10. DirectFirst(kept) BY <1>7, <1>8 DEF DirectFirst, Last
<1>11. Discreet(kept, was) BY <1>1, <1>8 DEF Discreet, Holds
<1>12. ASSUME NEW u, Named(recs, u), u # me PROVE Named(kept, u)
  <2>1. PICK i \in 1 .. Len(recs) : recs[i].owner = u /\ recs[i].by = "addr" BY <1>12 DEF Named
  <2>2. recs[i] \in Answer!Range(recs) BY <1>2
  <2>3. recs[i] \in servedNow /\ Holds(recs, recs[i]) BY <1>3, <1>12, <2>1, <2>2 DEF Holds
  <2>4. Holds(kept, recs[i]) BY <1>7, <2>3
  <2> QED BY <2>1, <2>4 DEF Holds, Named
<1>13. /\ p \in Seq(Recs) /\ OneEach(p) /\ Discreet(p, was)
       /\ Len(p) = IF Len(kept) < MaxReply THEN Len(kept) ELSE MaxReply
       /\ \A i \in 1 .. Len(p) : i \in 1 .. Len(kept) /\ p[i] = kept[i]
       /\ \A u : Named(kept, u) => Named(p, u) \/ FullOf(p, MaxReply)
  <2>1. MaxReply \in Nat BY DEF AnswerBounds
  <2> QED BY Zenon, <1>7, <1>9, <1>10, <1>11, <2>1, PrefixOfRecords
<1>14. FullOf(recs, MaxReply + 1) => FullOf(p, MaxReply)
  <2> SUFFICES ASSUME FullOf(recs, MaxReply + 1) PROVE FullOf(p, MaxReply)
    OBVIOUS
  <2> DEFINE R == {r \in Answer!Range(recs) : r.by = "addr"}
             K == {r \in Answer!Range(kept) : r.by = "addr"}
             n == Len(kept)
  <2>1. MaxReply \in Nat /\ MaxReply + 1 \in Nat /\ n \in Nat
    BY <1>7, LenProperties DEF AnswerBounds
  <2>2. \A i \in 1 .. Len(kept) : kept[i].by = "addr" BY <1>8 DEF FullOf, Holds
  <2>3. FullOf(kept, n) BY <2>2 DEF FullOf
  <2>4. Cardinality(R) = MaxReply + 1 BY <1>1, <2>1, FullCounted
  <2>5. Cardinality(K) = n BY <1>7, <1>9, <2>1, <2>3, FullCounted
  <2>6. Answer!Range(kept) = {kept[i] : i \in 1 .. Len(kept)} BY <1>7, RangeOfRecs
  <2>7. IsFiniteSet(R)
    <3>1. IsFiniteSet(1 .. Len(recs)) BY <2>1, FS_Interval DEF FullOf
    <3>2. recs \in Surjection(1 .. Len(recs), R)
      <4>1. \A i \in 1 .. Len(recs) : recs[i] \in R BY <1>2 DEF FullOf
      <4>2. recs \in [1 .. Len(recs) -> R] BY <1>1, <4>1, LenProperties
      <4>3. \A r \in R : \E i \in 1 .. Len(recs) : recs[i] = r BY <1>2
      <4> QED BY <4>2, <4>3 DEF Surjection
    <3> QED BY <3>1, <3>2, FS_Surjection
  <2>8. \A r \in R : r.owner # me => r \in K
    <3> SUFFICES ASSUME NEW r \in R, r.owner # me PROVE r \in K OBVIOUS
    <3>1. r \in servedNow /\ Holds(recs, r) BY <1>2, <1>3 DEF Holds
    <3>2. Holds(kept, r) BY <1>7, <3>1
    <3> QED BY <2>6, <3>2 DEF Holds
  <2>9. \A q, r \in R : q.owner = me /\ r.owner = me => q = r BY <1>1, <1>2 DEF OneEach
  <2> HIDE DEF R, K
  <2>10. K \in SUBSET Answer!Range(kept) BY DEF K
  <2>11. IsFiniteSet(K)
    <3>1. IsFiniteSet(1 .. n) BY <2>1, FS_Interval
    <3>2. kept \in Surjection(1 .. n, K)
      <4>1. \A i \in 1 .. n : kept[i] \in K BY <2>2, <2>6 DEF K
      <4>2. kept \in [1 .. n -> K] BY <1>7, <4>1, LenProperties
      <4>3. \A r \in K : \E i \in 1 .. n : kept[i] = r BY <2>6, <2>10
      <4> QED BY <4>2, <4>3 DEF Surjection
    <3> QED BY <3>1, <3>2, FS_Surjection
  <2>12. \E x : R \subseteq K \cup {x}
    <3>1. CASE \E x \in R : x.owner = me
      <4>1. PICK x \in R : x.owner = me BY <3>1
      <4>2. R \subseteq K \cup {x} BY <2>8, <2>9, <4>1
      <4> QED BY <4>2
    <3>2. CASE ~ \E x \in R : x.owner = me
      <4>1. R \subseteq K \cup {me} BY <2>8, <3>2
      <4> QED BY <4>1
    <3> QED BY <3>1, <3>2
  <2>13. PICK x : R \subseteq K \cup {x} BY <2>12
  <2>14. IsFiniteSet(K \cup {x}) /\ Cardinality(K \cup {x}) <= n + 1
    <3>1. /\ IsFiniteSet(K \cup {x})
          /\ Cardinality(K \cup {x}) = IF x \in K THEN Cardinality(K) ELSE Cardinality(K) + 1
      BY <2>11, FS_AddElement
    <3> HIDE DEF n
    <3> QED BY <2>1, <2>5, <3>1
  <2>15. Cardinality(R) <= Cardinality(K \cup {x})
    <3>1. R \in SUBSET (K \cup {x}) BY <2>13
    <3> QED BY <2>14, <3>1, FS_Subset
  <2>16. Cardinality(K \cup {x}) \in Nat BY <2>14, FS_CardinalityType
  <2> HIDE DEF n
  <2>17. MaxReply <= n BY <2>1, <2>4, <2>14, <2>15, <2>16
  <2>18. Len(p) = MaxReply BY <1>13, <2>1, <2>17 DEF n
  <2> QED BY <1>13, <2>2, <2>18 DEF FullOf
<1>15. me \notin Answer!Owners(p) BY <1>4, <1>8, <1>13, RangeOfRecs
<1>16. FullOf(p, MaxReply) => Cardinality({x \in Answer!Range(p) : x.by = "addr"}) = MaxReply
  BY <1>13, FullCounted DEF AnswerBounds
<1>17. \A u : Named(p, u) => u \in Answer!Owners(p)
  BY <1>13, RangeOfRecs DEF Named
<1> HIDE DEF p
<1>18. \/ Dialled(of, was) \ {me} \subseteq Answer!Owners(p)
       \/ FullOf(p, MaxReply)
  BY Zenon, <1>1, <1>12, <1>13, <1>14, <1>17
<1>19. Answer!WithoutOwner(recs, me) = p BY DEF Answer!WithoutOwner, p, kept, servedNow
<1> QED BY Zenon, <1>13, <1>15, <1>16, <1>18, <1>19

-----------------------------------------------------------------------------
AnswerFlags == listed \in BOOLEAN
KeysKnown == DOMAIN cacheMap \subseteq Answer!Kinds /\ staleKeys \subseteq Answer!Kinds
CacheGood ==
  \A k \in DOMAIN cacheMap : PayloadGood(cacheMap[k].recs, cacheMap[k].of, cacheMap[k].was)
RequestKnown ==
  \/ request = Answer!NoReq
  \/ request.pc = "build" /\ request.u \in Srcs /\ request.obfu \in Answer!Kinds

(* Of an answer: none is exposed, and of one cut from what is shared, none *)
(* is hidden.                                                              *)
Fair(a) ==
  /\ a.to \in Srcs \cup {"nobody", "udp4", "udp6"}
  /\ a.recs \in Seq(Recs) /\ Discreet(a.recs, a.was) /\ a.of \in Seq(Srcs)
  /\ a.via \in {"cache", "built"} =>
       /\ a.to \notin Answer!Owners(a.recs)
       /\ \/ Dialled(a.of, a.was) \ {a.to} \subseteq Answer!Owners(a.recs)
          \/ Cardinality({x \in Answer!Range(a.recs) : x.by = "addr"}) = MaxReply

AnswerInv == AnswerTypes /\ AnswerFlags /\ KeysKnown /\ CacheGood /\ RequestKnown /\ Fair(answer)

LEMMA FairAnswer ==
  ASSUME NEW to \in Srcs \cup {"nobody", "udp4", "udp6"}, NEW via, NEW recs \in Seq(Recs),
         NEW of \in Seq(Srcs), NEW was, Discreet(recs, was),
         via \in {"cache", "built"} =>
           /\ to \notin Answer!Owners(recs)
           /\ \/ Dialled(of, was) \ {to} \subseteq Answer!Owners(recs)
              \/ Cardinality({x \in Answer!Range(recs) : x.by = "addr"}) = MaxReply,
         Answer!Answered(to, via, recs, of, was)
  PROVE  Fair(answer')
<1> DEFINE a == [to |-> to, via |-> via, recs |-> recs, of |-> of, was |-> was]
<1>1. answer' = a BY DEF Answer!Answered
<1>2. a.to = to /\ a.via = via /\ a.recs = recs /\ a.of = of /\ a.was = was OBVIOUS
<1> HIDE DEF a
<1> QED BY Zenon, <1>1, <1>2 DEF Fair

LEMMA NobodyNamed == <<>> \in Seq(Recs) /\ \A was : Discreet(<<>>, was)
BY EmptySeq DEF Discreet

LEMMA FairRefusal ==
  ASSUME AnswerTypes, NEW u \in Srcs, Answer!Answered(u, "refused", <<>>, pubOrder, live)
  PROVE  Fair(answer')
<1>1. pubOrder \in Seq(Srcs) BY DEF AnswerTypes
<1> QED BY <1>1, NobodyNamed, FairAnswer

LEMMA FairCut ==
  ASSUME AnswerBounds, NEW u \in Srcs, NEW via, NEW recs, NEW of, NEW was, PayloadGood(recs, of, was),
         Answer!Answered(u, via, Answer!WithoutOwner(recs, u), of, was)
  PROVE  Fair(answer')
<1> DEFINE r == Answer!WithoutOwner(recs, u)
<1>1. /\ r \in Seq(Recs) /\ Discreet(r, was) /\ u \notin Answer!Owners(r)
      /\ \/ Dialled(of, was) \ {u} \subseteq Answer!Owners(r)
         \/ Cardinality({x \in Answer!Range(r) : x.by = "addr"}) = MaxReply
  BY Zenon, CutFacts
<1>2. of \in Seq(Srcs) BY Zenon DEF PayloadGood
<1>3. Answer!Answered(u, via, r, of, was) OBVIOUS
<1> HIDE DEF r
<1> QED BY Zenon, <1>1, <1>2, <1>3, FairAnswer

LEMMA FairSix ==
  ASSUME AnswerBounds, AnswerTypes, NEW u \in Srcs,
         Answer!Answered(u, "six", Answer!SixPayload(u), pubOrder, live)
  PROVE  Fair(answer')
<1> DEFINE o == Answer!Ordered(Scan)
           keep == {v \in Answer!WithRecord \ {u} :
                      Answer!LowId(v) /\ v \notin Six => Answer!Reach(u) = "natt" /\ live[v] = "natt"}
           us == Answer!Kept(o, keep)
           rs == [i \in DOMAIN us |-> Answer!Record(us[i], TRUE)]
           p == Answer!Prefix(rs, MaxReply)
<1>1. o \in Seq(Srcs) /\ Once(o) BY OrderedFacts DEF AnswerBounds
<1> HIDE DEF o, keep
<1>2. us \in Seq(Srcs) /\ Once(us) BY <1>1, KeptFacts
<1> HIDE DEF us
<1>3. rs \in Seq(Recs) /\ OneEach(rs) /\ Discreet(rs, live) BY Zenon, <1>2, RecordsOf
<1> HIDE DEF rs
<1>4. MaxReply \in Nat BY DEF AnswerBounds
<1>5. p \in Seq(Recs) /\ Discreet(p, live) BY Zenon, <1>3, <1>4, PrefixOfRecords
<1> HIDE DEF p
<1>6. Answer!SixPayload(u) = p BY DEF Answer!SixPayload, p, rs, us, keep, o
<1>7. pubOrder \in Seq(Srcs) BY DEF AnswerTypes
<1>8. "six" \notin {"cache", "built"} OBVIOUS
<1> QED BY Zenon, <1>5, <1>6, <1>7, <1>8, FairAnswer

(* The records of a UDP answer are those of a TCP one without the flag.    *)
LEMMA UdpRecords ==
  ASSUME AnswerTypes, NEW us \in Seq(Srcs), NEW six \in BOOLEAN
  PROVE  LET rs == [i \in DOMAIN us |-> Answer!UdpRecord(us[i], six)]
         IN rs \in Seq(Recs) /\ Discreet(rs, live)
<1> DEFINE rs == [i \in DOMAIN us |-> Answer!UdpRecord(us[i], six)]
<1>1. Len(us) \in Nat /\ DOMAIN us = 1 .. Len(us) /\ \A i \in 1 .. Len(us) : us[i] \in Srcs
  BY LenProperties, ElementOfSeq
<1>2. ASSUME NEW u \in Srcs
      PROVE  /\ Answer!UdpRecord(u, six) \in Recs /\ Answer!UdpRecord(u, six).owner = u
             /\ Answer!UdpRecord(u, six).by = "addr" => live[u] \notin {"low", "natt"}
  <2> DEFINE r == Answer!Record(u, six)
  <2>1. /\ r \in Recs /\ r.owner = u
        /\ r.by = "addr" => live[u] \notin {"low", "natt"}
    BY Zenon, RecordFacts
  <2>2. Answer!UdpRecord(u, six) = [r EXCEPT !.natt = FALSE] BY DEF Answer!UdpRecord
  <2> HIDE DEF r
  <2>3. [r EXCEPT !.natt = FALSE] \in Recs BY Zenon, <2>1 DEF Recs
  <2>4. [r EXCEPT !.natt = FALSE].owner = r.owner /\ [r EXCEPT !.natt = FALSE].by = r.by
    BY <2>1 DEF Recs
  <2> QED BY Zenon, <2>1, <2>2, <2>3, <2>4
<1>3. rs \in [1 .. Len(us) -> Recs] BY <1>1, <1>2
<1>4. rs \in Seq(Recs) /\ Len(rs) = Len(us) BY <1>1, <1>3
<1>5. \A i \in 1 .. Len(us) : rs[i] = Answer!UdpRecord(us[i], six) BY <1>1
<1> HIDE DEF rs
<1>6. ASSUME NEW i \in 1 .. Len(rs), rs[i].by = "addr"
      PROVE  live[rs[i].owner] \notin {"low", "natt"}
  <2>1. i \in 1 .. Len(us) BY Zenon, <1>4
  <2>2. us[i] \in Srcs /\ rs[i] = Answer!UdpRecord(us[i], six) BY Zenon, <1>1, <1>5, <2>1
  <2> QED BY Zenon, <1>2, <1>6, <2>2
<1>7. Discreet(rs, live) BY Zenon, <1>6 DEF Discreet
<1> QED BY Zenon, <1>4, <1>7 DEF rs

LEMMA FairUdp ==
  ASSUME AnswerBounds, AnswerTypes, NEW six \in BOOLEAN, Answer!AskUdp(six)
  PROVE  Fair(answer') /\ (listed => answer'.recs = <<>>)
<1> DEFINE o == Answer!Prefix(Answer!Ordered(UdpScan), UdpMax)
           us == Answer!Kept(o, Answer!WithRecord)
           rs == [i \in DOMAIN us |-> Answer!UdpRecord(us[i], six)]
           who == IF six THEN "udp6" ELSE "udp4"
           recs == IF listed THEN <<>> ELSE rs
<1>1. Answer!Ordered(UdpScan) \in Seq(Srcs) BY OrderedFacts DEF AnswerBounds
<1>2. o \in Seq(Srcs) BY <1>1, PrefixFacts DEF AnswerBounds
<1> HIDE DEF o
<1>3. us \in Seq(Srcs) BY <1>2, KeptFacts
<1>4. Answer!Answered(who, "udp", recs, pubOrder, live) BY DEF Answer!AskUdp, o
<1> HIDE DEF us
<1>5. rs \in Seq(Recs) /\ Discreet(rs, live) BY Zenon, <1>3, UdpRecords
<1> HIDE DEF rs
<1>6. recs \in Seq(Recs) /\ Discreet(recs, live) BY <1>5, NobodyNamed
<1>7. who \in Srcs \cup {"nobody", "udp4", "udp6"} OBVIOUS
<1>8. pubOrder \in Seq(Srcs) BY DEF AnswerTypes
<1>9. "udp" \notin {"cache", "built"} OBVIOUS
<1>10. listed => recs = <<>> OBVIOUS
<1> HIDE DEF who, recs
<1>11. Fair(answer') BY Zenon, <1>4, <1>6, <1>7, <1>8, <1>9, FairAnswer
<1>12. answer'.recs = recs BY <1>4 DEF Answer!Answered
<1> QED BY Zenon, <1>10, <1>11, <1>12

-----------------------------------------------------------------------------
LEMMA AnswerInit ==
  ASSUME AnswerBounds, Answer!Init
  PROVE  AnswerInv
<1>1. AnswerTypes
  <2>1. pubOrder = <<>> /\ <<>> \in Seq(Srcs) /\ Len(<<>>) = 0 BY EmptySeq DEF Answer!Init
  <2>2. Once(pubOrder) BY <2>1 DEF Once
  <2>3. live \in [Srcs -> Lives] /\ \A u \in Srcs : live[u] = "gone" BY DEF Answer!Init, Lives
  <2>4. moves \in 0 .. MaxMoves BY DEF Answer!Init, AnswerBounds
  <2> QED BY <2>1, <2>2, <2>3, <2>4 DEF AnswerTypes
<1>2. AnswerFlags BY DEF Answer!Init, AnswerFlags
<1>3. DOMAIN cacheMap = {} /\ staleKeys = {} BY DEF Answer!Init
<1>4. KeysKnown /\ CacheGood BY <1>3 DEF KeysKnown, CacheGood
<1>5. RequestKnown BY DEF Answer!Init, RequestKnown
<1>6. Fair(answer)
  <2>1. answer = Answer!NoAnswer BY DEF Answer!Init
  <2>2. /\ answer.to = "nobody" /\ answer.via = "none" /\ answer.recs = <<>> /\ answer.of = <<>>
    BY <2>1 DEF Answer!NoAnswer
  <2>3. <<>> \in Seq(Srcs) BY EmptySeq
  <2> QED BY <2>2, <2>3, NobodyNamed DEF Fair
<1> QED BY <1>1, <1>2, <1>4, <1>5, <1>6 DEF AnswerInv

LEMMA TypesKept ==
  ASSUME AnswerTypes, UNCHANGED <<pubOrder, live, moves>>
  PROVE  AnswerTypes'
BY DEF AnswerTypes, Once

LEMMA CacheKept ==
  ASSUME KeysKnown, CacheGood, UNCHANGED <<cacheMap, staleKeys>>
  PROVE  KeysKnown' /\ CacheGood'
BY DEF KeysKnown, CacheGood

LEMMA AnswerAsks ==
  ASSUME AnswerBounds, AnswerInv, NEW u \in Srcs, NEW obfu \in BOOLEAN, NEW sized \in BOOLEAN,
         Answer!AskSources(u, obfu, sized)
  PROVE  AnswerInv' /\ (listed => answer'.recs = <<>>)
<1>1. UNCHANGED <<pubOrder, live, moves>> /\ UNCHANGED <<cacheMap, staleKeys>>
  BY DEF Answer!AskSources
<1>2. listed' = listed BY DEF Answer!AskSources
<1>3. AnswerTypes' BY <1>1, TypesKept DEF AnswerInv
<1>4. KeysKnown' /\ CacheGood' BY <1>1, CacheKept DEF AnswerInv
<1>5. AnswerFlags' BY Zenon, <1>2 DEF AnswerInv, AnswerFlags
<1>6. CASE listed \/ sized
  <2>1. Answer!Answered(u, "refused", <<>>, pubOrder, live) /\ request' = request
    BY Zenon, <1>6 DEF Answer!AskSources
  <2>2. Fair(answer') BY <2>1, FairRefusal DEF AnswerInv
  <2>3. answer'.recs = <<>> BY <2>1 DEF Answer!Answered
  <2>4. RequestKnown' BY <2>1 DEF AnswerInv, RequestKnown
  <2> QED BY Zenon, <1>3, <1>4, <1>5, <2>2, <2>3, <2>4 DEF AnswerInv
<1>7. CASE ~(listed \/ sized) /\ obfu \in DOMAIN cacheMap /\ ~Answer!SixSession(u)
  <2> DEFINE e == cacheMap[obfu]
  <2>1. Answer!Answered(u, "cache", Answer!WithoutOwner(e.recs, u), e.of, e.was) /\ request' = request
    BY Zenon, <1>7 DEF Answer!AskSources
  <2>2. PayloadGood(e.recs, e.of, e.was) BY Zenon, <1>7 DEF AnswerInv, CacheGood
  <2>3. Fair(answer') BY Zenon, <2>1, <2>2, FairCut
  <2>4. RequestKnown' BY <2>1 DEF AnswerInv, RequestKnown
  <2> QED BY Zenon, <1>3, <1>4, <1>5, <1>7, <2>3, <2>4 DEF AnswerInv
<1>8. CASE ~(listed \/ sized) /\ ~(obfu \in DOMAIN cacheMap /\ ~Answer!SixSession(u))
  <2>1. request' = [pc |-> "build", u |-> u, obfu |-> obfu] /\ answer' = answer
    BY Zenon, <1>8 DEF Answer!AskSources
  <2>2. request'.pc = "build" /\ request'.u = u /\ request'.obfu = obfu BY Zenon, <2>1
  <2>3. RequestKnown' BY Zenon, <2>2 DEF RequestKnown, Answer!Kinds
  <2>4. Fair(answer') BY <2>1 DEF AnswerInv
  <2> QED BY Zenon, <1>3, <1>4, <1>5, <1>8, <2>3, <2>4 DEF AnswerInv
<1> QED BY Zenon, <1>6, <1>7, <1>8

(* What is put into the cache is what was built, for its kind alone.       *)
LEMMA CachePut ==
  ASSUME KeysKnown, CacheGood, NEW k \in Answer!Kinds, NEW s, PayloadGood(s, pubOrder, live),
         Answer!Cached(k, s)
  PROVE  KeysKnown' /\ CacheGood'
<1> DEFINE e == [recs |-> s, of |-> pubOrder, was |-> live]
           D == DOMAIN cacheMap \cup {k}
           g == [x \in D |-> IF x = k THEN e ELSE cacheMap[x]]
<1>1. staleKeys' = staleKeys \ {k} BY Zenon DEF Answer!Cached
<1>2. cacheMap' = cacheMap \/ cacheMap' = g BY Zenon DEF Answer!Cached
<1>3. staleKeys' \subseteq Answer!Kinds BY Zenon, <1>1 DEF KeysKnown
<1>4. CASE cacheMap' = cacheMap
  BY Zenon, <1>3, <1>4 DEF KeysKnown, CacheGood
<1>5. CASE cacheMap' = g
  <2>1. DOMAIN g = D BY Zenon
  <2>2. D \subseteq Answer!Kinds BY Zenon DEF KeysKnown
  <2>3. ASSUME NEW x \in D
        PROVE  PayloadGood(g[x].recs, g[x].of, g[x].was)
    <3>1. CASE x = k
      <4>1. g[x] = e BY Zenon, <3>1
      <4>2. e.recs = s /\ e.of = pubOrder /\ e.was = live BY Zenon
      <4> HIDE DEF g, e
      <4> QED BY Zenon, <4>1, <4>2
    <3>2. CASE x # k
      <4>1. x \in DOMAIN cacheMap BY Zenon, <3>2
      <4>2. g[x] = cacheMap[x] BY Zenon, <3>2
      <4> HIDE DEF g
      <4> QED BY Zenon, <4>1, <4>2 DEF CacheGood
    <3> QED BY Zenon, <3>1, <3>2
  <2> HIDE DEF g, D
  <2> QED BY Zenon, <1>3, <1>5, <2>1, <2>2, <2>3 DEF KeysKnown, CacheGood
<1> QED BY Zenon, <1>2, <1>4, <1>5

LEMMA AnswerBuilds ==
  ASSUME AnswerBounds, AnswerInv, Answer!BuildSources
  PROVE  AnswerInv'
<1>1. UNCHANGED <<pubOrder, live, moves>> /\ request.pc = "build" /\ request' = Answer!NoReq
  BY DEF Answer!BuildSources
<1>2. listed' = listed BY DEF Answer!BuildSources
<1>3. AnswerTypes' BY <1>1, TypesKept DEF AnswerInv
<1>4. AnswerFlags' BY Zenon, <1>2 DEF AnswerInv, AnswerFlags
<1>5. RequestKnown' BY <1>1 DEF RequestKnown
<1>6. request.u \in Srcs /\ request.obfu \in Answer!Kinds
  <2>1. request # Answer!NoReq BY <1>1 DEF Answer!NoReq
  <2> QED BY Zenon, <2>1 DEF AnswerInv, RequestKnown
<1>7. CASE Answer!SixSession(request.u)
  <2>1. /\ Answer!Answered(request.u, "six", Answer!SixPayload(request.u), pubOrder, live)
        /\ UNCHANGED <<cacheMap, staleKeys>>
    BY <1>7 DEF Answer!BuildSources
  <2>2. Fair(answer') BY <1>6, <2>1, FairSix DEF AnswerInv
  <2>3. KeysKnown' /\ CacheGood' BY <2>1, CacheKept DEF AnswerInv
  <2> QED BY Zenon, <1>3, <1>4, <1>5, <2>2, <2>3 DEF AnswerInv
<1>8. CASE ~Answer!SixSession(request.u)
  <2> DEFINE s == Answer!SharedPayload
             k == request.obfu
  <2>1. /\ Answer!Answered(request.u, "built", Answer!WithoutOwner(s, request.u), pubOrder, live)
        /\ Answer!Cached(k, s)
    BY Zenon, <1>8 DEF Answer!BuildSources
  <2>2. PayloadGood(s, pubOrder, live) BY SharedGood DEF AnswerInv
  <2> HIDE DEF s
  <2>3. Fair(answer') BY Zenon, <1>6, <2>1, <2>2, FairCut
  <2>4. KeysKnown' /\ CacheGood' BY Zenon, <1>6, <2>1, <2>2, CachePut DEF AnswerInv
  <2> QED BY Zenon, <1>3, <1>4, <1>5, <2>3, <2>4 DEF AnswerInv
<1> QED BY <1>7, <1>8
LEMMA AnswerUdp ==
  ASSUME AnswerBounds, AnswerInv, NEW six \in BOOLEAN, Answer!AskUdp(six)
  PROVE  AnswerInv' /\ (listed => answer'.recs = <<>>)
<1>1. UNCHANGED <<pubOrder, live, moves>> /\ UNCHANGED <<cacheMap, staleKeys>> /\ request' = request
  BY DEF Answer!AskUdp
<1>2. listed' = listed BY DEF Answer!AskUdp
<1>3. AnswerTypes' BY <1>1, TypesKept DEF AnswerInv
<1>4. KeysKnown' /\ CacheGood' BY <1>1, CacheKept DEF AnswerInv
<1>5. AnswerFlags' BY Zenon, <1>2 DEF AnswerInv, AnswerFlags
<1>6. RequestKnown' BY <1>1 DEF AnswerInv, RequestKnown
<1>7. Fair(answer') /\ (listed => answer'.recs = <<>>) BY Zenon, FairUdp DEF AnswerInv
<1> QED BY Zenon, <1>3, <1>4, <1>5, <1>6, <1>7 DEF AnswerInv

LEMMA AnswerExpires ==
  ASSUME AnswerInv, NEW k \in Answer!Kinds, Answer!SweepExpired(k)
  PROVE  AnswerInv'
<1>1. UNCHANGED <<pubOrder, live, moves>> /\ request' = request /\ answer' = answer
  BY DEF Answer!SweepExpired
<1>2. listed' = listed BY DEF Answer!SweepExpired
<1> DEFINE D == DOMAIN cacheMap \ {k}
           g == [x \in D |-> cacheMap[x]]
<1>3. cacheMap' = g /\ staleKeys' \subseteq staleKeys \cup {k} BY DEF Answer!SweepExpired
<1>4. DOMAIN g = D /\ \A x \in D : g[x] = cacheMap[x] /\ x \in DOMAIN cacheMap BY Zenon
<1> HIDE DEF g
<1>5. KeysKnown' BY <1>3, <1>4 DEF AnswerInv, KeysKnown
<1>6. CacheGood' BY Zenon, <1>3, <1>4 DEF AnswerInv, CacheGood
<1>7. AnswerTypes' BY <1>1, TypesKept DEF AnswerInv
<1>8. AnswerFlags' BY Zenon, <1>2 DEF AnswerInv, AnswerFlags
<1>9. RequestKnown' /\ Fair(answer') BY Zenon, <1>1 DEF AnswerInv, RequestKnown
<1> QED BY Zenon, <1>5, <1>6, <1>7, <1>8, <1>9 DEF AnswerInv

LEMMA AnswerForgets ==
  ASSUME AnswerInv, NEW k \in Answer!Kinds, Answer!Forget(k)
  PROVE  AnswerInv'
<1>1. UNCHANGED <<pubOrder, live, moves>> /\ request' = request /\ answer' = answer /\ cacheMap' = cacheMap
  BY DEF Answer!Forget
<1>2. listed' = listed BY DEF Answer!Forget
<1>3. staleKeys' \subseteq staleKeys BY DEF Answer!Forget
<1>4. KeysKnown' BY <1>1, <1>3 DEF AnswerInv, KeysKnown
<1>5. CacheGood' BY Zenon, <1>1 DEF AnswerInv, CacheGood
<1>6. AnswerTypes' BY <1>1, TypesKept DEF AnswerInv
<1>7. AnswerFlags' BY Zenon, <1>2 DEF AnswerInv, AnswerFlags
<1>8. RequestKnown' /\ Fair(answer') BY Zenon, <1>1 DEF AnswerInv, RequestKnown
<1> QED BY Zenon, <1>4, <1>5, <1>6, <1>7, <1>8 DEF AnswerInv

(* What happens around an answer: what was built before keeps what it was  *)
(* built from.                                                             *)
LEMMA AroundKept ==
  ASSUME AnswerInv, UNCHANGED <<cacheMap, staleKeys, request, answer>>, AnswerTypes', AnswerFlags'
  PROVE  AnswerInv'
<1>1. cacheMap' = cacheMap /\ staleKeys' = staleKeys /\ request' = request /\ answer' = answer
  OBVIOUS
<1>2. KeysKnown' /\ CacheGood' BY <1>1, CacheKept DEF AnswerInv
<1>3. RequestKnown' /\ Fair(answer') BY Zenon, <1>1 DEF AnswerInv, RequestKnown
<1> QED BY Zenon, <1>2, <1>3 DEF AnswerInv

LEMMA RangeOfOrder ==
  ASSUME AnswerTypes
  PROVE  Answer!Range(pubOrder) = {pubOrder[i] : i \in 1 .. Len(pubOrder)}
<1>1. DOMAIN pubOrder = 1 .. Len(pubOrder) BY LenProperties DEF AnswerTypes
<1> QED BY <1>1 DEF Answer!Range

LEMMA AnswerPublishes ==
  ASSUME AnswerBounds, AnswerInv, NEW u \in Srcs, Answer!Publishes(u)
  PROVE  AnswerInv'
<1>1. pubOrder' = Append(pubOrder, u) /\ live' = live /\ UNCHANGED <<cacheMap, staleKeys, request, answer>>
  BY DEF Answer!Publishes
<1>2. listed' = listed BY DEF Answer!Publishes
<1>3. pubOrder \in Seq(Srcs) /\ Once(pubOrder) BY DEF AnswerInv, AnswerTypes
<1>4. Len(pubOrder) \in Nat BY <1>3, LenProperties
<1> DEFINE a == Append(pubOrder, u)
<1>5. /\ a \in Seq(Srcs) /\ Len(a) = Len(pubOrder) + 1
      /\ \A i \in 1 .. Len(pubOrder) : a[i] = pubOrder[i]
      /\ a[Len(pubOrder) + 1] = u
  BY <1>3, AppendProperties
<1> HIDE DEF a
<1>6. \A i \in 1 .. Len(pubOrder) : pubOrder[i] # u
  <2>1. u \notin Answer!Range(pubOrder) BY DEF Answer!Publishes
  <2> QED BY <2>1, RangeOfOrder DEF AnswerInv
<1>7. Once(a)
  <2> SUFFICES ASSUME NEW i \in 1 .. Len(a), NEW j \in 1 .. Len(a), a[i] = a[j] PROVE i = j
    BY DEF Once
  <2>1. /\ i \in 1 .. Len(pubOrder) \/ i = Len(pubOrder) + 1
        /\ j \in 1 .. Len(pubOrder) \/ j = Len(pubOrder) + 1
    BY <1>4, <1>5
  <2> QED BY <1>3, <1>5, <1>6, <2>1 DEF Once
<1>8. moves' \in 0 .. MaxMoves BY DEF Answer!Publishes, AnswerBounds, AnswerInv, AnswerTypes
<1>9. pubOrder' = a BY <1>1 DEF a
<1>10. AnswerTypes'
  <2>1. pubOrder' \in Seq(Srcs) /\ Once(pubOrder)' BY <1>5, <1>7, <1>9 DEF Once
  <2> QED BY <1>1, <1>8, <2>1 DEF AnswerInv, AnswerTypes
<1>11. AnswerFlags' BY Zenon, <1>2 DEF AnswerInv, AnswerFlags
<1> QED BY <1>1, <1>10, <1>11, AroundKept

LEMMA AnswerMoves ==
  ASSUME AnswerBounds, AnswerInv, NEW u \in Srcs, NEW what \in CanBe[u] \cup {"gone"},
         Answer!Moves(u, what)
  PROVE  AnswerInv'
<1>1. /\ live' = [live EXCEPT ![u] = what] /\ pubOrder' = pubOrder
      /\ UNCHANGED <<cacheMap, staleKeys, request, answer>>
  BY DEF Answer!Moves
<1>2. listed' = listed BY DEF Answer!Moves
<1>3. moves' \in 0 .. MaxMoves BY DEF Answer!Moves, AnswerBounds, AnswerInv, AnswerTypes
<1>4. what \in Lives BY DEF AnswerBounds, Lives
<1>5. live \in [Srcs -> Lives] /\ \A v \in Srcs : live[v] \in CanBe[v] \cup {"gone"}
  BY DEF AnswerInv, AnswerTypes
<1>6. live' \in [Srcs -> Lives] /\ \A v \in Srcs : live'[v] \in CanBe[v] \cup {"gone"}
  BY <1>1, <1>4, <1>5
<1>7. AnswerTypes' BY <1>1, <1>3, <1>6 DEF AnswerInv, AnswerTypes, Once
<1>8. AnswerFlags' BY Zenon, <1>2 DEF AnswerInv, AnswerFlags
<1> QED BY <1>1, <1>7, <1>8, AroundKept

LEMMA AnswerLists ==
  ASSUME AnswerBounds, AnswerInv, Answer!Lists
  PROVE  AnswerInv'
<1>1. UNCHANGED <<pubOrder, live>> /\ UNCHANGED <<cacheMap, staleKeys, request, answer>>
  BY DEF Answer!Lists
<1>2. AnswerFlags' BY Zenon DEF Answer!Lists, AnswerFlags
<1>3. moves' \in 0 .. MaxMoves BY DEF Answer!Lists, AnswerBounds, AnswerInv, AnswerTypes
<1>4. AnswerTypes' BY <1>1, <1>3 DEF AnswerInv, AnswerTypes, Once
<1> QED BY <1>1, <1>2, <1>4, AroundKept

Withheld == listed /\ answer' # answer /\ request = Answer!NoReq => answer'.recs = <<>>

LEMMA AnswerStep ==
  ASSUME AnswerBounds, AnswerInv, [Answer!Next]_(Answer!vars)
  PROVE  AnswerInv' /\ Withheld
<1>1. ASSUME NEW u \in Srcs, NEW obfu \in BOOLEAN, NEW sized \in BOOLEAN, Answer!AskSources(u, obfu, sized)
      PROVE  AnswerInv' /\ Withheld
  BY Zenon, <1>1, AnswerAsks DEF Withheld
<1>2. ASSUME NEW six \in BOOLEAN, Answer!AskUdp(six) PROVE AnswerInv' /\ Withheld
  BY Zenon, <1>2, AnswerUdp DEF Withheld
<1>3. CASE Answer!BuildSources
  <2>1. AnswerInv' BY Zenon, <1>3, AnswerBuilds
  <2>2. request # Answer!NoReq BY <1>3 DEF Answer!BuildSources, Answer!NoReq
  <2> QED BY Zenon, <2>1, <2>2 DEF Withheld
<1>4. ASSUME NEW u \in Srcs, Answer!Publishes(u) PROVE AnswerInv' /\ Withheld
  <2>1. AnswerInv' BY Zenon, <1>4, AnswerPublishes
  <2>2. answer' = answer BY <1>4 DEF Answer!Publishes
  <2> QED BY Zenon, <2>1, <2>2 DEF Withheld
<1>5. ASSUME NEW u \in Srcs, NEW what \in CanBe[u] \cup {"gone"}, Answer!Moves(u, what)
      PROVE  AnswerInv' /\ Withheld
  <2>1. AnswerInv' BY Zenon, <1>5, AnswerMoves
  <2>2. answer' = answer BY <1>5 DEF Answer!Moves
  <2> QED BY Zenon, <2>1, <2>2 DEF Withheld
<1>6. CASE Answer!Lists
  <2>1. AnswerInv' BY Zenon, <1>6, AnswerLists
  <2>2. answer' = answer BY <1>6 DEF Answer!Lists
  <2> QED BY Zenon, <2>1, <2>2 DEF Withheld
<1>7. ASSUME NEW k \in Answer!Kinds, Answer!SweepExpired(k) PROVE AnswerInv' /\ Withheld
  <2>1. AnswerInv' BY Zenon, <1>7, AnswerExpires
  <2>2. answer' = answer BY <1>7 DEF Answer!SweepExpired
  <2> QED BY Zenon, <2>1, <2>2 DEF Withheld
<1>8. ASSUME NEW k \in Answer!Kinds, Answer!Forget(k) PROVE AnswerInv' /\ Withheld
  <2>1. AnswerInv' BY Zenon, <1>8, AnswerForgets
  <2>2. answer' = answer BY <1>8 DEF Answer!Forget
  <2> QED BY Zenon, <2>1, <2>2 DEF Withheld
<1>9. CASE UNCHANGED Answer!vars
  <2>1. UNCHANGED <<pubOrder, live, moves>> /\ UNCHANGED <<cacheMap, staleKeys, request, answer>>
    BY <1>9 DEF Answer!vars
  <2>2. listed' = listed BY <1>9 DEF Answer!vars
  <2>3. AnswerTypes' BY <2>1, TypesKept DEF AnswerInv
  <2>4. AnswerFlags' BY Zenon, <2>2 DEF AnswerInv, AnswerFlags
  <2>5. AnswerInv' BY <2>1, <2>3, <2>4, AroundKept
  <2>6. answer' = answer BY <2>1
  <2> QED BY Zenon, <2>5, <2>6 DEF Withheld
<1> QED
  BY Zenon, <1>1, <1>2, <1>3, <1>4, <1>5, <1>6, <1>7, <1>8, <1>9 DEF Answer!Next

LEMMA AnswerImplies ==
  ASSUME AnswerBounds, AnswerInv
  PROVE  Answer!TypeOK /\ Answer!DirectNotHidden /\ Answer!LowIdNotExposed
<1>1. Answer!TypeOK
  <2>1. Answer!Range(pubOrder) = {pubOrder[i] : i \in 1 .. Len(pubOrder)} BY RangeOfOrder DEF AnswerInv
  <2>2. DOMAIN pubOrder = 1 .. Len(pubOrder) /\ \A i \in 1 .. Len(pubOrder) : pubOrder[i] \in Srcs
    BY LenProperties, ElementOfSeq DEF AnswerInv, AnswerTypes
  <2>3. Answer!IsInjective(pubOrder)
    BY <2>2 DEF Answer!IsInjective, AnswerInv, AnswerTypes, Once
  <2>4. Answer!Range(pubOrder) \subseteq Srcs BY <2>1, <2>2
  <2>5. request.pc \in {"none", "build"}
    <3>1. Answer!NoReq.pc = "none" BY DEF Answer!NoReq
    <3> QED BY Zenon, <3>1 DEF AnswerInv, RequestKnown
  <2>6. answer.to \in Srcs \cup {"nobody", "udp4", "udp6"} BY Zenon DEF AnswerInv, Fair
  <2>7. moves \in 0 .. MaxMoves /\ \A u \in Srcs : live[u] \in CanBe[u] \cup {"gone"}
    BY DEF AnswerInv, AnswerTypes
  <2> QED BY Zenon, <2>3, <2>4, <2>5, <2>6, <2>7 DEF AnswerInv, AnswerFlags, KeysKnown, Answer!TypeOK
<1>2. Fair(answer) BY DEF AnswerInv
<1>3. answer.recs \in Seq(Recs) /\ answer.of \in Seq(Srcs) /\ Discreet(answer.recs, answer.was)
  BY Zenon, <1>2 DEF Fair
<1>4. DOMAIN answer.recs = 1 .. Len(answer.recs) BY <1>3, LenProperties
<1>5. Answer!LowIdNotExposed BY Zenon, <1>3, <1>4 DEF Answer!LowIdNotExposed, Discreet
<1>6. Answer!DirectNotHidden
  <2> DEFINE p == Answer!Prefix(answer.of, Scan)
             usable == {u \in Answer!Range(p) \ {answer.to} :
                          answer.was[u] \in {"high", "gone"} /\ u \notin Lan}
  <2>1. p \in Seq(Srcs) BY <1>3, PrefixFacts DEF AnswerBounds
  <2>2. DOMAIN p = 1 .. Len(p) /\ \A i \in 1 .. Len(p) : p[i] \in Srcs BY <2>1, LenProperties, ElementOfSeq
  <2>3. usable \subseteq Dialled(answer.of, answer.was) \ {answer.to}
    BY <2>2 DEF Answer!Range, Dialled, Holds
  <2> HIDE DEF usable
  <2> DEFINE direct == {r \in Answer!Range(answer.recs) : r.by = "addr"}
  <2>4. answer.via \in {"cache", "built"} =>
          /\ answer.to \notin Answer!Owners(answer.recs)
          /\ usable \subseteq Answer!Owners(answer.recs) \/ Cardinality(direct) = MaxReply
    BY Zenon, <1>2, <2>3 DEF Fair
  <2>5. Answer!Cardinality(direct) = Cardinality(direct) BY Zenon, AnswerCardinality
  <2> HIDE DEF direct
  <2> QED BY Zenon, <2>4, <2>5 DEF Answer!DirectNotHidden, usable, direct
<1> QED BY <1>1, <1>5, <1>6

(* A requester misses a source it could dial only when its reply is full   *)
(* of such sources, no answer carries the address of a source that had a   *)
(* LowID when it was built, and a withheld file's sources are not handed   *)
(* out, however publications, logins, departures, expiries and questions   *)
(* interleave, for any number of users and any sizes of scan and reply.    *)
THEOREM AnswersAlwaysSound ==
  ASSUME AnswerBounds
  PROVE  Answer!Spec => AnswersSound
<1>1. Answer!Init => AnswerInv BY AnswerInit
<1>2. AnswerInv /\ [Answer!Next]_(Answer!vars) => AnswerInv' /\ [Withheld]_(Answer!vars)
  BY AnswerStep
<1>3. AnswerInv => Answer!TypeOK /\ Answer!DirectNotHidden /\ Answer!LowIdNotExposed
  BY AnswerImplies
<1> QED
  BY <1>1, <1>2, <1>3, PTL DEF Answer!Spec, AnswersSound, Answer!AnswersSound, Answer!WithheldNotServed, Withheld

-----------------------------------------------------------------------------
LaneBounds ==
  /\ IsFiniteSet(TcpCallers) /\ IsFiniteSet(UdpCallers) /\ TcpCallers \cap UdpCallers = {}
  /\ MaxJobs \in Nat /\ MaxFound \in Nat /\ PageSizes \subseteq Nat

Running == {c \in Lane!Callers : search[c] = "running"}
Waiting == {c \in Lane!Callers : search[c] = "waiting"}

LaneTypes == search \in [Lane!Callers -> {"idle", "waiting", "running"}] /\ line \in Seq(Lane!Callers)

(* Each that waits is in line once. *)
InLineOnce ==
  /\ \A i, j \in 1 .. Len(line) : line[i] = line[j] => i = j
  /\ \A c \in Lane!Callers : c \in Waiting <=> \E i \in 1 .. Len(line) : line[i] = c

JobsCounted ==
  /\ jobsFree \in Nat /\ jobsFree + Cardinality(Running) = MaxJobs
  /\ line # <<>> => jobsFree = 0

PlacesCounted ==
  /\ tcpPlaces = Cardinality(Waiting \cap TcpCallers)
  /\ udpPlaces = Cardinality(Waiting \cap UdpCallers)

PageTypes ==
  /\ pageSize \in PageSizes
  /\ buffer \in [TcpCallers -> Seq(Nat)] /\ served \in [TcpCallers -> Seq(Nat)]
  /\ whole \in [TcpCallers -> Seq(Nat)]

MoreTypes == more \in [TcpCallers -> BOOLEAN]
BufferBounded == \A c \in TcpCallers : Len(buffer[c]) <= MaxFound

PagesInv == PageTypes /\ MoreTypes /\ BufferBounded /\ Lane!PagesWhole
QueueInv == LaneTypes /\ InLineOnce /\ JobsCounted /\ PlacesCounted

-----------------------------------------------------------------------------
LEMMA LaneCardinality == \A S : Lane!Cardinality(S) = Cardinality(S)
BY DEF Lane!Cardinality, Cardinality

LEMMA LaneFinite ==
  ASSUME LaneBounds
  PROVE  /\ IsFiniteSet(Lane!Callers)
         /\ \A S \in SUBSET Lane!Callers : IsFiniteSet(S) /\ Cardinality(S) \in Nat
<1>1. IsFiniteSet(Lane!Callers) BY FS_Union DEF LaneBounds, Lane!Callers
<1> QED BY <1>1, FS_Subset, FS_CardinalityType

(* What is left of a sequence when one of it is taken out. *)
LEMMA TakenOut ==
  ASSUME NEW S, NEW s \in Seq(S), NEW i \in 1 .. Len(s)
  PROVE  /\ Lane!RemoveAt(s, i) \in Seq(S)
         /\ Len(Lane!RemoveAt(s, i)) = Len(s) - 1
         /\ \A j \in 1 .. Len(s) - 1 :
              Lane!RemoveAt(s, i)[j] = IF j < i THEN s[j] ELSE s[j + 1]
<1> DEFINE a == SubSeq(s, 1, i - 1)
           b == SubSeq(s, i + 1, Len(s))
<1>1. Len(s) \in Nat /\ \A k \in 1 .. Len(s) : s[k] \in S BY LenProperties, ElementOfSeq
<1>2. /\ a \in Seq(S) /\ Len(a) = i - 1
      /\ \A k \in 1 .. i - 1 : a[k] = s[k]
  <2>1. \A k \in 1 .. i - 1 : s[k] \in S BY <1>1
  <2>2. /\ a \in Seq(S) /\ Len(a) = IF 1 <= i - 1 THEN (i - 1) - 1 + 1 ELSE 0
        /\ \A k \in 1 .. (i - 1) - 1 + 1 : a[k] = s[1 + k - 1]
    BY <2>1, <1>1, SubSeqProperties
  <2> HIDE DEF a
  <2> QED BY <2>2, <1>1
<1>3. /\ b \in Seq(S) /\ Len(b) = Len(s) - i
      /\ \A k \in 1 .. Len(s) - i : b[k] = s[i + k]
  <2>1. \A k \in i + 1 .. Len(s) : s[k] \in S BY <1>1
  <2>2. /\ b \in Seq(S) /\ Len(b) = IF i + 1 <= Len(s) THEN Len(s) - (i + 1) + 1 ELSE 0
        /\ \A k \in 1 .. Len(s) - (i + 1) + 1 : b[k] = s[(i + 1) + k - 1]
    BY <2>1, <1>1, SubSeqProperties
  <2> HIDE DEF b
  <2> QED BY <2>2, <1>1
<1>4. Lane!RemoveAt(s, i) = a \o b BY DEF Lane!RemoveAt
<1>5. /\ a \o b \in Seq(S) /\ Len(a \o b) = Len(a) + Len(b)
      /\ \A k \in 1 .. Len(a) + Len(b) : (a \o b)[k] = IF k <= Len(a) THEN a[k] ELSE b[k - Len(a)]
  <2> HIDE DEF a, b
  <2> QED BY <1>2, <1>3, ConcatProperties
<1> HIDE DEF a, b
<1>6. ASSUME NEW j \in 1 .. Len(s) - 1
      PROVE  (a \o b)[j] = IF j < i THEN s[j] ELSE s[j + 1]
  <2>1. (a \o b)[j] = IF j <= i - 1 THEN a[j] ELSE b[j - (i - 1)] BY <1>1, <1>2, <1>3, <1>5
  <2>2. CASE j < i BY <1>1, <1>2, <2>1, <2>2
  <2>3. CASE i <= j
    <3>1. j - (i - 1) \in 1 .. Len(s) - i /\ i + (j - (i - 1)) = j + 1 BY <1>1, <2>3
    <3>2. b[j - (i - 1)] = s[j + 1] BY <1>3, <3>1
    <3> QED BY <1>1, <2>1, <2>3, <3>2
  <2>4. j < i \/ i <= j BY <1>1
  <2> QED BY <2>2, <2>3, <2>4
<1>7. Len(a \o b) = Len(s) - 1 BY <1>1, <1>2, <1>3, <1>5
<1> QED BY <1>4, <1>5, <1>6, <1>7

(* One more at the end of the line, and the first of it gone. *)
LEMMA LineGrows ==
  ASSUME NEW c \in Lane!Callers, c \notin Waiting, LaneTypes, InLineOnce,
         line' = Append(line, c), search' = [search EXCEPT ![c] = "waiting"]
  PROVE  LaneTypes' /\ InLineOnce' /\ Waiting' = Waiting \cup {c} /\ Running' = Running \ {c}
<1>1. /\ line' \in Seq(Lane!Callers) /\ Len(line') = Len(line) + 1
      /\ \A i \in 1 .. Len(line) : line'[i] = line[i]
      /\ line'[Len(line) + 1] = c /\ Len(line) \in Nat
  BY AppendProperties, LenProperties DEF LaneTypes
<1>2. Waiting' = Waiting \cup {c} BY DEF Waiting, LaneTypes
<1>3. Running' = Running \ {c} BY DEF Running, LaneTypes
<1>4. LaneTypes' BY <1>1 DEF LaneTypes
<1>5. \A i \in 1 .. Len(line) : line[i] # c BY DEF InLineOnce
<1>6. InLineOnce'
  <2>1. \A i, j \in 1 .. Len(line') : line'[i] = line'[j] => i = j
    BY <1>1, <1>5 DEF InLineOnce
  <2>2. ASSUME NEW d \in Lane!Callers
        PROVE  d \in Waiting' <=> \E i \in 1 .. Len(line') : line'[i] = d
    BY <1>1, <1>2 DEF InLineOnce
  <2> QED BY <2>1, <2>2 DEF InLineOnce
<1> QED BY <1>2, <1>3, <1>4, <1>6

LEMMA LineLoses ==
  ASSUME LaneTypes, InLineOnce, NEW i \in 1 .. Len(line),
         line' = Lane!RemoveAt(line, i),
         search' \in [Lane!Callers -> {"idle", "waiting", "running"}],
         Waiting' = Waiting \ {line[i]}
  PROVE  LaneTypes' /\ InLineOnce'
<1>1. /\ line' \in Seq(Lane!Callers) /\ Len(line') = Len(line) - 1 /\ Len(line) \in Nat
      /\ \A j \in 1 .. Len(line) - 1 : line'[j] = IF j < i THEN line[j] ELSE line[j + 1]
  BY TakenOut, LenProperties DEF LaneTypes
<1>2. LaneTypes' BY <1>1 DEF LaneTypes
<1>3. ASSUME NEW j \in 1 .. Len(line) - 1
      PROVE  \E k \in 1 .. Len(line) \ {i} :
               line'[j] = line[k] /\ (j < i => k = j) /\ (i <= j => k = j + 1)
  <2>1. CASE j < i BY <1>1, <2>1
  <2>2. CASE i <= j
    <3>1. j + 1 \in 1 .. Len(line) \ {i} /\ ~(j < i) BY <1>1, <2>2
    <3>2. line'[j] = line[j + 1] BY <1>1, <3>1
    <3> QED BY <3>1, <3>2
  <2>3. j < i \/ i <= j BY <1>1
  <2> QED BY <2>1, <2>2, <2>3
<1>4. \A j, k \in 1 .. Len(line') : line'[j] = line'[k] => j = k
  BY <1>1, <1>3 DEF InLineOnce
<1>5. ASSUME NEW d \in Lane!Callers
      PROVE  d \in Waiting' <=> \E j \in 1 .. Len(line') : line'[j] = d
  <2>1. ASSUME NEW j \in 1 .. Len(line'), line'[j] = d PROVE d \in Waiting'
    <3>1. PICK k \in 1 .. Len(line) \ {i} : line'[j] = line[k] BY <1>1, <1>3
    <3> QED BY <2>1, <3>1 DEF InLineOnce
  <2>2. ASSUME d \in Waiting' PROVE \E j \in 1 .. Len(line') : line'[j] = d
    <3>1. PICK k \in 1 .. Len(line) : line[k] = d BY <2>2 DEF InLineOnce
    <3>2. k # i BY <2>2, <3>1
    <3>3. CASE k < i BY <1>1, <3>1, <3>3
    <3>4. CASE i < k
      <4>1. k - 1 \in 1 .. Len(line') /\ (k - 1) + 1 = k /\ ~(k - 1 < i) BY <1>1, <3>4
      <4> QED BY <1>1, <3>1, <4>1
    <3> QED BY <1>1, <3>2, <3>3, <3>4
  <2> QED BY <2>1, <2>2
<1> QED BY <1>2, <1>4, <1>5 DEF InLineOnce

(* Tail is a removal too. *)
LEMMA FirstTakenOut ==
  ASSUME LaneTypes, line # <<>>
  PROVE  Tail(line) = Lane!RemoveAt(line, 1) /\ Head(line) = line[1] /\ 1 \in 1 .. Len(line)
<1>1. Len(line) \in Nat /\ Len(line) # 0 BY EmptySeq DEF LaneTypes
<1>2. Tail(line) = SubSeq(line, 2, Len(line)) BY TailIsSubSeq DEF LaneTypes
<1>3. Tail(line) \in Seq(Lane!Callers) BY HeadTailProperties DEF LaneTypes
<1>4. SubSeq(line, 1, 1 - 1) = <<>> BY SubSeqEmpty
<1>5. Lane!RemoveAt(line, 1) = <<>> \o SubSeq(line, 1 + 1, Len(line)) BY <1>4 DEF Lane!RemoveAt
<1>6. <<>> \o Tail(line) = Tail(line) BY <1>3, ConcatEmptySeq
<1>7. 1 + 1 = 2 OBVIOUS
<1>8. Lane!RemoveAt(line, 1) = Tail(line) BY Zenon, <1>2, <1>5, <1>6, <1>7
<1>9. Head(line) = line[1] OBVIOUS
<1> QED BY <1>1, <1>8, <1>9

-----------------------------------------------------------------------------
(* The lane's steps. *)
LEMMA InDisjoint ==
  ASSUME LaneTypes
  PROVE  Running \subseteq Lane!Callers /\ Waiting \subseteq Lane!Callers /\ Running \cap Waiting = {}
BY DEF Running, Waiting

LEMMA PlacesKept ==
  ASSUME PlacesCounted, Waiting' = Waiting, UNCHANGED <<tcpPlaces, udpPlaces>>
  PROVE  PlacesCounted'
BY DEF PlacesCounted

LEMMA OnceMore ==
  ASSUME LaneTypes, InLineOnce, Waiting' = Waiting, line' = line
  PROVE  InLineOnce'
BY DEF InLineOnce

LEMMA LaneStarts ==
  ASSUME LaneBounds, QueueInv, NEW c \in Lane!Callers, Lane!StartNow(c)
  PROVE  QueueInv'
<1>1. LaneTypes' BY DEF Lane!StartNow, QueueInv, LaneTypes
<1>2. Waiting' = Waiting BY DEF Lane!StartNow, QueueInv, LaneTypes, Waiting
<1>3. Running' = Running \cup {c} /\ c \notin Running
  BY DEF Lane!StartNow, QueueInv, LaneTypes, Running
<1>4. IsFiniteSet(Running) /\ Cardinality(Running) \in Nat BY LaneFinite, InDisjoint DEF QueueInv
<1>5. Cardinality(Running') = Cardinality(Running) + 1 BY <1>3, <1>4, FS_AddElement
<1>6. jobsFree > 0 /\ jobsFree' = jobsFree - 1 /\ line' = line BY DEF Lane!StartNow
<1>7. JobsCounted' BY <1>4, <1>5, <1>6 DEF QueueInv, JobsCounted, LaneBounds
<1>8. InLineOnce' BY <1>2, <1>6, OnceMore DEF QueueInv
<1>9. PlacesCounted' BY <1>2, PlacesKept DEF QueueInv, Lane!StartNow
<1> QED BY <1>1, <1>7, <1>8, <1>9 DEF QueueInv

(* Who comes into the line or leaves it is counted in its own queue. *)
LEMMA PlaceTaken ==
  ASSUME LaneBounds, LaneTypes, PlacesCounted, NEW c \in Lane!Callers, c \notin Waiting,
         Waiting' = Waiting \cup {c}, Lane!TakePlace(c)
  PROVE  PlacesCounted'
<1>1. /\ IsFiniteSet(Waiting \cap TcpCallers) /\ Cardinality(Waiting \cap TcpCallers) \in Nat
      /\ IsFiniteSet(Waiting \cap UdpCallers) /\ Cardinality(Waiting \cap UdpCallers) \in Nat
  BY LaneFinite, InDisjoint
<1>2. CASE c \in TcpCallers
  <2>1. Waiting' \cap TcpCallers = (Waiting \cap TcpCallers) \cup {c} BY <1>2
  <2>2. Waiting' \cap UdpCallers = Waiting \cap UdpCallers BY <1>2 DEF LaneBounds
  <2>3. Cardinality(Waiting' \cap TcpCallers) = Cardinality(Waiting \cap TcpCallers) + 1
    BY <1>1, <2>1, FS_AddElement
  <2>4. tcpPlaces' = tcpPlaces + 1 /\ udpPlaces' = udpPlaces
    BY <1>2 DEF Lane!TakePlace, LaneBounds
  <2> QED BY <2>2, <2>3, <2>4 DEF PlacesCounted
<1>3. CASE c \in UdpCallers
  <2>1. Waiting' \cap UdpCallers = (Waiting \cap UdpCallers) \cup {c} BY <1>3
  <2>2. Waiting' \cap TcpCallers = Waiting \cap TcpCallers BY <1>3 DEF LaneBounds
  <2>3. Cardinality(Waiting' \cap UdpCallers) = Cardinality(Waiting \cap UdpCallers) + 1
    BY <1>1, <2>1, FS_AddElement
  <2>4. udpPlaces' = udpPlaces + 1 /\ tcpPlaces' = tcpPlaces
    BY <1>3 DEF Lane!TakePlace, LaneBounds
  <2> QED BY <2>2, <2>3, <2>4 DEF PlacesCounted
<1> QED BY <1>2, <1>3 DEF Lane!Callers

LEMMA PlaceLeft ==
  ASSUME LaneBounds, LaneTypes, PlacesCounted, NEW c \in Waiting,
         Waiting' = Waiting \ {c}, Lane!LeavePlace(c)
  PROVE  PlacesCounted'
<1>1. /\ IsFiniteSet(Waiting \cap TcpCallers) /\ Cardinality(Waiting \cap TcpCallers) \in Nat
      /\ IsFiniteSet(Waiting \cap UdpCallers) /\ Cardinality(Waiting \cap UdpCallers) \in Nat
  BY LaneFinite, InDisjoint
<1>2. CASE c \in TcpCallers
  <2>1. Waiting' \cap TcpCallers = (Waiting \cap TcpCallers) \ {c} BY <1>2
  <2>2. Waiting' \cap UdpCallers = Waiting \cap UdpCallers BY <1>2 DEF LaneBounds
  <2>3. Cardinality(Waiting' \cap TcpCallers) = Cardinality(Waiting \cap TcpCallers) - 1
    BY <1>1, <1>2, <2>1, FS_RemoveElement
  <2>4. tcpPlaces' = tcpPlaces - 1 /\ udpPlaces' = udpPlaces
    BY <1>2 DEF Lane!LeavePlace, LaneBounds
  <2> QED BY <2>2, <2>3, <2>4 DEF PlacesCounted
<1>3. CASE c \in UdpCallers
  <2>1. Waiting' \cap UdpCallers = (Waiting \cap UdpCallers) \ {c} BY <1>3
  <2>2. Waiting' \cap TcpCallers = Waiting \cap TcpCallers BY <1>3 DEF LaneBounds
  <2>3. Cardinality(Waiting' \cap UdpCallers) = Cardinality(Waiting \cap UdpCallers) - 1
    BY <1>1, <1>3, <2>1, FS_RemoveElement
  <2>4. udpPlaces' = udpPlaces - 1 /\ tcpPlaces' = tcpPlaces
    BY <1>3 DEF Lane!LeavePlace, LaneBounds
  <2> QED BY <2>2, <2>3, <2>4 DEF PlacesCounted
<1> QED BY <1>2, <1>3, InDisjoint DEF Lane!Callers

LEMMA LaneQueues ==
  ASSUME LaneBounds, QueueInv, NEW c \in Lane!Callers, Lane!Queue(c)
  PROVE  QueueInv'
<1>1. c \notin Waiting /\ c \notin Running BY DEF Lane!Queue, Waiting, Running
<1>2. LaneTypes' /\ InLineOnce' /\ Waiting' = Waiting \cup {c} /\ Running' = Running
  BY <1>1, LineGrows DEF Lane!Queue, QueueInv
<1>3. PlacesCounted' BY <1>1, <1>2, PlaceTaken DEF QueueInv, Lane!Queue
<1>4. JobsCounted' BY <1>2 DEF QueueInv, JobsCounted, Lane!Queue
<1> QED BY <1>2, <1>3, <1>4 DEF QueueInv

LEMMA LaneGivesUp ==
  ASSUME LaneBounds, QueueInv, NEW c \in Lane!Callers, Lane!GiveUp(c)
  PROVE  QueueInv'
<1>1. PICK i \in 1 .. Len(line) : line[i] = c /\ line' = Lane!RemoveAt(line, i)
  BY DEF Lane!GiveUp
<1>2. search' \in [Lane!Callers -> {"idle", "waiting", "running"}] /\ c \in Waiting
  BY DEF Lane!GiveUp, QueueInv, LaneTypes, Waiting
<1>3. Waiting' = Waiting \ {c} BY DEF Lane!GiveUp, QueueInv, LaneTypes, Waiting
<1>4. Running' = Running BY DEF Lane!GiveUp, QueueInv, LaneTypes, Running
<1>5. LaneTypes' /\ InLineOnce' BY <1>1, <1>2, <1>3, LineLoses DEF QueueInv
<1>6. PlacesCounted' BY <1>2, <1>3, PlaceLeft DEF Lane!GiveUp, QueueInv
<1>7. line # <<>> /\ jobsFree' = jobsFree
  <2>1. line # <<>> BY <1>1
  <2> QED BY <2>1 DEF Lane!GiveUp
<1>8. JobsCounted' BY <1>4, <1>7 DEF QueueInv, JobsCounted
<1> QED BY <1>5, <1>6, <1>8 DEF QueueInv

LEMMA LaneFinishes ==
  ASSUME LaneBounds, QueueInv, NEW c \in Lane!Callers, NEW n, Lane!Finish(c, n)
  PROVE  QueueInv'
<1>1. c \in Running /\ c \notin Waiting BY DEF Lane!Finish, Running, Waiting
<1>2. IsFiniteSet(Running) /\ Cardinality(Running) \in Nat BY LaneFinite, InDisjoint DEF QueueInv
<1>3. Cardinality(Running \ {c}) = Cardinality(Running) - 1 /\ IsFiniteSet(Running \ {c})
  BY <1>1, <1>2, FS_RemoveElement
<1>4. CASE line = <<>>
  <2>1. /\ jobsFree' = jobsFree + 1 /\ search' = [search EXCEPT ![c] = "idle"] /\ line' = line
        /\ UNCHANGED <<tcpPlaces, udpPlaces>>
    BY <1>4 DEF Lane!Finish
  <2>2. LaneTypes' BY <2>1 DEF QueueInv, LaneTypes
  <2>3. Running' = Running \ {c} BY <2>1 DEF QueueInv, LaneTypes, Running
  <2>4. Waiting' = Waiting BY <1>1, <2>1 DEF QueueInv, LaneTypes, Waiting
  <2>5. InLineOnce' BY <2>1, <2>4, OnceMore DEF QueueInv
  <2>6. PlacesCounted' BY <2>1, <2>4, PlacesKept DEF QueueInv
  <2>7. JobsCounted' BY <1>2, <1>3, <1>4, <2>1, <2>3 DEF QueueInv, JobsCounted, LaneBounds
  <2> QED BY <2>2, <2>5, <2>6, <2>7 DEF QueueInv
<1>5. CASE line # <<>>
  <2> DEFINE h == Head(line)
  <2>1. /\ jobsFree' = jobsFree /\ line' = Tail(line) /\ Lane!LeavePlace(h)
        /\ search' = [search EXCEPT ![c] = "idle", ![h] = "running"]
    BY <1>5 DEF Lane!Finish
  <2>2. h = line[1] /\ 1 \in 1 .. Len(line) /\ line' = Lane!RemoveAt(line, 1)
    BY <1>5, <2>1, FirstTakenOut DEF QueueInv
  <2>3. h \in Lane!Callers BY <1>5, HeadTailProperties DEF QueueInv, LaneTypes
  <2>4. h \in Waiting BY <2>2, <2>3 DEF QueueInv, InLineOnce
  <2> HIDE DEF h
  <2>5. h # c /\ h \notin Running BY <1>1, <2>4, InDisjoint DEF QueueInv
  <2>6. search' \in [Lane!Callers -> {"idle", "waiting", "running"}]
    BY <2>1 DEF QueueInv, LaneTypes
  <2>7. Waiting' = Waiting \ {h} BY <1>1, <2>1, <2>3 DEF QueueInv, LaneTypes, Waiting
  <2>8. Running' = (Running \ {c}) \cup {h}
    BY <2>1, <2>3, <2>5 DEF QueueInv, LaneTypes, Running
  <2>9. Cardinality(Running') = Cardinality(Running)
    <3>1. Cardinality(Running') = Cardinality(Running \ {c}) + 1
      BY <1>3, <2>5, <2>8, FS_AddElement
    <3> QED BY <1>2, <1>3, <3>1
  <2>10. LaneTypes' /\ InLineOnce' BY <2>2, <2>6, <2>7, LineLoses DEF QueueInv
  <2>11. PlacesCounted' BY <2>1, <2>4, <2>7, PlaceLeft DEF QueueInv
  <2>12. JobsCounted' BY <1>5, <2>1, <2>9 DEF QueueInv, JobsCounted
  <2> QED BY <2>10, <2>11, <2>12 DEF QueueInv
<1> QED BY <1>4, <1>5

-----------------------------------------------------------------------------
(* A sequence is its first n and the rest. *)
LEMMA Halves ==
  ASSUME NEW S, NEW s \in Seq(S), NEW n \in 0 .. Len(s)
  PROVE  /\ SubSeq(s, 1, n) \in Seq(S) /\ SubSeq(s, n + 1, Len(s)) \in Seq(S)
         /\ SubSeq(s, 1, n) \o SubSeq(s, n + 1, Len(s)) = s
         /\ Len(SubSeq(s, n + 1, Len(s))) = Len(s) - n
<1>1. Len(s) \in Nat /\ \A i \in 1 .. Len(s) : s[i] \in S BY LenProperties, ElementOfSeq
<1>2. SubSeq(s, 1, n) \in Seq(S)
  <2>1. \A i \in 1 .. n : s[i] \in S BY <1>1
  <2> QED BY <1>1, <2>1, SubSeqProperties
<1>3. /\ SubSeq(s, n + 1, Len(s)) \in Seq(S)
      /\ Len(SubSeq(s, n + 1, Len(s))) = IF n + 1 <= Len(s) THEN Len(s) - (n + 1) + 1 ELSE 0
  <2>1. \A i \in n + 1 .. Len(s) : s[i] \in S BY <1>1
  <2> QED BY <1>1, <2>1, SubSeqProperties
<1>4. SubSeq(s, 1, n) \o SubSeq(s, n + 1, Len(s)) = SubSeq(s, 1, Len(s))
  <2>1. 1 \in 1 .. Len(s) + 1 /\ n \in 1 - 1 .. Len(s) /\ Len(s) \in n .. Len(s) BY <1>1
  <2> QED BY <2>1, ConcatAdjacentSubSeq
<1>5. SubSeq(s, 1, Len(s)) = s BY SubSeqFull
<1>6. (IF n + 1 <= Len(s) THEN Len(s) - (n + 1) + 1 ELSE 0) = Len(s) - n BY <1>1
<1>7. Len(SubSeq(s, n + 1, Len(s))) = Len(s) - n
  <2> DEFINE b == SubSeq(s, n + 1, Len(s))
  <2>1. Len(b) = IF n + 1 <= Len(s) THEN Len(s) - (n + 1) + 1 ELSE 0 BY <1>3
  <2> HIDE DEF b
  <2>2. Len(b) = Len(s) - n BY <1>1, <2>1
  <2> QED BY <2>2 DEF b
<1>8. SubSeq(s, 1, n) \o SubSeq(s, n + 1, Len(s)) = s BY Zenon, <1>4, <1>5
<1>9. SubSeq(s, n + 1, Len(s)) \in Seq(S) BY Zenon, <1>3
<1> QED BY ZenonT(60), <1>2, <1>7, <1>8, <1>9

LEMMA Regrouped == \A s, t, u \in Seq(Nat) : (s \o t) \o u = s \o (t \o u)
BY ConcatAssociative

(* A page sent of what is left, after what was sent before. *)
LEMMA PageSent ==
  ASSUME LaneBounds, PagesInv, NEW c \in TcpCallers, NEW left \in Seq(Nat), NEW before \in Seq(Nat),
         Lane!SendPage(c, left, before), Len(left) <= MaxFound,
         whole' \in [TcpCallers -> Seq(Nat)], pageSize' = pageSize,
         whole'[c] = before \o left, \A d \in TcpCallers \ {c} : whole'[d] = whole[d]
  PROVE  PagesInv'
<1> DEFINE n == Lane!Smaller(Len(left), pageSize)
           rest == SubSeq(left, n + 1, Len(left))
           page == SubSeq(left, 1, n)
<1>1. Len(left) \in Nat BY LenProperties
<1>2. pageSize \in Nat BY DEF PagesInv, PageTypes, LaneBounds
<1>3. n \in 0 .. Len(left) BY <1>1, <1>2 DEF Lane!Smaller
<1>4. /\ buffer' = [buffer EXCEPT ![c] = rest]
      /\ served' = [served EXCEPT ![c] = before \o page]
      /\ more' = [more EXCEPT ![c] = n < Len(left)]
  BY Zenon DEF Lane!SendPage
<1> HIDE DEF n
<1>5. page \in Seq(Nat) /\ rest \in Seq(Nat) /\ page \o rest = left /\ Len(rest) = Len(left) - n
  BY <1>3, Halves
<1> HIDE DEF page, rest
<1>6. before \o page \in Seq(Nat) /\ (before \o page) \o rest = before \o left
  <2>1. before \o page \in Seq(Nat) BY <1>5, ConcatProperties
  <2>2. (before \o page) \o rest = before \o (page \o rest) BY <1>5, Regrouped
  <2> QED BY Zenon, <1>5, <2>1, <2>2
<1>7. (n < Len(left)) <=> rest # <<>>
  <2>1. rest # <<>> => Len(rest) \in Nat \ {0} BY <1>5, EmptySeq
  <2>2. rest = <<>> => Len(rest) = 0 BY EmptySeq
  <2> QED BY <1>1, <1>3, <1>5, <2>1, <2>2
<1>8. PageTypes'
  <2>1. buffer' \in [TcpCallers -> Seq(Nat)] BY <1>4, <1>5 DEF PagesInv, PageTypes
  <2>2. served' \in [TcpCallers -> Seq(Nat)] BY <1>4, <1>6 DEF PagesInv, PageTypes
  <2> QED BY <2>1, <2>2 DEF PagesInv, PageTypes
<1>9. MoreTypes'
  <2>1. (n < Len(left)) \in BOOLEAN OBVIOUS
  <2> QED BY Zenon, <1>4, <2>1 DEF PagesInv, MoreTypes
<1>10. buffer'[c] = rest /\ served'[c] = before \o page
  BY <1>4 DEF PagesInv, PageTypes
<1>11. more'[c] = (n < Len(left)) BY Zenon, <1>4 DEF PagesInv, MoreTypes
<1>12. \A d \in TcpCallers \ {c} : buffer'[d] = buffer[d] /\ served'[d] = served[d]
  BY <1>4 DEF PagesInv, PageTypes
<1>13. \A d \in TcpCallers \ {c} : more'[d] = more[d]
  BY Zenon, <1>4 DEF PagesInv, MoreTypes
<1>14. BufferBounded'
  <2>1. Len(rest) <= MaxFound BY <1>1, <1>3, <1>5 DEF LaneBounds
  <2> QED BY <1>10, <1>12, <2>1 DEF PagesInv, BufferBounded
<1>15. Lane!PagesWhole'
  <2>1. served'[c] \o buffer'[c] = whole'[c] BY <1>6, <1>10
  <2>2. more'[c] <=> buffer'[c] # <<>> BY Zenon, <1>7, <1>10, <1>11
  <2>3. \A d \in TcpCallers \ {c} :
           served'[d] \o buffer'[d] = whole'[d] /\ (more'[d] <=> buffer'[d] # <<>>)
    BY Zenon, <1>12, <1>13 DEF PagesInv, Lane!PagesWhole
  <2> QED BY Zenon, <2>1, <2>2, <2>3 DEF Lane!PagesWhole
<1> QED BY <1>8, <1>9, <1>14, <1>15 DEF PagesInv

LEMMA PagesAnswered ==
  ASSUME LaneBounds, PagesInv, NEW c \in TcpCallers, NEW results \in Seq(Nat),
         Len(results) <= MaxFound, Lane!AnswerTcp(c, results)
  PROVE  PagesInv'
<1>1. <<>> \in Seq(Nat) /\ <<>> \o results = results BY ConcatEmptySeq, EmptySeq
<1>2. /\ whole' \in [TcpCallers -> Seq(Nat)] /\ whole'[c] = results
      /\ \A d \in TcpCallers \ {c} : whole'[d] = whole[d]
  BY DEF Lane!AnswerTcp, PagesInv, PageTypes
<1>3. Lane!SendPage(c, results, <<>>) /\ pageSize' = pageSize BY DEF Lane!AnswerTcp
<1>4. whole'[c] = <<>> \o results BY <1>1, <1>2
<1> QED BY <1>1, <1>2, <1>3, <1>4, PageSent

LEMMA PagesKept ==
  ASSUME PagesInv, UNCHANGED Lane!pages
  PROVE  PagesInv'
<1>1. UNCHANGED <<pageSize, buffer, whole, served>> /\ more' = more BY DEF Lane!pages
<1>2. PageTypes' BY <1>1 DEF PagesInv, PageTypes
<1>3. MoreTypes' BY <1>1 DEF PagesInv, MoreTypes
<1>4. BufferBounded' BY <1>1 DEF PagesInv, BufferBounded
<1>5. Lane!PagesWhole' BY Zenon, <1>1 DEF PagesInv, Lane!PagesWhole
<1> QED BY <1>2, <1>3, <1>4, <1>5 DEF PagesInv

LEMMA NothingAnswered ==
  ASSUME LaneBounds, PagesInv, NEW c \in Lane!Callers, Lane!AnswerEmpty(c)
  PROVE  PagesInv'
<1>1. <<>> \in Seq(Nat) /\ Len(<<>>) <= MaxFound BY EmptySeq DEF LaneBounds
<1>2. CASE c \in TcpCallers BY <1>1, <1>2, PagesAnswered DEF Lane!AnswerEmpty
<1>3. CASE c \notin TcpCallers BY <1>3, PagesKept DEF Lane!AnswerEmpty
<1> QED BY <1>2, <1>3

LEMMA FoundSequence ==
  ASSUME NEW n \in Nat
  PROVE  Lane!Found(n) \in Seq(Nat) /\ Len(Lane!Found(n)) = n
BY DEF Lane!Found

LEMMA QueueKept ==
  ASSUME QueueInv, UNCHANGED <<search, jobsFree, line, tcpPlaces, udpPlaces>>
  PROVE  QueueInv'
<1>1. LaneTypes' BY DEF QueueInv, LaneTypes
<1>2. Waiting' = Waiting /\ Running' = Running BY DEF Waiting, Running
<1>3. InLineOnce' BY <1>2, OnceMore DEF QueueInv
<1>4. JobsCounted' BY <1>2 DEF QueueInv, JobsCounted
<1>5. PlacesCounted' BY <1>2, PlacesKept DEF QueueInv
<1> QED BY <1>1, <1>3, <1>4, <1>5 DEF QueueInv

LEMMA LaneInit ==
  ASSUME LaneBounds, Lane!Init
  PROVE  QueueInv /\ PagesInv
<1>1. Running = {} /\ Waiting = {} BY DEF Lane!Init, Running, Waiting
<1>2. <<>> \in Seq(Lane!Callers) /\ <<>> \in Seq(Nat) /\ Len(<<>>) = 0 BY EmptySeq
<1>3. Cardinality({}) = 0 BY FS_EmptySet
<1>4. LaneTypes BY <1>2 DEF Lane!Init, LaneTypes
<1>5. InLineOnce BY <1>1, <1>2 DEF Lane!Init, InLineOnce
<1>6. JobsCounted BY <1>1, <1>3 DEF Lane!Init, JobsCounted, LaneBounds
<1>7. PlacesCounted
  <2>1. Waiting \cap TcpCallers = {} /\ Waiting \cap UdpCallers = {} BY <1>1
  <2> QED BY <1>3, <2>1 DEF Lane!Init, PlacesCounted
<1>8. \A c \in TcpCallers : buffer[c] = <<>> /\ whole[c] = <<>> /\ served[c] = <<>>
  BY DEF Lane!Init
<1>9. PageTypes
  <2>1. [c \in TcpCallers |-> <<>>] \in [TcpCallers -> Seq(Nat)] BY <1>2
  <2> QED BY <2>1 DEF Lane!Init, PageTypes
<1>10. MoreTypes BY DEF Lane!Init, MoreTypes
<1>11. BufferBounded BY <1>2, <1>8 DEF BufferBounded, LaneBounds
<1>12. Lane!PagesWhole
  <2>1. <<>> \o <<>> = <<>> BY <1>2, ConcatEmptySeq
  <2>2. \A c \in TcpCallers : ~more[c] BY DEF Lane!Init
  <2> QED BY Zenon, <1>8, <2>1, <2>2 DEF Lane!PagesWhole
<1> QED BY <1>4, <1>5, <1>6, <1>7, <1>9, <1>10, <1>11, <1>12 DEF QueueInv, PagesInv

LEMMA LaneStep ==
  ASSUME LaneBounds, QueueInv, PagesInv, [Lane!Next]_Lane!vars
  PROVE  QueueInv' /\ PagesInv'
<1>1. ASSUME NEW c \in Lane!Callers, Lane!StartNow(c) PROVE QueueInv' /\ PagesInv'
  <2>1. UNCHANGED Lane!pages BY <1>1 DEF Lane!StartNow
  <2> QED BY <1>1, <2>1, LaneStarts, PagesKept
<1>2. ASSUME NEW c \in Lane!Callers, Lane!Queue(c) PROVE QueueInv' /\ PagesInv'
  <2>1. UNCHANGED Lane!pages BY <1>2 DEF Lane!Queue
  <2> QED BY <1>2, <2>1, LaneQueues, PagesKept
<1>3. ASSUME NEW c \in Lane!Callers, Lane!Shed(c) PROVE QueueInv' /\ PagesInv'
  <2>1. Lane!AnswerEmpty(c) /\ UNCHANGED <<search, jobsFree, line, tcpPlaces, udpPlaces>>
    BY <1>3 DEF Lane!Shed
  <2> QED BY <2>1, QueueKept, NothingAnswered
<1>4. ASSUME NEW c \in Lane!Callers, Lane!GiveUp(c) PROVE QueueInv' /\ PagesInv'
  <2>1. Lane!AnswerEmpty(c) BY <1>4 DEF Lane!GiveUp
  <2> QED BY <1>4, <2>1, LaneGivesUp, NothingAnswered
<1>5. ASSUME NEW c \in Lane!Callers, NEW n \in 0 .. MaxFound, Lane!Finish(c, n)
      PROVE  QueueInv' /\ PagesInv'
  <2>1. n \in Nat /\ n <= MaxFound BY DEF LaneBounds
  <2>2. PagesInv'
    <3>1. CASE c \in TcpCallers
      <4>1. Lane!AnswerTcp(c, Lane!Found(n)) BY <1>5, <3>1 DEF Lane!Finish
      <4> QED BY <2>1, <3>1, <4>1, FoundSequence, PagesAnswered
    <3>2. CASE c \notin TcpCallers
      <4>1. UNCHANGED Lane!pages BY <1>5, <3>2 DEF Lane!Finish
      <4> QED BY <4>1, PagesKept
    <3> QED BY <3>1, <3>2
  <2> QED BY <1>5, <2>2, LaneFinishes
<1>6. ASSUME NEW c \in TcpCallers, Lane!Unparsed(c) PROVE QueueInv' /\ PagesInv'
  <2>1. Lane!AnswerTcp(c, <<>>) /\ UNCHANGED <<search, jobsFree, line, tcpPlaces, udpPlaces>>
    BY <1>6 DEF Lane!Unparsed
  <2>2. <<>> \in Seq(Nat) /\ Len(<<>>) <= MaxFound BY EmptySeq DEF LaneBounds
  <2> QED BY <2>1, <2>2, QueueKept, PagesAnswered
<1>7. ASSUME NEW c \in TcpCallers, Lane!QueryMore(c) PROVE QueueInv' /\ PagesInv'
  <2>1. /\ Lane!SendPage(c, buffer[c], served[c]) /\ UNCHANGED <<pageSize, whole>>
        /\ UNCHANGED <<search, jobsFree, line, tcpPlaces, udpPlaces>>
    BY <1>7 DEF Lane!QueryMore
  <2>2. /\ buffer[c] \in Seq(Nat) /\ served[c] \in Seq(Nat) /\ Len(buffer[c]) <= MaxFound
        /\ whole \in [TcpCallers -> Seq(Nat)]
    BY DEF PagesInv, PageTypes, BufferBounded
  <2>3. whole'[c] = served[c] \o buffer[c] BY <2>1 DEF PagesInv, Lane!PagesWhole
  <2> QED BY <2>1, <2>2, <2>3, QueueKept, PageSent
<1>8. ASSUME Lane!Reconfigure PROVE QueueInv' /\ PagesInv'
  <2>1. /\ pageSize' \in PageSizes /\ UNCHANGED <<buffer, whole, served>> /\ more' = more
        /\ UNCHANGED <<search, jobsFree, line, tcpPlaces, udpPlaces>>
    BY <1>8 DEF Lane!Reconfigure
  <2>2. PageTypes' BY <2>1 DEF PagesInv, PageTypes
  <2>3. MoreTypes' BY <2>1 DEF PagesInv, MoreTypes
  <2>4. BufferBounded' BY <2>1 DEF PagesInv, BufferBounded
  <2>5. Lane!PagesWhole' BY Zenon, <2>1 DEF PagesInv, Lane!PagesWhole
  <2> QED BY <2>1, <2>2, <2>3, <2>4, <2>5, QueueKept DEF PagesInv
<1>9. CASE UNCHANGED Lane!vars
  <2>1. UNCHANGED Lane!pages /\ UNCHANGED <<search, jobsFree, line, tcpPlaces, udpPlaces>>
    BY <1>9 DEF Lane!vars, Lane!pages
  <2> QED BY <2>1, QueueKept, PagesKept
<1> QED BY <1>1, <1>2, <1>3, <1>4, <1>5, <1>6, <1>7, <1>8, <1>9 DEF Lane!Next

(* As many are in line as the line is long. *)
LEMMA LineCounted ==
  ASSUME LaneBounds, LaneTypes, InLineOnce
  PROVE  Lane!Range(line) = Waiting /\ Len(line) = Cardinality(Waiting)
<1>1. /\ Len(line) \in Nat /\ line \in [1 .. Len(line) -> Lane!Callers]
      /\ DOMAIN line = 1 .. Len(line)
  BY LenProperties DEF LaneTypes
<1>2. Lane!Range(line) = Waiting
  <2>1. Waiting \subseteq Lane!Callers BY DEF Waiting
  <2>2. \A c \in Lane!Callers : c \in Waiting <=> c \in Lane!Range(line)
    BY <1>1 DEF InLineOnce, Lane!Range
  <2>3. Lane!Range(line) \subseteq Lane!Callers BY <1>1 DEF Lane!Range
  <2> QED BY <2>1, <2>2, <2>3
<1>3. line \in Bijection(1 .. Len(line), Waiting)
  <2>1. \A i \in 1 .. Len(line) : line[i] \in Waiting BY <1>1, <1>2 DEF Lane!Range
  <2>2. line \in [1 .. Len(line) -> Waiting] BY <1>1, <2>1
  <2>3. \A a, b \in 1 .. Len(line) : line[a] = line[b] => a = b BY DEF InLineOnce
  <2>4. \A c \in Waiting : \E i \in 1 .. Len(line) : line[i] = c BY DEF InLineOnce, Waiting
  <2> QED BY <2>2, <2>3, <2>4 DEF Bijection, Injection, Surjection, IsInjective
<1>4. ExistsBijection(1 .. Len(line), Waiting) BY <1>3 DEF ExistsBijection
<1>5. IsFiniteSet(1 .. Len(line)) /\ Cardinality(1 .. Len(line)) = Len(line)
  <2>1. /\ IsFiniteSet(1 .. Len(line))
        /\ Cardinality(1 .. Len(line)) = IF 1 > Len(line) THEN 0 ELSE Len(line) - 1 + 1
    BY <1>1, FS_Interval
  <2> QED BY <1>1, <2>1
<1>6. Cardinality(Waiting) = Cardinality(1 .. Len(line)) BY <1>4, <1>5, FS_Bijection
<1> QED BY <1>2, <1>5, <1>6

LEMMA LaneImplies ==
  ASSUME LaneBounds, QueueInv, PagesInv
  PROVE  LaneSound
<1>1. Lane!Range(line) = Waiting /\ Len(line) = Cardinality(Waiting) BY LineCounted DEF QueueInv
<1>2. Cardinality(Waiting \cap TcpCallers) \in Nat /\ Cardinality(Waiting \cap UdpCallers) \in Nat
  BY LaneFinite, InDisjoint DEF QueueInv
<1>3. Lane!TypeOK
  <2>1. search \in [Lane!Callers -> {"idle", "waiting", "running"}] /\ Lane!Range(line) \subseteq Lane!Callers
    BY <1>1 DEF QueueInv, LaneTypes, Waiting
  <2>2. jobsFree \in Int /\ tcpPlaces \in Nat /\ udpPlaces \in Nat /\ pageSize \in PageSizes
    BY <1>2 DEF QueueInv, JobsCounted, PlacesCounted, PagesInv, PageTypes
  <2>3. \A c \in TcpCallers : more[c] \in BOOLEAN BY Zenon DEF PagesInv, MoreTypes
  <2> QED BY <2>1, <2>2, <2>3 DEF Lane!TypeOK, PagesInv, BufferBounded
<1>4. Lane!LaneExact
  <2>1. jobsFree + Lane!Cardinality({c \in Lane!Callers : search[c] = "running"}) = MaxJobs
    BY LaneCardinality DEF QueueInv, JobsCounted, Running
  <2>2. line # <<>> => jobsFree = 0 BY DEF QueueInv, JobsCounted
  <2>3. /\ Lane!Range(line) = {c \in Lane!Callers : search[c] = "waiting"}
        /\ Len(line) = Lane!Cardinality(Lane!Range(line))
    BY <1>1, LaneCardinality DEF Waiting
  <2>4. /\ tcpPlaces = Lane!Cardinality(Lane!Range(line) \cap TcpCallers)
        /\ udpPlaces = Lane!Cardinality(Lane!Range(line) \cap UdpCallers)
    BY <1>1, LaneCardinality DEF QueueInv, PlacesCounted
  <2> QED BY <2>1, <2>2, <2>3, <2>4 DEF Lane!LaneExact
<1> QED BY <1>3, <1>4 DEF LaneSound, Lane!LaneSound, PagesInv

(* Whatever callers come, whatever gives up or ends in whatever order, and *)
(* however the page size changes: permits, places and pages stay exact.    *)
THEOREM LaneAlwaysSound ==
  ASSUME LaneBounds
  PROVE  Lane!Spec => []LaneSound
<1>1. Lane!Init => QueueInv /\ PagesInv BY LaneInit
<1>2. (QueueInv /\ PagesInv) /\ [Lane!Next]_Lane!vars => QueueInv' /\ PagesInv' BY LaneStep
<1>3. QueueInv /\ PagesInv => LaneSound BY LaneImplies
<1> QED BY <1>1, <1>2, <1>3, PTL DEF Lane!Spec
=============================================================================
