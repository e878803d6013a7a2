---------------------------- MODULE ContentFilter -----------------------------
(***************************************************************************)
(* The content filter: the order of its layers, and the cache of verdicts  *)
(* the serving paths use while the lists are replaced under them.          *)
(*                                                                         *)
(* A name is known by what it contains: a term of layer 1 or 4, a layer 2  *)
(* pattern, an exempt phrase, and the same for the text behind mojibake.   *)
(* Readers run on the blocking pool, list changes on the runtime.          *)
(***************************************************************************)
EXTENDS Naturals, FiniteSets

CONSTANTS
  FHashes, Names,
  Listable,     \* bound: the hashes lists change about
  InName,       \* what a name contains: "jargon", "extra", "age", "exempt"
  Recovered,    \* what its recovered form contains; {"plain"}: there is none
  Readers,
  CacheMax,     \* VERDICT_CACHE_MAX
  MaxPublishes  \* bound: list changes

VARIABLES
  lists,        \* the lists in force
  gen,          \* generation
  publishing,   \* where publish is
  verdicts, vcount, \* verdicts (by hash), verdict_count
  reader,       \* a call of is_withheld
  publishes

vars == <<lists, gen, publishing, verdicts, vcount, reader, publishes>>

Idle == [pc |-> "idle"]
NoEntry == [gen |-> 0, name |-> "none", withheld |-> FALSE]
HashSlots == {"white", "block", "poison"}
TermSlots == {"layer2", "jargon", "extra"}
Kinds == [layer2 |-> {"age", "exempt"}, jargon |-> {"jargon"}, extra |-> {"extra"}]

TypeOK ==
  /\ lists \in [white : SUBSET FHashes, block : SUBSET FHashes, poison : SUBSET FHashes,
                layer2 : SUBSET Kinds.layer2, jargon : SUBSET Kinds.jargon,
                extra : SUBSET Kinds.extra]
  /\ gen \in 0 .. MaxPublishes /\ publishing \in {"idle", "stored", "bumped", "cleared"}
  /\ \A h \in FHashes : verdicts[h].name \in Names \cup {"none"} /\ verdicts[h].gen \in 0 .. gen
  /\ vcount \in Nat /\ \A r \in Readers : reader[r].pc \in {"idle", "insert"} \cup HashSlots \cup TermSlots

Init ==
  /\ lists = [white |-> {}, block |-> {}, poison |-> {},
              layer2 |-> {"exempt"}, jargon |-> {}, extra |-> {}]
  /\ gen = 0 /\ publishing = "idle" /\ verdicts = [h \in FHashes |-> NoEntry] /\ vcount = 0
  /\ reader = [r \in Readers |-> Idle] /\ publishes = 0

-----------------------------------------------------------------------------
(* The name with its encoding errors undone, if there is such a form. *)
UndoMojibake(n) == Recovered[n]

(* The term layers of check_inner: the one that blocks, "allow" when none does. *)
TermLayer(terms, n) ==
  LET raw == InName[n] \cap terms
      rec == UndoMojibake(n) \cap terms
      mangled == UndoMojibake(n) # {"plain"}
      exempt == "exempt" \in raw
      text == IF mangled THEN rec ELSE raw    \* what the term layers read
  IN IF ~exempt /\ "jargon" \in text THEN "L1"
     ELSE IF ~exempt /\ mangled /\ "extra" \in text THEN "L4"
     ELSE IF "age" \in rec \cup raw THEN "L2"
     ELSE IF ~exempt /\ "extra" \in text THEN "L4"
     ELSE "allow"

TermsOf(l) == l.layer2 \cup l.jargon \cup l.extra

Check(l, h, n) ==
  IF h \in l.white THEN "allow"
  ELSE IF h \in l.block THEN "L3"
  ELSE IF h \in l.poison THEN "L5"
  ELSE TermLayer(TermsOf(l), n)

(* Mutant: the whitelist is not asked. *)
ListedAnyway(l, h) == h \in l.block \cup l.poison

(* hash_is_listed, for a caller without a name. *)
HashIsListed(l, h) == h \notin l.white /\ h \in l.block \cup l.poison

-----------------------------------------------------------------------------
(* publish: the list, then the generation, then the cache goes. *)
Store(l) ==
  /\ publishing = "idle" /\ publishes < MaxPublishes /\ publishes' = publishes + 1
  /\ lists' = l /\ publishing' = "stored"
  /\ UNCHANGED <<gen, verdicts, vcount, reader>>

Bump ==
  /\ publishing = "stored" /\ publishing' = "bumped" /\ gen' = gen + 1
  /\ UNCHANGED <<lists, verdicts, vcount, reader, publishes>>

Clear ==
  /\ publishing = "bumped" /\ publishing' = "cleared" /\ verdicts' = [h \in FHashes |-> NoEntry]
  /\ UNCHANGED <<lists, gen, vcount, reader, publishes>>

Zero ==
  /\ publishing = "cleared" /\ publishing' = "idle" /\ vcount' = 0
  /\ UNCHANGED <<lists, gen, verdicts, reader, publishes>>

(* One list replaced by another. *)
Replaced ==
  {[lists EXCEPT !.white = x] : x \in SUBSET Listable}
    \cup {[lists EXCEPT !.block = x] : x \in SUBSET Listable}
    \cup {[lists EXCEPT !.poison = x] : x \in SUBSET Listable}
    \cup UNION {{[lists EXCEPT ![s] = {}], [lists EXCEPT ![s] = Kinds[s]]} : s \in TermSlots}

(* is_withheld: the generation first, then the cache. *)
Ask(r, h, n) ==
  /\ reader[r].pc = "idle"
  /\ ~(verdicts[h].gen = gen /\ verdicts[h].name = n)
  /\ reader' = [reader EXCEPT ![r] =
       [pc |-> "white", hash |-> h, name |-> n, gen |-> gen, terms |-> {}, withheld |-> FALSE]]
  /\ UNCHANGED <<lists, gen, publishing, verdicts, vcount, publishes>>

(* check loads the lists one after another: a hash that is listed ends it, *)
(* and of the term lists no later one undoes what an earlier one blocks.   *)
After == [white |-> "block", block |-> "poison", poison |-> "layer2",
          layer2 |-> "jargon", jargon |-> "extra", extra |-> "insert"]

LoadHashes(r) ==
  LET x == reader[r]
      here == x.hash \in lists[x.pc]
  IN /\ x.pc \in HashSlots
     /\ reader' = [reader EXCEPT ![r].pc = IF here THEN "insert" ELSE After[x.pc],
                                ![r].withheld = here /\ x.pc # "white"]
     /\ UNCHANGED <<lists, gen, publishing, verdicts, vcount, publishes>>

(* Mutant: the generation is read after the lists. *)
GenerationLast(r) ==
  LET x == reader[r]
      loaded == x.terms \cup lists[x.pc]
  IN /\ x.pc \in TermSlots
     /\ reader' = [reader EXCEPT ![r].pc = After[x.pc], ![r].terms = loaded, ![r].gen = gen,
                                ![r].withheld = TermLayer(loaded, x.name) # "allow"]
     /\ UNCHANGED <<lists, gen, publishing, verdicts, vcount, publishes>>

LoadTerms(r) ==
  LET x == reader[r]
      loaded == x.terms \cup lists[x.pc]
  IN /\ x.pc \in TermSlots
     /\ reader' = [reader EXCEPT ![r].pc = After[x.pc], ![r].terms = loaded,
                                ![r].withheld = TermLayer(loaded, x.name) # "allow"]
     /\ UNCHANGED <<lists, gen, publishing, verdicts, vcount, publishes>>

Insert(r) ==
  /\ reader[r].pc = "insert"
  /\ LET x == reader[r]
         full == vcount >= CacheMax
         old == IF full THEN [h \in FHashes |-> NoEntry] ELSE verdicts
     IN /\ verdicts' = [old EXCEPT ![x.hash] =
             [gen |-> x.gen, name |-> x.name, withheld |-> x.withheld]]
        /\ vcount' = (IF full THEN 0 ELSE vcount) + (IF old[x.hash] = NoEntry THEN 1 ELSE 0)
  /\ reader' = [reader EXCEPT ![r] = Idle]
  /\ UNCHANGED <<lists, gen, publishing, publishes>>

Next ==
  \/ \E l \in Replaced : Store(l)
  \/ Bump \/ Clear \/ Zero
  \/ \E r \in Readers :
       \/ \E h \in FHashes, n \in Names : Ask(r, h, n)
       \/ LoadHashes(r) \/ LoadTerms(r) \/ Insert(r)

Spec == Init /\ [][Next]_vars

-----------------------------------------------------------------------------
(* "A cached verdict is valid only for the generation it was computed under": *)
(* whatever readers were under way when lists changed, an entry that would be  *)
(* served is what the lists in force say.                                      *)
CacheExact ==
  publishing # "stored" =>
    \A h \in FHashes : verdicts[h].name # "none" /\ verdicts[h].gen = gen =>
      (verdicts[h].withheld <=> Check(lists, h, verdicts[h].name) # "allow")

(* Asked with a name or without, a listed hash gets the same answer.           *)
ListedWithheld ==
  \A h \in FHashes, n \in Names : HashIsListed(lists, h) => Check(lists, h, n) # "allow"

(* A verdict is that of the lists in force, and a listed hash is withheld. *)
FilterExact == TypeOK /\ CacheExact /\ ListedWithheld
=============================================================================
