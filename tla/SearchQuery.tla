----------------------------- MODULE SearchQuery ------------------------------
(***************************************************************************)
(* A search: the expression tree a client sends, the words dropped from it *)
(* because no file has them, the groups of tokens the index is asked for,  *)
(* the predicate applied to each candidate, and the best of what matches,  *)
(* over TCP and over UDP.                                                  *)
(*                                                                         *)
(* A term is a set of words; a word in Starred carries a "*" and matches   *)
(* any word with its core in it; a word in Stop is skipped by the          *)
(* tokenizer.  The catalogue is the files in id order.                     *)
(***************************************************************************)
EXTENDS Naturals, Sequences, SequencesExt, FiniteSets

CONSTANTS
  QueryTrees,   \* what clients send
  Catalogues,   \* what is indexed
  Starred, Stop,
  Holds,        \* Holds[w]: the words a starred word's core is in
  MaxResults,   \* limits.max_search_results
  UdpResults,   \* UDP_MAX_SEARCH_RESULTS
  RankScan,     \* limits.search_rank_scan
  UnindexedScan \* MAX_UNINDEXED_SCAN

VARIABLES
  tree,         \* the query as sent
  files,        \* file_slab: in id order
  stage,        \* how far the search is
  asked,        \* the tree after drop_unknown_words
  groups,       \* candidate_groups
  found         \* the answers: TCP and UDP, as sequences of ids

vars == <<tree, files, stage, asked, groups, found>>

Gone == [op |-> "gone"]
Wild == "*"     \* lists everything

TypeOK ==
  /\ tree.op \in {"term", "type", "unjudged", "and", "or", "not"}
  /\ asked # Gone <=> stage # "sent"
  /\ stage \in {"sent", "rewritten", "grouped", "answered"}
  /\ Range(found.tcp) \cup Range(found.udp) \subseteq DOMAIN files

Init ==
  /\ tree \in QueryTrees /\ files \in Catalogues /\ stage = "sent" /\ asked = Gone
  /\ groups = <<>> /\ found = [tcp |-> <<>>, udp |-> <<>>]

-----------------------------------------------------------------------------
(* eval_node: "none" is a constraint the server cannot judge. *)
WordMatches(w, f) == w = Wild \/ (IF w \in Starred THEN Holds[w] \cap f.words # {} ELSE w \in f.words)
TypeMatches(f) == f.video
Truth(b) == IF b THEN "yes" ELSE "no"

RECURSIVE EvalNode(_, _)
EvalNode(t, f) ==
  CASE t.op = "term" -> Truth(\A w \in t.words : WordMatches(w, f))
    [] t.op = "type" -> Truth(TypeMatches(f))
    [] t.op = "unjudged" -> "none"
    [] OTHER ->
         LET l == EvalNode(t.l, f)
             r == EvalNode(t.r, f)
         IN CASE t.op \in {"and", "not"} /\ l = "no" -> "no"
              [] t.op = "or" /\ l = "yes" -> "yes"
              [] l = "none" /\ r = "none" -> "none"
              [] t.op = "not" /\ r = "none" -> l
              [] t.op = "not" -> Truth(r = "no")
              [] r = "none" -> l
              [] OTHER -> r

Evaluate(t, f) == EvalNode(t, f) # "no"

(* tokenize, tokenize_search_term: a term with no indexable word is looked *)
(* up whole.                                                               *)
Core(w) == IF w \in Starred THEN CHOOSE c \in Holds[w] : TRUE ELSE w
Tokenize(words) == {Core(w) : w \in words \ (Stop \cup {Wild})}
TokenizeSearchTerm(words) == IF Tokenize(words) = {} THEN words \ {Wild} ELSE Tokenize(words)
IndexHas(tok) == \E i \in DOMAIN files : tok \in files[i].words \ Stop

-----------------------------------------------------------------------------
(* drop_unknown_words. *)
WordIsUnknown(w) ==
  w \notin Starred /\ w \notin Stop /\ w # Wild /\ ~IndexHas(w)

RewriteTerm(t) ==
  IF Tokenize(t.words) = {}
  THEN IF Wild \in t.words \/ t.words = {} THEN t ELSE Gone
  ELSE LET kept == {w \in t.words : ~WordIsUnknown(w)}
       IN IF kept = {} THEN Gone ELSE [t EXCEPT !.words = kept]

RECURSIVE RewriteBothSides(_)
(* Mutant: the negated side is rewritten too. *)
RewriteBothSides(t) ==
  CASE t.op = "term" -> RewriteTerm(t)
    [] t.op \in {"and", "not"} ->
         LET l == RewriteBothSides(t.l)
             r == RewriteBothSides(t.r)
         IN IF l = Gone THEN r ELSE IF r = Gone THEN l ELSE [t EXCEPT !.l = l, !.r = r]
    [] OTHER -> t

RECURSIVE RewriteConjunction(_)
RewriteConjunction(t) ==
  CASE t.op = "term" -> RewriteTerm(t)
    [] t.op = "and" ->
         LET l == RewriteConjunction(t.l)
             r == RewriteConjunction(t.r)
         IN IF l = Gone THEN r ELSE IF r = Gone THEN l ELSE [t EXCEPT !.l = l, !.r = r]
    [] t.op = "not" ->
         LET l == RewriteConjunction(t.l) IN IF l = Gone THEN t ELSE [t EXCEPT !.l = l]
    [] OTHER -> t

DropUnknownWords(t) ==
  LET r == RewriteConjunction(t) IN IF r = Gone THEN t ELSE r

-----------------------------------------------------------------------------
(* walk_terms and walk_groups: a group is a disjunction of terms. *)
RECURSIVE WalkTerms(_, _)
WalkTerms(t, neg) ==
  CASE t.op = "term" -> IF neg THEN <<>> ELSE <<t.words>>
    [] t.op \in {"and", "or"} -> WalkTerms(t.l, neg) \o WalkTerms(t.r, neg)
    [] t.op = "not" -> WalkTerms(t.l, neg) \o WalkTerms(t.r, ~neg)
    [] OTHER -> <<>>

(* Mutant: every branch of an OR is a group of its own. *)
OrAsAnd(l, r) ==
  LET flat == WalkTerms(l, FALSE) \o WalkTerms(r, FALSE)
  IN [i \in DOMAIN flat |-> <<flat[i]>>]

OrGroup(l, r) ==
  LET flat == WalkTerms(l, FALSE) \o WalkTerms(r, FALSE)
  IN IF flat = <<>> THEN <<>> ELSE <<flat>>

RECURSIVE WalkGroups(_, _)
WalkGroups(t, neg) ==
  CASE t.op = "term" -> IF neg THEN <<>> ELSE <<<<t.words>>>>
    [] t.op = "and" -> WalkGroups(t.l, neg) \o WalkGroups(t.r, neg)
    [] t.op = "or" -> IF neg THEN <<>> ELSE OrGroup(t.l, t.r)
    [] t.op = "not" -> WalkGroups(t.l, neg) \o WalkGroups(t.r, ~neg)
    [] OTHER -> <<>>

(* candidate_groups: starred words are taken out of every term; a group of *)
(* one term asks for each of its tokens, a larger one for any.             *)
WithoutStarred(words) == {w \in words : w \notin Starred /\ w # Wild}
GroupTokens(g) ==
  LET left == SelectSeq([i \in DOMAIN g |-> WithoutStarred(g[i])], LAMBDA ws : ws # {})
  IN IF left = <<>> THEN {}
     ELSE IF Len(left) > 1
     THEN {UNION {TokenizeSearchTerm(left[i]) : i \in DOMAIN left}}
     ELSE {{tok} : tok \in TokenizeSearchTerm(left[1])}

CandidateGroups(t) ==
  LET gs == WalkGroups(t, FALSE) IN UNION {GroupTokens(gs[i]) : i \in DOMAIN gs}

(* find_grouped: no group, no candidate. *)
FindGrouped(gs) ==
  IF gs = {} THEN {}
  ELSE {i \in DOMAIN files : \A g \in gs : \E tok \in g : tok \in files[i].words \ Stop}

HasKeyword(t) ==
  \E i \in DOMAIN WalkTerms(t, FALSE) : TokenizeSearchTerm(WalkTerms(t, FALSE)[i]) # {}

Ids(S) == SelectSeq([i \in DOMAIN files |-> i], LAMBDA i : i \in S)

-----------------------------------------------------------------------------
(* rank_key: sources, then the tie key, then the lower id. *)
Better(i, j) ==
  \/ files[i].sources > files[j].sources
  \/ files[i].sources = files[j].sources /\ files[i].tie > files[j].tie
  \/ files[i].sources = files[j].sources /\ files[i].tie = files[j].tie /\ i < j

Worst(heap) == CHOOSE i \in heap : \A j \in heap : i = j \/ Better(j, i)
Sorted(heap) ==
  [n \in 1 .. Cardinality(heap) |-> CHOOSE i \in heap : Cardinality({j \in heap : Better(j, i)}) = n - 1]

(* Mutant: Ord is not inverted, so the best is evicted. *)
EvictsBest(heap, i, max) ==
  LET all == heap \cup {i}
  IN IF Cardinality(all) > max THEN all \ {CHOOSE j \in all : \A k \in all : j = k \/ Better(j, k)} ELSE all

(* One candidate that matched, against the heap. *)
Push(heap, i, max) ==
  IF (Cardinality(heap) >= max /\ ~Better(i, Worst(heap))) \/ files[i].withheld THEN heap
  ELSE LET all == heap \cup {i}
       IN IF Cardinality(all) > max THEN all \ {Worst(all)} ELSE all

Matches(t, i) == files[i].sources > 0 /\ Evaluate(t, files[i])

RECURSIVE Rank(_, _, _, _)
Rank(t, ids, heap, max) ==
  IF ids = <<>> THEN heap
  ELSE Rank(t, Tail(ids), IF Matches(t, Head(ids)) THEN Push(heap, Head(ids), max) ELSE heap, max)

Prefix(s, n) == SubSeq(s, 1, IF Len(s) < n THEN Len(s) ELSE n)
LargerOf(a, b) == IF a > b THEN a ELSE b

(* What is examined: candidates of live records on TCP, any on UDP. *)
TcpExamined ==
  LET live == {i \in DOMAIN files : files[i].live}
      all == IF HasKeyword(asked) THEN Ids(FindGrouped(groups) \cap live)
             ELSE Prefix(Ids(live), UnindexedScan)
  IN Prefix(all, LargerOf(RankScan, MaxResults))

UdpExamined ==
  IF ~HasKeyword(asked) THEN <<>>
  ELSE SelectSeq(Prefix(Ids(FindGrouped(groups)), LargerOf(RankScan, UdpResults)),
                 LAMBDA i : files[i].live)

(* Mutant: the first that match, in id order. *)
UdpFirst(ids) == Prefix(SelectSeq(ids, LAMBDA i : Matches(asked, i)), UdpResults)

UdpRanked(ids) == Sorted(Rank(asked, ids, {}, UdpResults))

-----------------------------------------------------------------------------
Rewrite ==
  /\ stage = "sent" /\ stage' = "rewritten" /\ asked' = DropUnknownWords(tree)
  /\ UNCHANGED <<tree, files, groups, found>>

Group ==
  /\ stage = "rewritten" /\ stage' = "grouped" /\ groups' = CandidateGroups(asked)
  /\ UNCHANGED <<tree, files, asked, found>>

Answer ==
  /\ stage = "grouped" /\ stage' = "answered"
  /\ found' = [tcp |-> Sorted(Rank(asked, TcpExamined, {}, MaxResults)), udp |-> UdpRanked(UdpExamined)]
  /\ UNCHANGED <<tree, files, asked, groups>>

Next == Rewrite \/ Group \/ Answer

-----------------------------------------------------------------------------
RECURSIVE Flat(_)
Flat(t) == t.op \notin {"and", "or", "not"} \/ (t.op = "and" /\ Flat(t.l) /\ Flat(t.r))

RECURSIVE PlainOr(_)
PlainOr(t) ==
  \/ t.op = "term" /\ t.words \cap (Starred \cup {Wild}) = {} /\ ~(t.words \subseteq Stop)
  \/ t.op = "or" /\ PlainOr(t.l) /\ PlainOr(t.r)

(* The queries clients send: a conjunction of terms, constraints and ORs of *)
(* plain words, with words excluded.                                        *)
RECURSIVE AsClientsSend(_)
AsClientsSend(t) ==
  \/ t.op \in {"type", "unjudged"} \/ PlainOr(t)
  \/ t.op = "term" /\ Tokenize(t.words) # {}
  \/ t.op = "and" /\ AsClientsSend(t.l) /\ AsClientsSend(t.r)
  \/ t.op = "not" /\ AsClientsSend(t.l) /\ Flat(t.r)

Matching(t) == {i \in DOMAIN files : files[i].live /\ Matches(t, i)}

(* "evaluate still applies the real condition, so a superset is safe and a *)
(* subset is not": for the queries clients send, every file that matches   *)
(* is a candidate.                                                         *)
ClientQueriesComplete ==
  stage = "grouped" /\ AsClientsSend(asked) /\ groups # {} => Matching(asked) \subseteq FindGrouped(groups)

(* Dropping words no file has only adds to what matches.                   *)
DroppingWidens ==
  stage = "rewritten" => Matching(tree) \subseteq Matching(asked)

(* Whatever order the candidates came in and wherever the withheld ones    *)
(* were, the answer is the best of what was examined, best first.          *)
BestServed ==
  stage = "answered" =>
    found.tcp = Prefix(Sorted({i \in Range(TcpExamined) : Matches(asked, i) /\ ~files[i].withheld}), MaxResults)

(* "The two channels must also agree": what UDP answers is how the TCP      *)
(* answer begins.                                                           *)
ChannelsAgree ==
  stage = "answered" /\ HasKeyword(asked) /\ Cardinality(FindGrouped(groups)) <= RankScan =>
    found.udp = Prefix(found.tcp, UdpResults)

RECURSIVE Indexable(_)
Indexable(t) ==
  CASE t.op = "term" -> Tokenize(t.words) # {}
    [] t.op \in {"and", "or", "not"} -> Indexable(t.l) /\ Indexable(t.r)
    [] OTHER -> TRUE

(* "a superset is safe and a subset is not. That asymmetry is the rule for  *)
(* everything here": whatever the query of indexable words, every file that *)
(* matches is a candidate.                                                  *)
CandidatesSuperset ==
  stage = "grouped" /\ groups # {} /\ Indexable(asked) => Matching(asked) \subseteq FindGrouped(groups)

(* "NEVER drop every word": a query with words still has one after those no *)
(* file has are dropped.                                                    *)
KeepsAWord ==
  stage = "rewritten" /\ HasKeyword(tree) => HasKeyword(asked)

(* From the query as it is sent to the two channels' answers: no rewriting *)
(* or candidate walk loses a match of a client's query, and what is        *)
(* answered is the best of it, on both channels.                           *)
QueriesAnswered ==
  TypeOK /\ ClientQueriesComplete /\ DroppingWidens /\ BestServed /\ ChannelsAgree
=============================================================================
