----------------------------- MODULE PostingStore -----------------------------
(***************************************************************************)
(* The bytes behind the keyword index: posting lists as blobs of variable- *)
(* length gaps, a shard of blobs back to back in one arena that is rebuilt *)
(* whole, the sorted lists of what was added and removed since, and the    *)
(* lookups that stream over all three without decoding a blob.             *)
(*                                                                         *)
(* KeywordIndex has the tiers as sets and every interleaving of their      *)
(* locks; here a file enters or leaves all its postings in one step and a  *)
(* compaction takes two, and the representation is the source's.  A digit  *)
(* has DigitBits bits for 7 and a word WordBits for 32: a full digit is    *)
(* followed by a continued one, and the last one a word may have is        *)
(* shorter, as there.                                                      *)
(***************************************************************************)
EXTENDS Naturals, Sequences, SequencesExt, FiniteSets, FiniteSetsExt

CONSTANTS
  Tokens,      \* token hashes of one shard
  FileIds,
  TokensOf,    \* TokensOf[f]: the tokens of f's name
  Lookups,     \* what searches ask for: groups of tokens
  DigitBits, WordBits,
  MaxEdits

VARIABLES
  shard,       \* keys, ends and arena
  keyCount,    \* ColdStore.keys
  hot, pend,   \* the ids added and removed since, ascending
  updates,     \* the compaction's batch, and the snapshots it is made of
  indexed,     \* the files added and not removed
  edits        \* how many adds and removals so far

vars == <<shard, keyCount, hot, pend, updates, indexed, edits>>

None == <<>>
Base == 2 ^ DigitBits
WordMax == 2 ^ WordBits - 1
FullDigits == WordBits \div DigitBits          \* digits all of whose bits fit

TypeOK ==
  /\ Range(shard.keys) \subseteq Tokens /\ Len(shard.keys) = Len(shard.ends)
  /\ \A t \in Tokens : Range(hot[t]) \cup Range(pend[t]) \subseteq FileIds
  /\ keyCount \in 0..Cardinality(Tokens) /\ indexed \subseteq FileIds /\ edits \in 0..MaxEdits

Init ==
  /\ shard = [keys |-> <<>>, ends |-> <<>>, arena |-> <<>>] /\ keyCount = 0
  /\ hot = [t \in Tokens |-> <<>>] /\ pend = [t \in Tokens |-> <<>>]
  /\ updates = <<>> /\ indexed = {} /\ edits = 0

-----------------------------------------------------------------------------
(* The codec.  A reader is [ok, val, pos]: pos is the next byte to read.    *)
WriteVarint(v) ==
  LET n == Min({k \in 1..(FullDigits + 1) : v < Base ^ k})
  IN [i \in 1..n |-> ((v \div Base ^ (i - 1)) % Base) + IF i < n THEN Base ELSE 0]

NoVarint(pos) == [ok |-> FALSE, val |-> 0, pos |-> pos]
VarintTo(data, pos, end) ==
  LET digits == end - pos + 1
      fits == digits <= FullDigits
              \/ (digits = FullDigits + 1 /\ data[end] < 2 ^ (WordBits - FullDigits * DigitBits))
  IN IF ~fits THEN NoVarint(pos)
     ELSE [ok |-> TRUE, pos |-> end + 1,
           val |-> FoldLeft(+, 0, [i \in 1..digits |-> (data[pos + i - 1] % Base) * Base ^ (i - 1)])]
ReadVarint(data, pos) ==
  LET last == {i \in pos..Len(data) : data[i] < Base}
  IN IF last = {} THEN NoVarint(pos) ELSE VarintTo(data, pos, Min(last))

Wrap(n) == n % (WordMax + 1)

Encode(ids) ==
  WriteVarint(Len(ids)) \o
  FlattenSeq([i \in 1..Len(ids) |->
                WriteVarint(Wrap(ids[i] + WordMax + 1 - IF i = 1 THEN 0 ELSE ids[i - 1]))])

(* Refused stands for no list: no word is that large. *)
Refused == <<WordMax + 1>>
Decode(data) ==
  LET head == ReadVarint(data, 1)
      Gap(s, gap) ==
        [ok |-> gap.ok, pos |-> gap.pos, acc |-> Wrap(s.acc + gap.val),
         out |-> Append(s.out, Wrap(s.acc + gap.val))]
      Posting(s, i) == IF ~s.ok THEN s ELSE Gap(s, ReadVarint(data, s.pos))
      all == FoldLeft(Posting, [ok |-> TRUE, pos |-> head.pos, acc |-> 0, out |-> <<>>],
                      [i \in 1..head.val |-> i])
  IN IF head.ok /\ all.ok /\ all.pos = Len(data) + 1 THEN all.out ELSE Refused

DecodedLen(data) == LET head == ReadVarint(data, 1) IN IF head.ok THEN head.val ELSE 0

(* PostingCursor: the current posting is the only element of cur. *)
BumpBy(c, gap) ==
  LET acc == Wrap(c.acc + gap.val)
  IN IF c.left = 0 \/ ~gap.ok THEN [c EXCEPT !.left = 0, !.cur = None]
     ELSE [c EXCEPT !.pos = gap.pos, !.left = @ - 1, !.acc = acc, !.cur = <<acc>>]
Bump(c) == BumpBy(c, ReadVarint(c.data, c.pos))

Cursor(data) ==
  Bump([data |-> data, pos |-> ReadVarint(data, 1).pos, left |-> DecodedLen(data), acc |-> 0, cur |-> None])

(* contains: the cursor moved up to the target; it never goes back. *)
MoveTo(c, target) ==
  FoldLeft(LAMBDA d, i : IF d.cur # None /\ d.cur[1] < target THEN Bump(d) ELSE d,
           c, [i \in 1..(c.left + 1) |-> i])

-----------------------------------------------------------------------------
(* The shard. *)
At(t) == {i \in DOMAIN shard.keys : shard.keys[i] = t}
InCold(t) == At(t) # {}
Blob(s, i) == SubSeq(s.arena, IF i = 1 THEN 1 ELSE s.ends[i - 1] + 1, s.ends[i])
Get(t) == IF InCold(t) THEN Blob(shard, Min(At(t))) ELSE None

Push(s, k, blob) ==
  [keys |-> Append(s.keys, k), ends |-> Append(s.ends, Len(s.arena) + Len(blob)), arena |-> s.arena \o blob]

(* A walk that leaves the replaced blob in place, to show that the         *)
(* properties notice.                                                       *)
RebuildStepKeeping(s, n) ==
  LET old == s.i <= Len(shard.keys)
      upd == s.j <= Len(updates)
      u == updates[s.j]
      existed == old /\ shard.keys[s.i] = u.token
  IN CASE ~old /\ ~upd -> s
       [] old /\ (~upd \/ shard.keys[s.i] < u.token) ->
            [s EXCEPT !.new = Push(@, shard.keys[s.i], Blob(shard, s.i)), !.i = @ + 1]
       [] OTHER ->
            [new |-> IF u.blob = None THEN s.new ELSE Push(s.new, u.token, u.blob),
             i |-> s.i, j |-> s.j + 1,
             added |-> s.added + IF ~existed /\ u.blob # None THEN 1 ELSE 0,
             removed |-> s.removed + IF existed /\ u.blob = None THEN 1 ELSE 0]

(* One turn of rebuild's walk over the old keys and the batch. *)
RebuildStep(s, n) ==
  LET old == s.i <= Len(shard.keys)
      upd == s.j <= Len(updates)
      u == updates[s.j]
      existed == old /\ shard.keys[s.i] = u.token
  IN CASE ~old /\ ~upd -> s
       [] old /\ (~upd \/ shard.keys[s.i] < u.token) ->
            [s EXCEPT !.new = Push(@, shard.keys[s.i], Blob(shard, s.i)), !.i = @ + 1]
       [] OTHER ->
            [new |-> IF u.blob = None THEN s.new ELSE Push(s.new, u.token, u.blob),
             i |-> IF existed THEN s.i + 1 ELSE s.i, j |-> s.j + 1,
             added |-> s.added + IF ~existed /\ u.blob # None THEN 1 ELSE 0,
             removed |-> s.removed + IF existed /\ u.blob = None THEN 1 ELSE 0]

Rebuild ==
  FoldLeft(RebuildStep, [new |-> [keys |-> <<>>, ends |-> <<>>, arena |-> <<>>],
                         i |-> 1, j |-> 1, added |-> 0, removed |-> 0],
           [n \in 1..(Len(shard.keys) + Len(updates)) |-> n])

-----------------------------------------------------------------------------
(* Ascending lists without repetition. *)
Insert(s, x) ==
  IF Contains(s, x) THEN s
  ELSE SelectSeq(s, LAMBDA y : y < x) \o <<x>> \o SelectSeq(s, LAMBDA y : y > x)
Without(s, t) == SelectSeq(s, LAMBDA y : ~Contains(t, y))

(* merge_tiers: cold and hot side by side, and the removals along cold. *)
MergeTiers(cold, hv, pv) ==
  LET From(k, id) == Min({n \in k..Len(pv) : pv[n] >= id} \cup {Len(pv) + 1})
      Deleted(k, id) == From(k, id) <= Len(pv) /\ pv[From(k, id)] = id
      Turn(s, n) ==
        LET c == s.i <= Len(cold)
            h == s.j <= Len(hv)
        IN CASE ~c /\ ~h -> s
             [] c /\ (~h \/ cold[s.i] < hv[s.j]) ->
                  [s EXCEPT !.i = @ + 1, !.k = From(@, cold[s.i]),
                            !.out = IF Deleted(s.k, cold[s.i]) THEN @ ELSE Append(@, cold[s.i])]
             [] c /\ h /\ cold[s.i] = hv[s.j] ->
                  [s EXCEPT !.i = @ + 1, !.j = @ + 1, !.out = Append(@, cold[s.i])]
             [] OTHER -> [s EXCEPT !.j = @ + 1, !.out = Append(@, hv[s.j])]
  IN FoldLeft(Turn, [i |-> 1, j |-> 1, k |-> 1, out |-> <<>>], [n \in 1..(Len(cold) + Len(hv)) |-> n]).out

AddFile(f) ==
  /\ edits < MaxEdits /\ edits' = edits + 1
  /\ hot' = [t \in Tokens |-> IF t \in TokensOf[f] THEN Insert(hot[t], f) ELSE hot[t]]
  /\ pend' = [t \in Tokens |-> IF t \in TokensOf[f] THEN Without(pend[t], <<f>>) ELSE pend[t]]
  /\ indexed' = indexed \cup {f}
  /\ UNCHANGED <<shard, keyCount, updates>>

RemoveFile(f) ==
  /\ edits < MaxEdits /\ edits' = edits + 1
  /\ hot' = [t \in Tokens |-> IF t \in TokensOf[f] THEN Without(hot[t], <<f>>) ELSE hot[t]]
  /\ pend' = [t \in Tokens |-> IF t \in TokensOf[f] /\ InCold(t) THEN Insert(pend[t], f) ELSE pend[t]]
  /\ indexed' = indexed \ {f}
  /\ UNCHANGED <<shard, keyCount, updates>>

(* compact_shard: what changed is merged with what each blob holds ... *)
CompactShard ==
  LET due == SetToSortSeq({t \in Tokens : hot[t] # <<>> \/ pend[t] # <<>>}, <)
      ColdIds(t) == IF InCold(t) /\ Decode(Get(t)) # Refused THEN Decode(Get(t)) ELSE <<>>
      Merged(t) == MergeTiers(ColdIds(t), hot[t], pend[t])
  IN /\ updates = <<>> /\ due # <<>>
     /\ updates' = [n \in DOMAIN due |->
                      [token |-> due[n], hv |-> hot[due[n]], pv |-> pend[due[n]],
                       blob |-> IF Merged(due[n]) = <<>> THEN None ELSE Encode(Merged(due[n]))]]
     /\ UNCHANGED <<shard, keyCount, hot, pend, indexed, edits>>

(* ... and the new shard put in place, the snapshots taken out of the lists: *)
(* what left hot meanwhile is in the new blob and is marked as removed.      *)
Install ==
  LET Gone(u) == Without(u.hv, hot[u.token])
      Trimmed(u) == Without(pend[u.token], u.pv)
      Of(t) == {n \in DOMAIN updates : updates[n].token = t}
      Then(t, f, Op(_)) == IF Of(t) = {} THEN f[t] ELSE Op(updates[Min(Of(t))])
  IN /\ updates # <<>>
     /\ shard' = Rebuild.new
     /\ keyCount' = keyCount + Rebuild.added - Rebuild.removed
     /\ hot' = [t \in Tokens |-> Then(t, hot, LAMBDA u : Without(hot[t], u.hv))]
     /\ pend' = [t \in Tokens |-> Then(t, pend, LAMBDA u : FoldLeft(Insert, Trimmed(u), Gone(u)))]
     /\ updates' = <<>>
     /\ UNCHANGED <<indexed, edits>>

Next ==
  \/ \E f \in FileIds : AddFile(f) \/ RemoveFile(f)
  \/ CompactShard
  \/ Install

Spec == Init /\ [][Next]_vars

-----------------------------------------------------------------------------
(* The lookups. *)
ContainsToken(t) == hot[t] # <<>> \/ InCold(t)

ApproxLen(t) ==
  LET n == (IF InCold(t) THEN DecodedLen(Get(t)) ELSE 0) + Len(hot[t])
  IN IF n > Len(pend[t]) THEN n - Len(pend[t]) ELSE 0

(* merge_tiers_locked, up to cap ids.  No blob is an exhausted cursor. *)
ColdCursor(t) == Cursor(IF InCold(t) THEN Get(t) ELSE Encode(<<>>))
MergeFrom(start, t, cap) ==
  LET Turn(s, n) ==
        LET c == s.cur.cur # None
            h == s.j <= Len(hot[t])
            a == s.cur.cur[1]
            b == hot[t][s.j]
        IN CASE Len(s.out) >= cap \/ (~c /\ ~h) -> s
             [] h /\ (~c \/ b < a) -> [s EXCEPT !.j = @ + 1, !.out = Append(@, b)]
             [] c /\ h /\ a = b -> [cur |-> Bump(s.cur), j |-> s.j + 1, out |-> Append(s.out, a)]
             [] OTHER -> [s EXCEPT !.cur = Bump(@), !.out = IF Contains(pend[t], a) THEN @ ELSE Append(@, a)]
  IN FoldLeft(Turn, [cur |-> start, j |-> 1, out |-> <<>>],
              [n \in 1..(start.left + 1 + Len(hot[t])) |-> n]).out

MergeTiersLocked(t, cap) == MergeFrom(ColdCursor(t), t, cap)

Everything == Cardinality(FileIds) + 1     \* usize::MAX
Materialize(t) == MergeTiersLocked(t, Everything)

(* The ids of result that are also under t, the cursor moving along. *)
Retain(result, t) ==
  LET Test(s, id) ==
        LET c == MoveTo(s.cur, id)
            inCold == c.cur = <<id>> /\ ~Contains(pend[t], id)
        IN [cur |-> c, out |-> IF inCold \/ Contains(hot[t], id) THEN Append(s.out, id) ELSE s.out]
  IN FoldLeft(Test, [cur |-> ColdCursor(t), out |-> <<>>], result).out

(* The seed is the first of the rarest tokens, one with nothing left last. *)
Rarity(t) == IF ApproxLen(t) = 0 THEN WordMax + 1 ELSE ApproxLen(t)
FindIntersection(tokens) ==
  LET seed == Min({i \in DOMAIN tokens : \A j \in DOMAIN tokens : Rarity(tokens[i]) <= Rarity(tokens[j])})
      others == [i \in 1..(Len(tokens) - 1) |-> tokens[IF i < seed THEN i ELSE i + 1]]
  IN IF tokens = <<>> THEN <<>> ELSE FoldLeft(Retain, Materialize(tokens[seed]), others)

UnionOf(tokens) == SetToSortSeq(UNION {Range(Materialize(tokens[i])) : i \in DOMAIN tokens}, <)

FindGrouped(groups) ==
  LET singles == SelectSeq(groups, LAMBDA g : Len(g) = 1)
      multis == SelectSeq(groups, LAMBDA g : Len(g) > 1)
      seed == IF singles = <<>> THEN UnionOf(Head(multis)) ELSE FindIntersection([i \in DOMAIN singles |-> singles[i][1]])
      rest == IF singles = <<>> THEN Tail(multis) ELSE multis
  IN IF groups = <<>> THEN <<>>
     ELSE FoldLeft(LAMBDA r, g : SelectSeq(r, LAMBDA id : Contains(UnionOf(g), id)), seed, rest)

FindGroupedCapped(groups, cap) ==
  IF Len(groups) = 1 /\ Len(groups[1]) = 1 THEN MergeTiersLocked(groups[1][1], cap) ELSE FindGrouped(groups)

-----------------------------------------------------------------------------
(* Every blob of the shard reads back as an ascending list of ids, a blob  *)
(* cut short or followed by a byte is refused ("any corruption is detected *)
(* rather than silently returning a partial/wrong list"), and the key      *)
(* count is the number of keys.                                            *)
BlobsWhole ==
  /\ keyCount = Len(shard.keys)
  /\ \A i \in DOMAIN shard.keys :
       LET blob == Blob(shard, i)
           ids == Decode(blob)
       IN /\ ids # Refused /\ ids # <<>> /\ DecodedLen(blob) = Len(ids)
          /\ ids = SetToSortSeq(Range(ids) \cap FileIds, <)
          /\ \A n \in 0..(Len(blob) - 1) : Decode(SubSeq(blob, 1, n)) = Refused
          /\ \A b \in 0..(2 * Base - 1) : Decode(Append(blob, b)) = Refused
          /\ i > 1 => shard.keys[i - 1] < shard.keys[i]

(* A lookup of groups of words, streamed over blobs and lists in whatever  *)
(* state adds, removals and a compaction left them, is the files now       *)
(* indexed with a word of each group, once each and in order; the capped   *)
(* lookup is its beginning; and no word of an indexed file is unknown.     *)
Meant(groups) ==
  SetToSortSeq({f \in indexed : \A i \in DOMAIN groups : Range(groups[i]) \cap TokensOf[f] # {}}, <)
LookupsAsMeant ==
  /\ \A gs \in Lookups : FindGrouped(gs) = Meant(gs)
  /\ \A t \in Tokens, cap \in 1..2 :
       LET all == Meant(<<<<t>>>>) IN FindGroupedCapped(<<<<t>>>>, cap) = SubSeq(all, 1, Min({cap, Len(all)}))
  /\ \A f \in indexed : \A t \in TokensOf[f] : ContainsToken(t)

(* The store holds what it was given, and finds it. *)
PostingsExact == TypeOK /\ BlobsWhole /\ LookupsAsMeant
=============================================================================
