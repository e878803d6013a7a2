----------------------------- MODULE FileIndex ------------------------------
(***************************************************************************)
(* The file index: the slab of file records (state/file_id.rs), the        *)
(* keyword postings, and the reverse index user_files (state/mod.rs), under *)
(* concurrent publishes, departures, the orphan sweep and the operator's   *)
(* purge.                                                                  *)
(*                                                                         *)
(* Publishes run on the blocking pool, departures on the runtime, the      *)
(* sweep and the purge on the blocking pool: they interleave at every      *)
(* lock, and each action below is one critical section.  The calls of one  *)
(* user follow each other (a session awaits its own batch).  One slab      *)
(* shard is modelled; a keyword posting is a set that add_file and         *)
(* remove_file change atomically, which is what KeywordIndex is shown to   *)
(* implement, and a file's name has one token per hash.                    *)
(***************************************************************************)
EXTENDS Naturals

CONSTANTS
  Users, Hashes, Sizes,
  Ids,              \* slots the slab may grow to
  Janitors,         \* which of "sweep" and "purge" run
  SlowCheck,        \* may an index check outlast the quarantine?
  NoHash, NoSize, NoId

VARIABLES
  hash, size, srcs,   \* the records; a dead slot has hash NoHash
  fresh, quar, aged,  \* slots never used, freed lately, and free to reuse
  kw,                 \* postings: <<id, hash>> when id is indexed under the
                      \* name of that file
  userFiles,          \* user -> ids
  upc, uid, uhash, usize, mid, todo,      \* each user's call in progress
  jpc, jid, jhash, list, evicted, visit,  \* each janitor's; list and evicted
                      \* have the hash the id had, which the code does not
  shares              \* history: user -> hashes it is a source of

slab == <<hash, size, srcs, fresh, quar, aged>>
call == <<upc, uid, uhash, usize, mid, todo>>
janitor == <<jpc, jid, jhash, list, evicted, visit>>
vars == <<slab, kw, userFiles, call, janitor, shares>>

UserPcs ==
  {"idle", "merge", "refresh", "keyword", "reverse", "leave", "evict", "unindex"}
JanitorPcs == {"idle", "evict", "unindex", "users"}

TypeOK ==
  /\ hash \in [Ids -> Hashes \cup {NoHash}]
  /\ size \in [Ids -> Sizes \cup {NoSize}]
  /\ srcs \in [Ids -> SUBSET Users]
  /\ fresh \subseteq Ids /\ quar \subseteq Ids /\ aged \subseteq Ids
  /\ \A i \in Ids : hash[i] = NoHash <=> i \in fresh \cup quar \cup aged
  /\ kw \subseteq Ids \X Hashes
  /\ userFiles \in [Users -> SUBSET Ids]
  /\ upc \in [Users -> UserPcs]
  /\ uid \in [Users -> Ids \cup {NoId}]
  /\ uhash \in [Users -> Hashes \cup {NoHash}]
  /\ usize \in [Users -> Sizes \cup {NoSize}]
  /\ mid \in [Users -> Ids \cup {NoId}]
  /\ todo \in [Users -> SUBSET Ids]
  /\ jpc \in [Janitors -> JanitorPcs]
  /\ jid \in [Janitors -> Ids \cup {NoId}]
  /\ jhash \in [Janitors -> Hashes \cup {NoHash}]
  /\ list \in [Janitors -> SUBSET (Ids \X Hashes)]
  /\ evicted \in [Janitors -> SUBSET (Ids \X Hashes)]
  /\ visit \in [Janitors -> SUBSET Users]
  /\ shares \in [Users -> SUBSET Hashes]

Init ==
  /\ hash = [i \in Ids |-> NoHash]
  /\ size = [i \in Ids |-> NoSize]
  /\ srcs = [i \in Ids |-> {}]
  /\ fresh = Ids /\ quar = {} /\ aged = {}
  /\ kw = {}
  /\ userFiles = [u \in Users |-> {}]
  /\ upc = [u \in Users |-> "idle"]
  /\ uid = [u \in Users |-> NoId]
  /\ uhash = [u \in Users |-> NoHash]
  /\ usize = [u \in Users |-> NoSize]
  /\ mid = [u \in Users |-> NoId]
  /\ todo = [u \in Users |-> {}]
  /\ jpc = [j \in Janitors |-> "idle"]
  /\ jid = [j \in Janitors |-> NoId]
  /\ jhash = [j \in Janitors |-> NoHash]
  /\ list = [j \in Janitors |-> {}]
  /\ evicted = [j \in Janitors |-> {}]
  /\ visit = [j \in Janitors |-> {}]
  /\ shares = [u \in Users |-> {}]

Alive(i) == hash[i] # NoHash

(* find: the live record with this hash. *)
Found(h) == {i \in Ids : hash[i] = h}

-----------------------------------------------------------------------------
(* The slab. *)

(* Mutant: the reused slot stays on the free list. *)
InsertKeepsFree(i, h, s, u) ==
  /\ i \in IF aged # {} THEN aged ELSE fresh
  /\ hash' = [hash EXCEPT ![i] = h]
  /\ size' = [size EXCEPT ![i] = s]
  /\ srcs' = [srcs EXCEPT ![i] = {u}]
  /\ fresh' = fresh \ {i}
  /\ UNCHANGED <<quar, aged>>

(* insert_record: a slot past its quarantine if there is one, else a new   *)
(* one.                                                                    *)
InsertRecord(i, h, s, u) ==
  /\ i \in IF aged # {} THEN aged ELSE fresh
  /\ hash' = [hash EXCEPT ![i] = h]
  /\ size' = [size EXCEPT ![i] = s]
  /\ srcs' = [srcs EXCEPT ![i] = {u}]
  /\ aged' = aged \ {i} /\ fresh' = fresh \ {i}
  /\ UNCHANGED quar

(* tombstone_where, once its condition holds. *)
Tombstone(i) ==
  /\ hash' = [hash EXCEPT ![i] = NoHash]
  /\ size' = [size EXCEPT ![i] = NoSize]
  /\ srcs' = [srcs EXCEPT ![i] = {}]
  /\ quar' = quar \cup {i}
  /\ UNCHANGED <<fresh, aged>>

(* Mutant: the record's sources are not looked at again. *)
Dead(i) == Alive(i)

(* tombstone_if_sourceless's condition. *)
Sourceless(i) == Alive(i) /\ srcs[i] = {}

IdsOf(pairs) == {p[1] : p \in pairs}

(* Mutant: nothing waits. *)
NotQuarantined(i) == FALSE

(* SLOT_REUSE_QUARANTINE passes.  It is far longer than a publish, a       *)
(* departure or a sweep: none that is running refers to the slot.  An      *)
(* index check walks every file before it purges, which may take longer.   *)
Quarantined(i) ==
  \/ \E u \in Users : uid[u] = i \/ mid[u] = i
  \/ \E j \in Janitors :
       /\ j = "purge" => ~SlowCheck
       /\ jid[j] = i \/ i \in IdsOf(list[j] \cup evicted[j])

QuarantineEnds(i) ==
  /\ i \in quar
  /\ ~Quarantined(i)
  /\ quar' = quar \ {i} /\ aged' = aged \cup {i}
  /\ UNCHANGED <<hash, size, srcs, fresh, kw, userFiles, call, janitor, shares>>

-----------------------------------------------------------------------------
(* add_file_with_source. *)

UserGoto(u, from, to) ==
  /\ upc[u] = from
  /\ upc' = [upc EXCEPT ![u] = to]

UserIdle(u, from) ==
  /\ UserGoto(u, from, "idle")
  /\ mid' = [mid EXCEPT ![u] = NoId]
  /\ uid' = [uid EXCEPT ![u] = NoId]
  /\ uhash' = [uhash EXCEPT ![u] = NoHash]
  /\ usize' = [usize EXCEPT ![u] = NoSize]

(* get_or_insert, the hash being new. *)
PublishNew(u, h, s, i) ==
  /\ Found(h) = {}
  /\ UserGoto(u, "idle", "keyword")
  /\ InsertRecord(i, h, s, u)
  /\ uid' = [uid EXCEPT ![u] = i]
  /\ uhash' = [uhash EXCEPT ![u] = h]
  /\ usize' = [usize EXCEPT ![u] = s]
  /\ shares' = [shares EXCEPT ![u] = @ \cup {h}]
  /\ UNCHANGED <<kw, userFiles, mid, todo, janitor>>

(* get_or_insert, the hash being known. *)
PublishKnown(u, h, s, i) ==
  /\ i \in Found(h)
  /\ UserGoto(u, "idle", "merge")
  /\ uid' = [uid EXCEPT ![u] = i]
  /\ uhash' = [uhash EXCEPT ![u] = h]
  /\ usize' = [usize EXCEPT ![u] = s]
  /\ UNCHANGED <<slab, kw, userFiles, mid, todo, janitor, shares>>

(* add_or_refresh_source_sized looks the hash up again: another record may *)
(* have it now, or none (Unknown), and then takes the record's lock.       *)
LookAgain(u, i) ==
  /\ i \in Found(uhash[u])
  /\ UserGoto(u, "merge", "refresh")
  /\ mid' = [mid EXCEPT ![u] = i]
  /\ UNCHANGED <<slab, kw, userFiles, uid, uhash, usize, todo, janitor, shares>>

MergeUnknown(u) ==
  /\ Found(uhash[u]) = {}
  /\ UserIdle(u, "merge")
  /\ UNCHANGED <<slab, kw, userFiles, todo, janitor, shares>>

(* A publisher whose size differs is merged only into a record with no     *)
(* source left.                                                            *)
Mergeable(i, s) == Alive(i) /\ (size[i] = s \/ srcs[i] = {})

MergeSource(u) ==
  LET i == mid[u] IN
  /\ UserGoto(u, "refresh", "reverse")
  /\ Mergeable(i, usize[u])
  /\ size' = [size EXCEPT ![i] = usize[u]]
  /\ srcs' = [srcs EXCEPT ![i] = @ \cup {u}]
  /\ shares' = [shares EXCEPT ![u] = @ \cup {uhash[u]}]
  /\ UNCHANGED <<hash, fresh, quar, aged, kw, userFiles,
                 uid, uhash, usize, mid, todo, janitor>>

(* SizeMismatch, or evicted since the lookup. *)
MergeRefused(u) ==
  /\ upc[u] = "refresh"
  /\ ~Mergeable(mid[u], usize[u])
  /\ UserIdle(u, "refresh")
  /\ UNCHANGED <<slab, kw, userFiles, todo, janitor, shares>>

(* Mutant: a new file is not indexed. *)
SkipKeywords(u) ==
  /\ UserGoto(u, "keyword", "reverse")
  /\ UNCHANGED <<slab, kw, userFiles, uid, uhash, usize, mid, todo, janitor, shares>>

AddKeywords(u) ==
  /\ UserGoto(u, "keyword", "reverse")
  /\ kw' = kw \cup {<<uid[u], uhash[u]>>}
  /\ UNCHANGED <<slab, userFiles, uid, uhash, usize, mid, todo, janitor, shares>>

(* user_files gets the id of get_or_insert. *)
AddReverse(u) ==
  /\ UserIdle(u, "reverse")
  /\ userFiles' = [userFiles EXCEPT ![u] = @ \cup {uid[u]}]
  /\ UNCHANGED <<slab, kw, todo, janitor, shares>>

-----------------------------------------------------------------------------
(* remove_sources_of. *)

Leave(u) ==
  /\ UserGoto(u, "idle", "leave")
  /\ todo' = [todo EXCEPT ![u] = userFiles[u]]
  /\ userFiles' = [userFiles EXCEPT ![u] = {}]
  /\ shares' = [shares EXCEPT ![u] = {}]
  /\ UNCHANGED <<slab, kw, uid, uhash, usize, mid, janitor>>

(* Mutant: a file left without a source is not evicted. *)
RemoveSourceOnly(u, i) ==
  /\ i \in todo[u]
  /\ UserGoto(u, "leave", "leave")
  /\ todo' = [todo EXCEPT ![u] = @ \ {i}]
  /\ srcs' = [srcs EXCEPT ![i] = @ \ {u}]
  /\ UNCHANGED <<hash, size, fresh, quar, aged, kw, userFiles,
                 uid, uhash, usize, mid, janitor, shares>>

(* remove_user_source. *)
RemoveSource(u, i) ==
  /\ i \in todo[u]
  /\ LET orphan == Alive(i) /\ srcs[i] \subseteq {u} IN
       /\ UserGoto(u, "leave", IF orphan THEN "evict" ELSE "leave")
       /\ uid' = [uid EXCEPT ![u] = IF orphan THEN i ELSE NoId]
  /\ todo' = [todo EXCEPT ![u] = @ \ {i}]
  /\ srcs' = [srcs EXCEPT ![i] = @ \ {u}]
  /\ UNCHANGED <<hash, size, fresh, quar, aged, kw, userFiles,
                 uhash, usize, mid, janitor, shares>>

(* Still without a source, checked again under the tombstone's own lock. *)
EvictOrphan(u) ==
  /\ upc[u] = "evict"
  /\ Sourceless(uid[u])
  /\ UserGoto(u, "evict", "unindex")
  /\ Tombstone(uid[u])
  /\ uhash' = [uhash EXCEPT ![u] = hash[uid[u]]]
  /\ UNCHANGED <<kw, userFiles, uid, usize, mid, todo, janitor, shares>>

EvictSpared(u) ==
  /\ upc[u] = "evict"
  /\ ~Sourceless(uid[u])
  /\ UserGoto(u, "evict", "leave")
  /\ uid' = [uid EXCEPT ![u] = NoId]
  /\ UNCHANGED <<slab, kw, userFiles, uhash, usize, mid, todo, janitor, shares>>

RemoveKeywords(u) ==
  /\ UserGoto(u, "unindex", "leave")
  /\ kw' = kw \ {<<uid[u], uhash[u]>>}
  /\ uid' = [uid EXCEPT ![u] = NoId]
  /\ uhash' = [uhash EXCEPT ![u] = NoHash]
  /\ UNCHANGED <<slab, userFiles, usize, mid, todo, janitor, shares>>

LeaveDone(u) ==
  /\ todo[u] = {}
  /\ UserIdle(u, "leave")
  /\ UNCHANGED <<slab, kw, userFiles, todo, janitor, shares>>

-----------------------------------------------------------------------------
(* orphan_sweep and /api/indexcheck?purge=1: list, tombstone, remove the   *)
(* keywords, and when the list is done take the ids out of user_files, one *)
(* user at a time.  The sweep takes out what it evicted, the purge all its *)
(* list.                                                                   *)

JanitorGoto(j, from, to) ==
  /\ jpc[j] = from
  /\ jpc' = [jpc EXCEPT ![j] = to]

WithHash(ids) == {<<i, hash[i]>> : i \in ids}

ScanOrphans(j) ==
  /\ j = "sweep"
  /\ JanitorGoto(j, "idle", "evict")
  /\ list' = [list EXCEPT ![j] = WithHash({i \in Ids : Sourceless(i)})]
  /\ UNCHANGED <<slab, kw, userFiles, call, jid, jhash, evicted, visit, shares>>

(* The files the content filter refuses now. *)
CheckIndex(j, ids) ==
  /\ j = "purge"
  /\ \A i \in ids : Alive(i)
  /\ JanitorGoto(j, "idle", "evict")
  /\ list' = [list EXCEPT ![j] = WithHash(ids)]
  /\ evicted' = [evicted EXCEPT ![j] = WithHash(ids)]
  /\ UNCHANGED <<slab, kw, userFiles, call, jid, jhash, visit, shares>>

MayEvict(j, i) == IF j = "sweep" THEN Sourceless(i) ELSE Alive(i)

JanitorEvict(j, p) ==
  LET i == p[1] IN
  /\ p \in list[j]
  /\ MayEvict(j, i)
  /\ JanitorGoto(j, "evict", "unindex")
  /\ Tombstone(i)
  /\ jid' = [jid EXCEPT ![j] = i]
  /\ jhash' = [jhash EXCEPT ![j] = hash[i]]
  /\ list' = [list EXCEPT ![j] = @ \ {p}]
  /\ evicted' = [evicted EXCEPT ![j] = IF j = "sweep" THEN @ \cup {p} ELSE @]
  /\ shares' = [u \in Users |-> IF u \in srcs[i] THEN shares[u] \ {hash[i]}
                                                 ELSE shares[u]]
  /\ UNCHANGED <<kw, userFiles, call, visit>>

JanitorSpares(j, p) ==
  /\ p \in list[j]
  /\ ~MayEvict(j, p[1])
  /\ JanitorGoto(j, "evict", "evict")
  /\ list' = [list EXCEPT ![j] = @ \ {p}]
  /\ UNCHANGED <<slab, kw, userFiles, call, jid, jhash, evicted, visit, shares>>

(* Mutant: the postings of an evicted file stay. *)
JanitorForgets(j) ==
  /\ JanitorGoto(j, "unindex", "evict")
  /\ jid' = [jid EXCEPT ![j] = NoId]
  /\ jhash' = [jhash EXCEPT ![j] = NoHash]
  /\ UNCHANGED <<slab, kw, userFiles, call, list, evicted, visit, shares>>

JanitorUnindex(j) ==
  /\ JanitorGoto(j, "unindex", "evict")
  /\ kw' = kw \ {<<jid[j], jhash[j]>>}
  /\ jid' = [jid EXCEPT ![j] = NoId]
  /\ jhash' = [jhash EXCEPT ![j] = NoHash]
  /\ UNCHANGED <<slab, userFiles, call, list, evicted, visit, shares>>

JanitorListDone(j) ==
  /\ list[j] = {}
  /\ JanitorGoto(j, "evict", IF evicted[j] = {} THEN "idle" ELSE "users")
  /\ visit' = [visit EXCEPT ![j] = {u \in Users : evicted[j] # {} /\ userFiles[u] # {}}]
  /\ UNCHANGED <<slab, kw, userFiles, call, jid, jhash, list, evicted, shares>>

PurgeUserFiles(j, u) ==
  /\ u \in visit[j]
  /\ JanitorGoto(j, "users", "users")
  /\ userFiles' = [userFiles EXCEPT ![u] = @ \ IdsOf(evicted[j])]
  /\ visit' = [visit EXCEPT ![j] = @ \ {u}]
  /\ UNCHANGED <<slab, kw, call, jid, jhash, list, evicted, shares>>

JanitorDone(j) ==
  /\ visit[j] = {}
  /\ JanitorGoto(j, "users", "idle")
  /\ evicted' = [evicted EXCEPT ![j] = {}]
  /\ UNCHANGED <<slab, kw, userFiles, call, jid, jhash, list, visit, shares>>

-----------------------------------------------------------------------------
Publish(u) ==
  \/ \E h \in Hashes, s \in Sizes, i \in Ids :
       PublishNew(u, h, s, i) \/ PublishKnown(u, h, s, i)
  \/ \E i \in Ids : LookAgain(u, i)
  \/ MergeUnknown(u) \/ MergeSource(u) \/ MergeRefused(u)
  \/ AddKeywords(u) \/ AddReverse(u)

Depart(u) ==
  \/ Leave(u) \/ (\E i \in Ids : RemoveSource(u, i))
  \/ EvictOrphan(u) \/ EvictSpared(u) \/ RemoveKeywords(u) \/ LeaveDone(u)

Clean(j) ==
  \/ ScanOrphans(j) \/ (\E ids \in SUBSET Ids : CheckIndex(j, ids))
  \/ \E p \in Ids \X Hashes : JanitorEvict(j, p) \/ JanitorSpares(j, p)
  \/ JanitorUnindex(j) \/ JanitorListDone(j)
  \/ (\E u \in Users : PurgeUserFiles(j, u)) \/ JanitorDone(j)

Next ==
  \/ \E u \in Users : Publish(u) \/ Depart(u)
  \/ \E j \in Janitors : Clean(j)
  \/ \E i \in Ids : QuarantineEnds(i)

Spec == Init /\ [][Next]_vars

-----------------------------------------------------------------------------
(* Correctness.                                                            *)

Indexing(i) == \E u \in Users : upc[u] = "keyword" /\ uid[u] = i

(* A file a user has published, and the operator has not purged, stays in  *)
(* the index with the user as a source, and keyword search finds it (or    *)
(* its first publisher is about to index it), whatever other sources       *)
(* leave and whatever the sweep does meanwhile.                            *)
SharedFindable ==
  \A u \in Users : \A h \in shares[u] :
    \E i \in Found(h) :
      /\ u \in srcs[i]
      /\ <<i, h>> \in kw \/ Indexing(i)

Unindexing(i, h) ==
  \/ \E u \in Users : upc[u] = "unindex" /\ uid[u] = i /\ uhash[u] = h
  \/ \E j \in Janitors : jpc[j] = "unindex" /\ jid[j] = i /\ jhash[j] = h

(* A posting names a live record of its own file, or is about to go:       *)
(* eviction leaves no posting behind for the next file in the slot.        *)
PostingsPrecise ==
  \A p \in kw : hash[p[1]] = p[2] \/ Unindexing(p[1], p[2])

(* A record without a source is one a departing user is about to evict:    *)
(* the sweep finds only what a departure is still working on.              *)
NoLastingOrphan ==
  \A i \in Ids : Sourceless(i) => \E u \in Users : upc[u] = "evict" /\ uid[u] = i

(* purge_files takes out files "the content filter now refuses": the file  *)
(* evicted is the one that was checked, not one published into its slot    *)
(* while the check walked the rest of the index.                           *)
PurgesWhatWasChecked ==
  \A j \in Janitors :
    jpc[j] = "unindex" => <<jid[j], jhash[j]>> \in evicted[j]
=============================================================================
