----------------------------- MODULE NameHistory ------------------------------
(***************************************************************************)
(* The name history (src/src/name_db.rs): the names each file was offered  *)
(* under, by which publishers, and what the filter said of each.  The      *)
(* offer path puts events into a bounded queue; one writer thread folds    *)
(* them into pending changes, which one transaction writes to SQLite.      *)
(* The process may stop in order, crash, or lose power, and writes fail.   *)
(***************************************************************************)
EXTENDS Naturals, Sequences, FiniteSets, FiniteSetsExt

CONSTANTS
  Offers,        \* what publishers may offer: [hash, name, by, matches, white]
  Cut,           \* a name, cut to the 1024 bytes that are stored
  NetOf,         \* the network (/24, /48) of a publisher
  NamesPerHash, PubsPerName, MaxPending, MaxQueue,   \* the settings
  MaxNoted, MaxFaults                              \* bounds of the model

VARIABLES
  running,   \* "up", "stopping" (signalled), "flushing" (Flush queued), "down"
  queued,    \* the channel: <<an event>>, or <<>> for a Flush
  pending,   \* the writer's changes, by key
  newOf,     \* how many names of a hash wait to be inserted
  told,      \* the done flag of flush_and_wait
  counts,    \* the writer's files, names and publishers
  rows,      \* the table: key -> row
  meta,      \* the counts of the meta table
  salt,      \* the salt of the meta table, 0 when there is none
  synced,    \* what the last checkpoint made durable
  owed,      \* ghost: offers the queue took since the process started
  excused,   \* ghost: those over a cap or in a batch that failed
  noted, faults

mem == <<queued, pending, newOf, told, counts>>
disk == <<rows, meta, salt>>
vars == <<running, mem, disk, synced, owed, excused, noted, faults>>

(* The verdict to store for an offer: the filter's, but for a whitelisted    *)
(* hash what it would be without the whitelist.                              *)
Judged(o) ==
  LET blocked == o.matches /\ ~o.white
  IN [bad |-> IF blocked THEN TRUE ELSE o.white /\ o.matches, listed |-> IF blocked THEN FALSE ELSE o.white]
Event(o) == [hash |-> o.hash, name |-> o.name, by |-> o.by, bad |-> Judged(o).bad, listed |-> Judged(o).listed]
Events == {Event(o) : o \in Offers}

OfferedHashes == {o.hash : o \in Offers}
KeyOf(o) == <<o.hash, Cut[o.name]>>
RowKeys == {KeyOf(e) : e \in Events}
NoRow == [names |-> 0]
Zero == [files |-> 0, names |-> 0, pubs |-> 0]

(* The publisher an offer is counted for: digests of the user and of its    *)
(* network, both under the salt.                                            *)
Publisher(o) == [user |-> <<salt, o.by>>, net |-> <<salt, NetOf[o.by]>>]
DistinctNets(ps) == Cardinality({p.net : p \in ps})

(* The publisher joins, under the cap, when its user digest is not there.   *)
Joined(ps, o) ==
  IF Cardinality(ps) < PubsPerName /\ \A p \in ps : p.user # Publisher(o).user
  THEN ps \cup {Publisher(o)} ELSE ps

-----------------------------------------------------------------------------
(* Opening the database: a fresh one gets a salt, the counts are loaded.    *)
(* Left out: a salt that cannot be read is taken for none, a count for 0.   *)
OpenResalted ==
  /\ salt' = faults + 1 /\ counts' = meta
  /\ running' = "up" /\ queued' = <<>> /\ pending' = [k \in {} |-> NoRow]
  /\ newOf' = [h \in OfferedHashes |-> 0] /\ told' = FALSE
  /\ owed' = {} /\ excused' = {}
Open ==
  /\ salt' = IF salt = 0 THEN faults + 1 ELSE salt
  /\ counts' = meta
  /\ running' = "up" /\ queued' = <<>> /\ pending' = [k \in {} |-> NoRow]
  /\ newOf' = [h \in OfferedHashes |-> 0] /\ told' = FALSE
  /\ owed' = {} /\ excused' = {}

Init ==
  /\ running = "down" /\ queued = <<>> /\ pending = [k \in {} |-> NoRow]
  /\ newOf = [h \in OfferedHashes |-> 0] /\ told = FALSE /\ counts = Zero
  /\ rows = [k \in {} |-> NoRow] /\ meta = Zero /\ salt = 0
  /\ synced = <<rows, meta, salt>> /\ owed = {} /\ excused = {} /\ noted = 0 /\ faults = 0

Start == running = "down" /\ faults <= MaxFaults /\ Open /\ UNCHANGED <<rows, meta, synced, noted, faults>>

(* From the offer path: never waits, a full queue drops the event. *)
Note(o) ==
  /\ running # "down" /\ noted < MaxNoted
  /\ noted' = noted + 1
  /\ IF Len(queued) < MaxQueue
     THEN queued' = Append(queued, <<Event(o)>>) /\ owed' = IF running = "up" THEN owed \cup {Event(o)} ELSE owed
     ELSE UNCHANGED <<queued, owed>>
  /\ UNCHANGED <<running, pending, newOf, told, counts, disk, synced, excused, faults>>

-----------------------------------------------------------------------------
(* An offer of a name that already waits is folded into its change. *)
Folded(ch, o) ==
  IF ch.kind = "new"
  THEN [ch EXCEPT !.bad = @ \/ o.bad, !.listed = @ \/ o.listed, !.pubs = Joined(@, o)]
  ELSE [ch EXCEPT !.pubs = Joined(@, o), !.added = @ + Cardinality(Joined(ch.pubs, o)) - Cardinality(ch.pubs),
                  !.verdict = IF o.bad /\ @ = <<>> THEN <<o.listed>> ELSE @]

NewName(o) == [kind |-> "new", bad |-> o.bad, listed |-> o.listed, pubs |-> {Publisher(o)}]

(* A stored name changes by a publisher it lacks, or a verdict it lacks. *)
Change(row, o) ==
  [kind |-> "update", pubs |-> Joined(row.pubs, o),
   added |-> Cardinality(Joined(row.pubs, o)) - Cardinality(row.pubs),
   verdict |-> IF ~row.bad /\ o.bad THEN <<o.listed>> ELSE <<>>]

StoredOf(h) == Cardinality({k \in DOMAIN rows : k[1] = h})

(* The writer's lookup of one event: <<pending, newOf, excused>> after it. *)
Added(o) ==
  LET k == KeyOf(o)
      Put(ch) == [j \in DOMAIN pending \cup {k} |-> IF j = k THEN ch ELSE pending[j]]
  IN IF k \in DOMAIN pending
     THEN <<Put(Folded(pending[k], o)), newOf, excused>>
     ELSE IF k \in DOMAIN rows
     THEN IF Change(rows[k], o).added = 0 /\ Change(rows[k], o).verdict = <<>>
          THEN <<pending, newOf, excused>>
          ELSE <<Put(Change(rows[k], o)), newOf, excused>>
     ELSE IF StoredOf(o.hash) + newOf[o.hash] >= NamesPerHash
     THEN <<pending, newOf, excused \cup {o}>>
     ELSE <<Put(NewName(o)), [newOf EXCEPT ![o.hash] = @ + 1], excused>>

(* One transaction of a batch: the rows after it, and what it counted. *)
Row(ch) ==
  [bad |-> ch.bad, listed |-> ch.listed, pubs |-> ch.pubs, npubs |-> Cardinality(ch.pubs), nnets |-> DistinctNets(ch.pubs)]
UpdatedAnyRow(row, ch) ==
  LET r == IF ch.added > 0
           THEN [row EXCEPT !.pubs = ch.pubs, !.npubs = Cardinality(ch.pubs), !.nnets = DistinctNets(ch.pubs)]
           ELSE row
  IN IF ch.verdict # <<>> THEN [r EXCEPT !.bad = TRUE, !.listed = ch.verdict[1]] ELSE r
Updated(row, ch) ==
  LET r == IF ch.added > 0
           THEN [row EXCEPT !.pubs = ch.pubs, !.npubs = Cardinality(ch.pubs), !.nnets = DistinctNets(ch.pubs)]
           ELSE row
  IN IF ch.verdict # <<>> /\ ~row.bad THEN [r EXCEPT !.bad = TRUE, !.listed = ch.verdict[1]] ELSE r
Written(batch) ==
  [k \in DOMAIN rows \cup DOMAIN batch |->
     IF k \notin DOMAIN batch THEN rows[k]
     ELSE IF k \notin DOMAIN rows THEN Row(batch[k])
     ELSE IF batch[k].kind = "update" THEN Updated(rows[k], batch[k]) ELSE rows[k]]
Counted(batch) ==
  LET new == {k \in DOMAIN batch : batch[k].kind = "new" /\ k \notin DOMAIN rows}
      old == {k \in DOMAIN batch : batch[k].kind = "update"}
  IN [files |-> Cardinality({h \in {k[1] : k \in new} : StoredOf(h) = 0}),
      names |-> Cardinality(new),
      pubs |-> FoldSet(LAMBDA k, n : n + Cardinality(batch[k].pubs), 0, new)
                 + FoldSet(LAMBDA k, n : n + batch[k].added, 0, old)]

(* The changes are written, or the write fails and the batch is dropped;    *)
(* the places kept for new names are given back either way.                 *)
Flush(batch, ok) ==
  /\ pending' = [k \in {} |-> NoRow] /\ newOf' = [h \in OfferedHashes |-> 0]
  /\ IF ok /\ DOMAIN batch # {}
     THEN /\ rows' = Written(batch)
          /\ LET c == Counted(batch) IN
               meta' = [x \in DOMAIN c |-> counts[x] + c[x]]
          /\ counts' = meta'
     ELSE UNCHANGED <<rows, meta, counts>>

(* A batch that failed excuses the offers whose change was in it. *)
Excuse(batch, ok, ex) == excused' = IF ok THEN ex ELSE ex \cup {e \in Events : KeyOf(e) \in DOMAIN batch}
Faulty(ok) == faults' = (IF ok THEN faults ELSE faults + 1) /\ faults' <= MaxFaults

(* The writer takes an event, and writes once enough changes have gathered. *)
TakeOffer(ok) ==
  /\ running # "down" /\ queued # <<>> /\ Head(queued) # <<>>
  /\ queued' = Tail(queued)
  /\ LET a == Added(Head(queued)[1]) IN
       IF Cardinality(DOMAIN a[1]) >= MaxPending
       THEN Flush(a[1], ok) /\ Excuse(a[1], ok, a[3]) /\ Faulty(ok)
       ELSE /\ ok /\ pending' = a[1] /\ newOf' = a[2] /\ excused' = a[3]
            /\ UNCHANGED <<rows, meta, counts, faults>>
  /\ UNCHANGED <<running, told, salt, synced, owed, noted>>

(* The lookup of an event fails: it is dropped. *)
LookupFails ==
  /\ running # "down" /\ queued # <<>> /\ Head(queued) # <<>>
  /\ KeyOf(Head(queued)[1]) \notin DOMAIN pending
  /\ queued' = Tail(queued) /\ excused' = excused \cup {Head(queued)[1]} /\ Faulty(FALSE)
  /\ UNCHANGED <<running, pending, newOf, told, counts, disk, synced, owed, noted>>

TakeFlush(ok) ==
  /\ running # "down" /\ queued # <<>> /\ Head(queued) = <<>>
  /\ queued' = Tail(queued) /\ told' = TRUE
  /\ Flush(pending, ok) /\ Excuse(pending, ok, excused) /\ Faulty(ok)
  /\ UNCHANGED <<running, salt, synced, owed, noted>>

(* The time between two writes has passed. *)
Timeout(ok) ==
  /\ running # "down" /\ queued = <<>> /\ DOMAIN pending # {}
  /\ Flush(pending, ok) /\ Excuse(pending, ok, excused) /\ Faulty(ok)
  /\ UNCHANGED <<running, queued, told, salt, synced, owed, noted>>

-----------------------------------------------------------------------------
(* SIGTERM or SIGINT: ask for a flush and wait for it, at most 20 s.  The   *)
(* send waits for a place in the queue.                                     *)
Signal ==
  /\ running = "up" /\ running' = "stopping" /\ told' = FALSE
  /\ UNCHANGED <<queued, pending, newOf, counts, disk, synced, owed, excused, noted, faults>>
SendFlush ==
  /\ running = "stopping" /\ Len(queued) < MaxQueue
  /\ queued' = Append(queued, <<>>) /\ running' = "flushing"
  /\ UNCHANGED <<pending, newOf, told, counts, disk, synced, owed, excused, noted, faults>>
Exit ==
  /\ running = "flushing" /\ told
  /\ running' = "down" /\ faults' = faults + 1
  /\ UNCHANGED <<mem, disk, synced, owed, excused, noted>>

(* The process dies, or has waited 20 s for the flush: its memory is lost.  *)
(* Without power what SQLite had not checkpointed (WAL, synchronous =       *)
(* NORMAL) is lost as well, in order.                                       *)
GiveUp == faults < MaxFaults /\ running # "down" /\ running' = "down" /\ faults' = faults + 1 /\ owed' = {}
Crash == GiveUp /\ UNCHANGED <<mem, disk, synced, excused, noted>>
PowerLoss ==
  /\ GiveUp
  /\ rows' = synced[1] /\ meta' = synced[2] /\ salt' = synced[3]
  /\ UNCHANGED <<mem, synced, excused, noted>>
Checkpoint ==
  /\ running # "down" /\ synced # <<rows, meta, salt>>
  /\ synced' = <<rows, meta, salt>>
  /\ UNCHANGED <<running, mem, disk, owed, excused, noted, faults>>

Next ==
  \/ Start \/ LookupFails \/ Signal \/ SendFlush \/ Exit \/ Crash \/ PowerLoss \/ Checkpoint
  \/ \E o \in Offers : Note(o)
  \/ \E ok \in BOOLEAN : TakeOffer(ok) \/ TakeFlush(ok) \/ Timeout(ok)

Spec == Init /\ [][Next]_vars

-----------------------------------------------------------------------------
(* What the admin page is told of a hash. *)
Report(h) ==
  LET of == {k \in DOMAIN rows : k[1] = h}
      By(ks) == UNION {rows[k].pubs : k \in ks}
      bads == {k \in of : rows[k].bad}
  IN [known |-> of # {}, names |-> Cardinality(of), flagged |-> Cardinality(bads),
      publishers |-> Cardinality({p.user : p \in By(of)}), networks |-> DistinctNets(By(of)),
      flaggedNets |-> DistinctNets(By(bads)), cleanNets |-> DistinctNets(By(of \ bads))]

TypeOK ==
  /\ running \in {"up", "stopping", "flushing", "down"} /\ told \in BOOLEAN
  /\ Len(queued) <= MaxQueue /\ DOMAIN pending \subseteq RowKeys /\ DOMAIN rows \subseteq RowKeys

(* No hash has more names, no name more publishers, than the settings allow,*)
(* whatever was folded, written, lost or started again.                     *)
CapsHold ==
  /\ \A h \in OfferedHashes : StoredOf(h) <= NamesPerHash
  /\ \A k \in DOMAIN rows : Cardinality(rows[k].pubs) <= PubsPerName

(* The counts that are kept instead of being computed are those of the      *)
(* table, on disk and in the running server.                                *)
CountsTrue ==
  /\ meta = [files |-> Cardinality({k[1] : k \in DOMAIN rows}), names |-> Cardinality(DOMAIN rows),
             pubs |-> FoldSet(LAMBDA k, n : n + Cardinality(rows[k].pubs), 0, DOMAIN rows)]
  /\ running # "down" => counts = meta
  /\ \A k \in DOMAIN rows :
       rows[k].npubs = Cardinality(rows[k].pubs) /\ rows[k].nnets = DistinctNets(rows[k].pubs)

(* A publisher is one publisher of a hash in every run of the server, so    *)
(* what the page reports as independent publishers and networks is no more  *)
(* than there are.                                                          *)
PublishersOnce ==
  \A h \in OfferedHashes :
    LET Us == UNION {{p.user[2] : p \in rows[k].pubs} : k \in {j \in DOMAIN rows : j[1] = h}}
        r == Report(h)
    IN /\ r.publishers = Cardinality(Us)
       /\ r.networks = Cardinality({NetOf[u] : u \in Us})
       /\ r.flaggedNets + r.cleanNets >= r.networks

(* An offer is kept by a row (or a change that waits to become one): its    *)
(* publisher counts, unless the name's places are taken, and its verdict is *)
(* not lost.                                                                *)
KeptBy(row, o) ==
  /\ (\E p \in row.pubs : p.user[2] = o.by) \/ Cardinality(row.pubs) = PubsPerName
  /\ o.bad => row.bad
Kept(o) ==
  LET k == KeyOf(o) IN
  \/ k \in DOMAIN pending /\ KeptBy(Written(pending)[k], o)
  \/ k \in DOMAIN rows /\ KeptBy(rows[k], o)

(* While the server runs an offer the queue took waits, is kept, or was     *)
(* over a cap or in a failed write; after an orderly stop it is on disk.    *)
OffersKept ==
  /\ running # "down" =>
       \A o \in owed : o \in excused \/ Kept(o) \/ \E i \in 1..Len(queued) : queued[i] = <<o>>
  /\ running = "down" =>
       \A o \in owed : o \in excused \/ (KeyOf(o) \in DOMAIN rows /\ KeptBy(rows[KeyOf(o)], o))

HistorySound == TypeOK /\ CapsHold /\ CountsTrue /\ PublishersOnce /\ OffersKept

(* The history only grows: but for a loss of power a name stays, its        *)
(* publishers stay, and a verdict against it stays.                         *)
HistoryGrows ==
  [][\/ running' = "down"
     \/ \A k \in DOMAIN rows :
          /\ k \in DOMAIN rows'
          /\ rows[k].pubs \subseteq rows'[k].pubs
          /\ rows[k].bad => rows'[k].bad /\ rows'[k].listed = rows[k].listed]_vars
=============================================================================
