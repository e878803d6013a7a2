------------------------------ MODULE Publishing ------------------------------
(***************************************************************************)
(* OFFERFILES batches of one user: the content filter's verdicts, the      *)
(* attempts of a session and the distinct blocked files of the user, the   *)
(* ban, and the soft limit.  Large batches run on the blocking pool and go *)
(* on when a newer login replaces their session; small ones run at once.   *)
(***************************************************************************)
EXTENDS Naturals, Sequences, FiniteSets

CONSTANTS
  Hashes,
  Verdict,      \* what the filter says: "allow", "block", "poison"
  Threshold,    \* publisher_attempt_disconnect_threshold
  Soft,         \* the soft limit (0: none)
  HardLimit,    \* hard_limit_files
  MaxBatch,     \* bound: records of a batch
  MaxOffers,    \* bound: batches
  Conns         \* connections, in the order they log in

VARIABLES
  conn,         \* a connection: new, in, running (its batch), gone
  current,      \* the session clients has for the user (0: none)
  attempts,     \* csam_attempts of a session
  warned,       \* soft_limit_warned
  todo,         \* the records a batch has left
  sourced,      \* the count a batch last read
  indexed,      \* user_files: the files the user sources
  caught,       \* csam_files_by_user: "no", "recent", "old"
  banned,       \* banned_publishers
  blockedEver, overlapped,  \* history
  offers

counters == <<attempts, warned>>
vars == <<conn, current, counters, todo, sourced, indexed, caught, banned,
          blockedEver, overlapped, offers>>

TypeOK ==
  /\ conn \in [Conns -> {"new", "in", "running", "gone"}] /\ current \in Conns \cup {0}
  /\ attempts \in [Conns -> Nat] /\ warned \in [Conns -> BOOLEAN]
  /\ todo \in [Conns -> Seq(Hashes)] /\ sourced \in [Conns -> Nat]
  /\ indexed \subseteq Hashes /\ caught \in [Hashes -> {"no", "recent", "old"}]
  /\ banned \in BOOLEAN /\ blockedEver \subseteq Hashes /\ overlapped \in BOOLEAN

Init ==
  /\ conn = [c \in Conns |-> "new"] /\ current = 0
  /\ attempts = [c \in Conns |-> 0] /\ warned = [c \in Conns |-> FALSE]
  /\ todo = [c \in Conns |-> <<>>] /\ sourced = [c \in Conns |-> 0]
  /\ indexed = {} /\ caught = [h \in Hashes |-> "no"] /\ banned = FALSE
  /\ blockedEver = {} /\ overlapped = FALSE /\ offers = 0

-----------------------------------------------------------------------------
(* What a batch works on: its session's counters and the shared tables. *)
Tables(c) == [attempts |-> attempts[c], warned |-> warned[c], sourced |-> sourced[c],
              indexed |-> indexed, caught |-> caught, banned |-> banned, left |-> todo[c]]

(* Mutant: every offer of a blocked file counts. *)
CountsOffers(t, h) ==
  LET catch == [t.caught EXCEPT ![h] = "recent"]
      bans == t.attempts + 1 > Threshold
  IN [t EXCEPT !.attempts = @ + 1, !.caught = catch, !.banned = @ \/ bans,
               !.left = IF bans THEN <<>> ELSE Tail(@)]

(* A file that counts against its publisher: record_csam_file_for_user keeps *)
(* the first catch of a hash; above the threshold the user is banned and the *)
(* rest of the batch left.                                                   *)
Blocked(t, h) ==
  LET catch == IF t.caught[h] = "no" THEN [t.caught EXCEPT ![h] = "recent"] ELSE t.caught
      bans == Cardinality({g \in Hashes : catch[g] = "recent"}) > Threshold
  IN [t EXCEPT !.attempts = @ + 1, !.caught = catch, !.banned = @ \/ bans,
               !.left = IF bans THEN <<>> ELSE Tail(@)]

(* Mutant: the count of the batch's start is used for all of it. *)
AllowedOnce(t, h) ==
  IF Soft > 0 /\ t.sourced >= Soft /\ h \notin t.indexed
  THEN [t EXCEPT !.warned = TRUE, !.left = Tail(@)]
  ELSE [t EXCEPT !.indexed = @ \cup {h}, !.left = Tail(@)]

(* A file that is indexed, unless it is new and the budget is spent. *)
Allowed(t, h) ==
  IF Soft > 0 /\ t.sourced >= Soft /\ h \notin t.indexed
  THEN [t EXCEPT !.warned = TRUE, !.left = Tail(@)]
  ELSE [t EXCEPT !.indexed = @ \cup {h}, !.sourced = Cardinality(t.indexed \cup {h}),
                 !.left = Tail(@)]

Record(t) ==
  LET h == Head(t.left) IN
  CASE Verdict[h] = "block" -> Blocked(t, h)
    [] Verdict[h] = "poison" -> [t EXCEPT !.left = Tail(@)]
    [] OTHER -> Allowed(t, h)

(* The tables after n more records. *)
After(t, n) ==
  LET run[k \in 0 .. n] ==
        IF k = 0 THEN t ELSE IF run[k - 1].left = <<>> THEN run[k - 1] ELSE Record(run[k - 1])
  IN run[n]

Batches == UNION {[1 .. n -> Hashes] : n \in 1 .. MaxBatch}

Writes(c, t) ==
  /\ attempts' = [attempts EXCEPT ![c] = t.attempts] /\ warned' = [warned EXCEPT ![c] = t.warned]
  /\ sourced' = [sourced EXCEPT ![c] = t.sourced] /\ todo' = [todo EXCEPT ![c] = t.left]
  /\ indexed' = t.indexed /\ caught' = t.caught /\ banned' = t.banned

-----------------------------------------------------------------------------
(* A login: refused to a banned publisher; replaces the session there is. *)
Login(c) ==
  /\ conn[c] = "new" /\ \A b \in Conns : b < c => conn[b] # "new"
  /\ IF banned THEN conn' = [conn EXCEPT ![c] = "gone"] /\ UNCHANGED current
     ELSE conn' = [conn EXCEPT ![c] = "in"] /\ current' = c
  /\ UNCHANGED <<counters, todo, sourced, indexed, caught, banned, blockedEver, overlapped, offers>>

(* The connection ends; the sources go with the session clients has. *)
End(c) ==
  /\ conn' = [conn EXCEPT ![c] = "gone"]
  /\ IF current = c THEN current' = 0 ELSE UNCHANGED current

Drop(c) ==
  /\ conn[c] = "in" /\ End(c)
  /\ indexed' = IF current = c THEN {} ELSE indexed
  /\ UNCHANGED <<counters, todo, sourced, caught, banned, blockedEver, overlapped, offers>>

Offered(b) == {b[i] : i \in DOMAIN b}
NotesOffer(b) ==
  /\ offers < MaxOffers /\ offers' = offers + 1
  /\ blockedEver' = blockedEver \cup {h \in Offered(b) : Verdict[h] = "block"}

(* Above the hard limit: the connection is closed, nothing is read. *)
OfferRefused(c, b) ==
  /\ conn[c] = "in" /\ offers < MaxOffers /\ offers' = offers + 1
  /\ HardLimit > 0 /\ Len(b) >= HardLimit /\ End(c)
  /\ indexed' = IF current = c THEN {} ELSE indexed
  /\ UNCHANGED <<counters, todo, sourced, caught, banned, blockedEver, overlapped>>

Within(b) == HardLimit = 0 \/ Len(b) < HardLimit

(* A batch run inline; then the connection loop's threshold. *)
OfferInline(c, b) ==
  /\ conn[c] = "in" /\ Within(b) /\ NotesOffer(b)
  /\ LET t == After([Tables(c) EXCEPT !.left = b, !.sourced = Cardinality(indexed)], Len(b)) IN
     IF t.attempts > Threshold
     THEN /\ End(c) /\ Writes(c, [t EXCEPT !.indexed = IF current = c THEN {} ELSE @])
     ELSE Writes(c, t) /\ UNCHANGED <<conn, current>>
  /\ overlapped' = (overlapped \/ \E d \in Conns \ {c} : conn[d] = "running")

(* A batch on the blocking pool, a record at a time. *)
OfferPooled(c, b) ==
  /\ conn[c] = "in" /\ Within(b) /\ NotesOffer(b)
  /\ conn' = [conn EXCEPT ![c] = "running"]
  /\ todo' = [todo EXCEPT ![c] = b] /\ sourced' = [sourced EXCEPT ![c] = Cardinality(indexed)]
  /\ overlapped' = (overlapped \/ \E d \in Conns \ {c} : conn[d] = "running")
  /\ UNCHANGED <<current, counters, indexed, caught, banned>>

PooledRecord(c) ==
  /\ conn[c] = "running" /\ todo[c] # <<>>
  /\ Writes(c, After(Tables(c), 1))
  /\ UNCHANGED <<conn, current, blockedEver, overlapped, offers>>

PooledDone(c) ==
  /\ conn[c] = "running" /\ todo[c] = <<>>
  /\ IF attempts[c] > Threshold
     THEN End(c) /\ indexed' = IF current = c THEN {} ELSE indexed
     ELSE conn' = [conn EXCEPT ![c] = "in"] /\ UNCHANGED <<current, indexed>>
  /\ UNCHANGED <<counters, todo, sourced, caught, banned, blockedEver, overlapped, offers>>

(* A catch leaves the counting window; then records and ban run out. *)
WindowPasses(h) ==
  /\ caught[h] = "recent" /\ caught' = [caught EXCEPT ![h] = "old"]
  /\ UNCHANGED <<conn, current, counters, todo, sourced, indexed, banned, blockedEver, overlapped, offers>>

RetentionPasses ==
  /\ \A h \in Hashes : caught[h] # "recent"
  /\ \E h \in Hashes : caught[h] = "old"
  /\ caught' = [h \in Hashes |-> "no"] /\ banned' = FALSE
  /\ UNCHANGED <<conn, current, counters, todo, sourced, indexed, blockedEver, overlapped, offers>>

Next ==
  \/ \E c \in Conns :
       \/ Login(c) \/ Drop(c) \/ PooledRecord(c) \/ PooledDone(c)
       \/ \E b \in Batches : OfferRefused(c, b) \/ OfferInline(c, b) \/ OfferPooled(c, b)
  \/ \E h \in Hashes : WindowPasses(h)
  \/ RetentionPasses

Spec == Init /\ [][Next]_vars

-----------------------------------------------------------------------------
(* "a single rare false positive can never ban an innocent publisher": a ban *)
(* needs more distinct blocked files than the threshold, over reconnects,    *)
(* re-offers, decoys and batches that overlap.                               *)
BanEarned == banned => Cardinality(blockedEver) > Threshold

(* The soft limit is the indexing budget of one client: exact, but for one   *)
(* file for each other session whose batch overlaps.                         *)
SoftBudget ==
  Soft > 0 => Cardinality(indexed) <= IF overlapped THEN Soft + Cardinality(Conns) - 1 ELSE Soft

(* "the publisher is banned ... and the connection loop will drop the session  *)
(* on the csam_attempts threshold": no session of a banned user goes on.       *)
BannedSessionDropped == banned => \A c \in Conns : conn[c] # "in"

(* What a publisher's batches may add up to before it is stopped.          *)
PublishLimits == TypeOK /\ BanEarned /\ SoftBudget
=============================================================================
