----------------------------- MODULE UdpBudget ------------------------------
(***************************************************************************)
(* UdpBudget and TokenBucket of admission.rs: every datagram is charged to *)
(* a server-wide bucket and then to the bucket of its source, kept in a    *)
(* table of bounded size that a timer sweeps.                              *)
(*                                                                         *)
(* A caller is a thread in UdpBudget::check; each step is one lock or one  *)
(* atomic operation.  It reads the clock before it takes any lock, so two  *)
(* callers may come to a bucket in the order opposite to their times.      *)
(* Levels, costs and bursts are in micro-credits, rates in micro-credits   *)
(* per microsecond (credits per second), time in Grain-ths of a            *)
(* microsecond.  SourceKey::of maps an address to its key before anything  *)
(* else and is not modelled.                                               *)
(***************************************************************************)
EXTENDS Integers, FiniteSets

CONSTANTS
  Callers,                 \* threads serving datagrams
  Keys,                    \* source keys
  Costs,                   \* what a packet may cost
  GlobalRate, GlobalBurst, \* udp_global_credits_per_second, .._burst_credits
  SourceRate, SourceBurst, \* udp_source_credits_per_second, .._burst_credits
  Cap,                     \* max_rate_state_entries
  Grain,                   \* clock units (nanoseconds) per microsecond
  MaxDelay,                \* how long a call may take
  MaxClock,                \* bound: how long the server runs
  MaxDrops,                \* bound: how often a source's entry is swept
  NoKey, NoBucket

ASSUME BudgetAssumption ==
  /\ IsFiniteSet(Callers) /\ IsFiniteSet(Keys)
  /\ Costs \subseteq Nat
  /\ GlobalRate \in Nat /\ GlobalBurst \in Nat
  /\ SourceRate \in Nat /\ SourceBurst \in Nat
  /\ Cap \in Nat /\ Grain \in Nat \ {0}
  /\ MaxDelay \in Nat /\ MaxClock \in Nat /\ MaxDrops \in Nat
  /\ NoKey \notin Keys

Bucket == [level : Nat, last : Nat]

ASSUME NoBucketAssumption == NoBucket \notin Bucket

VARIABLES
  clock,
  global,            \* the server-wide bucket
  sources,           \* key -> its bucket
  entries,           \* table slots reserved
  pc, key, cost, now,\* callers: position, packet, and the time it was read
  snow, dropping,    \* the sweep: when it began, the entry it is erasing
  charged,           \* history: credits taken from global, not given back
  ideal,             \* history: the level of a bucket filled continuously
  spent,             \* history: credits a source's packets were served for
  drops              \* history: how often a source's entry was swept

packet == <<key, cost, now>>
sweep == <<snow, dropping>>
history == <<charged, ideal, spent, drops>>
vars == <<clock, global, sources, entries, pc, packet, sweep, history>>

Pcs == {"idle", "global", "source", "insert", "refund"}

TypeOK ==
  /\ clock \in Nat
  /\ global \in Bucket
  /\ sources \in [Keys -> Bucket \cup {NoBucket}]
  /\ entries \in Nat
  /\ pc \in [Callers -> Pcs]
  /\ key \in [Callers -> Keys \cup {NoKey}]
  /\ cost \in [Callers -> Nat]
  /\ now \in [Callers -> Nat]
  /\ snow \in Nat /\ dropping \in Keys \cup {NoKey}
  /\ charged \in Int /\ ideal \in Int
  /\ spent \in [Keys -> Nat] /\ drops \in [Keys -> Nat]

-----------------------------------------------------------------------------
(* TokenBucket. *)
NewBucket(burst, t) == [level |-> burst, last |-> t]

AtMost(burst, n) == IF n <= burst THEN n ELSE burst

(* Whole microseconds since the last refill; 0 for a time before it. *)
Elapsed(b, t) == IF t > b.last THEN (t - b.last) \div Grain ELSE 0

(* Mutants: the bucket is refilled and its time stays; the fraction of a   *)
(* microsecond is lost on every call.                                      *)
RefillKeepsTime(b, rate, burst, t) ==
  [b EXCEPT !.level = AtMost(burst, @ + Elapsed(b, t) * rate)]

RefillDropsFraction(b, rate, burst, t) ==
  [level |-> AtMost(burst, b.level + Elapsed(b, t) * rate),
   last |-> IF t > b.last THEN t ELSE b.last]

(* Advances by exactly the microseconds credited. *)
Refill(b, rate, burst, t) ==
  [level |-> AtMost(burst, b.level + Elapsed(b, t) * rate),
   last |-> b.last + Elapsed(b, t) * Grain]

Less(b, c) == [b EXCEPT !.level = @ - c]

Refunded(b, burst, c) == [b EXCEPT !.level = AtMost(burst, @ + c)]

(* Mutant: an idle bucket counts as full. *)
IsFullAlways(b, t) == TRUE

IsFullAt(b, t) == Refill(b, SourceRate, SourceBurst, t).level >= SourceBurst

Init ==
  /\ clock = 0
  /\ global = NewBucket(GlobalBurst, 0)
  /\ sources = [k \in Keys |-> NoBucket]
  /\ entries = 0
  /\ pc = [p \in Callers |-> "idle"]
  /\ key = [p \in Callers |-> NoKey]
  /\ cost = [p \in Callers |-> 0]
  /\ now = [p \in Callers |-> 0]
  /\ snow = 0 /\ dropping = NoKey
  /\ charged = 0
  /\ ideal = Grain * GlobalBurst
  /\ spent = [k \in Keys |-> 0]
  /\ drops = [k \in Keys |-> 0]

-----------------------------------------------------------------------------
(* check(): the server-wide bucket, under its mutex. *)

Move(p, from, to) ==
  /\ pc[p] = from
  /\ pc' = [pc EXCEPT ![p] = to]

Done(p, from) ==
  /\ Move(p, from, "idle")
  /\ key' = [key EXCEPT ![p] = NoKey]
  /\ cost' = [cost EXCEPT ![p] = 0]
  /\ now' = [now EXCEPT ![p] = 0]

Arrive(p, k, c) ==
  /\ Move(p, "idle", "global")
  /\ key' = [key EXCEPT ![p] = k]
  /\ cost' = [cost EXCEPT ![p] = c]
  /\ now' = [now EXCEPT ![p] = clock]
  /\ UNCHANGED <<clock, global, sources, entries, sweep, history>>

GlobalNow(p) == Refill(global, GlobalRate, GlobalBurst, now[p])

(* Mutant: the level is not compared with the cost. *)
TakeUnchecked(p) ==
  /\ Move(p, "global", "source")
  /\ global' = Less(GlobalNow(p), cost[p])
  /\ charged' = charged + cost[p]
  /\ ideal' = ideal - Grain * cost[p]
  /\ UNCHANGED <<clock, sources, entries, packet, sweep, spent, drops>>

TakeGlobal(p) ==
  /\ GlobalNow(p).level >= cost[p]
  /\ Move(p, "global", "source")
  /\ global' = Less(GlobalNow(p), cost[p])
  /\ charged' = charged + cost[p]
  /\ ideal' = ideal - Grain * cost[p]
  /\ UNCHANGED <<clock, sources, entries, packet, sweep, spent, drops>>

RefuseGlobal(p) ==
  /\ GlobalNow(p).level < cost[p]
  /\ Done(p, "global")
  /\ global' = GlobalNow(p)
  /\ UNCHANGED <<clock, sources, entries, sweep, history>>

(* The source or the table refused: the server-wide credits go back. *)
Refund(p) ==
  /\ Done(p, "refund")
  /\ global' = Refunded(global, GlobalBurst, cost[p])
  /\ charged' = charged - cost[p]
  /\ ideal' = AtMost(Grain * GlobalBurst, ideal + Grain * cost[p])
  /\ UNCHANGED <<clock, sources, entries, sweep, spent, drops>>

-----------------------------------------------------------------------------
(* The source's entry.  A vacant entry stays locked while the caller       *)
(* reserves a slot of the table and inserts.                               *)

Locked(k) ==
  k = dropping \/ \E p \in Callers : pc[p] = "insert" /\ key[p] = k

SourceNow(p) == Refill(sources[key[p]], SourceRate, SourceBurst, now[p])

Serve(p) == spent' = [spent EXCEPT ![key[p]] = @ + cost[p]]

Occupied(p) ==
  /\ pc[p] = "source"
  /\ sources[key[p]] # NoBucket
  /\ ~Locked(key[p])

TakeSource(p) ==
  /\ Occupied(p)
  /\ SourceNow(p).level >= cost[p]
  /\ Done(p, "source")
  /\ sources' = [sources EXCEPT ![key[p]] = Less(SourceNow(p), cost[p])]
  /\ Serve(p)
  /\ UNCHANGED <<clock, global, entries, sweep, charged, ideal, drops>>

RefuseSource(p) ==
  /\ Occupied(p)
  /\ SourceNow(p).level < cost[p]
  /\ Move(p, "source", "refund")
  /\ sources' = [sources EXCEPT ![key[p]] = SourceNow(p)]
  /\ UNCHANGED <<clock, global, entries, packet, sweep, history>>

Vacant(p) ==
  /\ pc[p] = "source"
  /\ sources[key[p]] = NoBucket
  /\ ~Locked(key[p])

(* compare_exchange on entries: reserved before the insertion. *)
ReserveEntry(p) ==
  /\ Vacant(p)
  /\ entries < Cap
  /\ Move(p, "source", "insert")
  /\ entries' = entries + 1
  /\ UNCHANGED <<clock, global, sources, packet, sweep, history>>

TableFull(p) ==
  /\ Vacant(p)
  /\ entries >= Cap
  /\ Move(p, "source", "refund")
  /\ UNCHANGED <<clock, global, sources, entries, packet, sweep, history>>

InsertSource(p) ==
  /\ SourceBurst >= cost[p]
  /\ Done(p, "insert")
  /\ sources' = [sources EXCEPT
       ![key[p]] = Less(NewBucket(SourceBurst, now[p]), cost[p])]
  /\ Serve(p)
  /\ UNCHANGED <<clock, global, entries, sweep, charged, ideal, drops>>

(* A packet that costs more than a full bucket holds. *)
InsertRefused(p) ==
  /\ SourceBurst < cost[p]
  /\ Move(p, "insert", "refund")
  /\ sources' = [sources EXCEPT ![key[p]] = NewBucket(SourceBurst, now[p])]
  /\ UNCHANGED <<clock, global, entries, packet, sweep, history>>

-----------------------------------------------------------------------------
(* sweep(): retain visits the entries, each under its lock; one that is    *)
(* full again at the time the sweep began gives its slot back and is       *)
(* erased.  An entry that is kept is left as it is, so it takes no step;   *)
(* nothing is assumed of the order of the others.                          *)

SweepStart ==
  /\ dropping = NoKey
  /\ snow' = clock
  /\ UNCHANGED <<clock, global, sources, entries, pc, packet, dropping, history>>

(* Mutant: the slot of a dropped entry is not given back. *)
SweepKeepsSlot(k) ==
  /\ dropping = NoKey
  /\ sources[k] # NoBucket /\ ~Locked(k)
  /\ IsFullAt(sources[k], snow)
  /\ drops[k] < MaxDrops
  /\ dropping' = k
  /\ UNCHANGED <<clock, global, sources, entries, pc, packet, snow, history>>

SweepRelease(k) ==
  /\ dropping = NoKey
  /\ sources[k] # NoBucket /\ ~Locked(k)
  /\ IsFullAt(sources[k], snow)
  /\ drops[k] < MaxDrops
  /\ dropping' = k
  /\ entries' = entries - 1
  /\ UNCHANGED <<clock, global, sources, pc, packet, snow, history>>

SweepErase ==
  /\ dropping # NoKey
  /\ sources' = [sources EXCEPT ![dropping] = NoBucket]
  /\ drops' = [drops EXCEPT ![dropping] = @ + 1]
  /\ dropping' = NoKey
  /\ UNCHANGED <<clock, global, entries, pc, packet, snow, charged, ideal, spent>>

(* Time passes; a call takes at most MaxDelay. *)
Tick ==
  /\ clock < MaxClock
  /\ \A p \in Callers : pc[p] # "idle" => clock - now[p] < MaxDelay
  /\ clock' = clock + 1
  /\ ideal' = AtMost(Grain * GlobalBurst, ideal + GlobalRate)
  /\ UNCHANGED <<global, sources, entries, pc, packet, sweep, charged, spent,
                 drops>>

-----------------------------------------------------------------------------
Check(p) ==
  \/ \E k \in Keys, c \in Costs : Arrive(p, k, c)
  \/ TakeGlobal(p) \/ RefuseGlobal(p) \/ Refund(p)
  \/ TakeSource(p) \/ RefuseSource(p)
  \/ ReserveEntry(p) \/ TableFull(p) \/ InsertSource(p) \/ InsertRefused(p)

Sweep == SweepStart \/ (\E k \in Keys : SweepRelease(k)) \/ SweepErase

Next == (\E p \in Callers : Check(p)) \/ Sweep \/ Tick

Spec == Init /\ [][Next]_vars

-----------------------------------------------------------------------------
(* Correctness.                                                            *)

(* The server-wide budget gives out at most its burst and what its rate    *)
(* has produced, however callers interleave, whatever times they come      *)
(* with, and though refused packets give their credits back.               *)
GlobalBound == Grain * charged <= Grain * GlobalBurst + GlobalRate * clock

(* What a bucket holds and is due for the time since its last refill.      *)
Owed(b, rate, t) == Grain * b.level + rate * (t - b.last)

(* Nothing is lost either: the bucket never holds less than one filled     *)
(* continuously and charged with the same packets ("the sub-microsecond    *)
(* remainder is not lost on every call", refused packets cost nothing).    *)
CreditsKept == ideal <= Owed(global, GlobalRate, clock)

Inserting == {p \in Callers : pc[p] = "insert"}
Known == {k \in Keys : sources[k] # NoBucket}

(* The counter that bounds the table is its size plus the insertions in    *)
(* progress, less the entry being erased: the cap holds under concurrent   *)
(* inserts and sweeps (but for that entry), and no slot is lost.           *)
TableBounded ==
  /\ entries = Cardinality(Known \ {dropping}) + Cardinality(Inserting)
  /\ entries <= Cap

(* What a source may have been served and still be owed. *)
Allowance(k) ==
  Grain * SourceBurst + SourceRate * (clock + MaxDelay * drops[k])

(* "Forgetting them loses nothing": over any number of sweeps a source is  *)
(* served at most its burst and what its rate has produced, but for the    *)
(* delay of the packet that creates its entry anew.                        *)
SourceBound == \A k \in Keys : Grain * spent[k] <= Allowance(k)

(* The inductive invariant behind the theorems:                            *)
(* - times: nothing is dated in the future, and no call is older than      *)
(*   MaxDelay;                                                             *)
(* - the credits given out and those a bucket still has or is owed add up  *)
(*   to at most burst and rate, for the server and for each source; a      *)
(*   source that was forgotten keeps its whole burst in reserve;           *)
(* - an entry that is being inserted is vacant, by one caller, and one     *)
(*   that is being erased is there, and full.                              *)
TimesKept ==
  /\ global.last <= clock /\ snow <= clock
  /\ \A k \in Known : sources[k].last <= clock
  /\ \A p \in Callers : pc[p] # "idle" =>
       /\ key[p] \in Keys
       /\ now[p] <= clock /\ clock - now[p] <= MaxDelay

GlobalBalance ==
  /\ Grain * charged + Owed(global, GlobalRate, clock)
       <= Grain * GlobalBurst + GlobalRate * clock
  /\ ideal <= Grain * GlobalBurst

SourceBalance ==
  \A k \in Keys :
    /\ sources[k] # NoBucket =>
         Grain * spent[k] + Owed(sources[k], SourceRate, clock) <= Allowance(k)
    /\ sources[k] = NoBucket =>
         \/ drops[k] = 0 /\ spent[k] = 0
         \/ /\ drops[k] > 0
            /\ Grain * spent[k] <= SourceRate * (clock + MaxDelay * (drops[k] - 1))

EntriesLocked ==
  /\ \A p \in Inserting : sources[key[p]] = NoBucket
  /\ \A p, q \in Inserting : key[p] = key[q] => p = q
  /\ dropping # NoKey =>
       sources[dropping] # NoBucket /\ IsFullAt(sources[dropping], snow)

BudgetInv ==
  /\ TypeOK
  /\ TimesKept /\ GlobalBalance /\ CreditsKept
  /\ SourceBalance /\ EntriesLocked /\ TableBounded

(* Neither the server nor any source spends more than burst and rate.      *)
RatesHeld == GlobalBound /\ SourceBound
=============================================================================
