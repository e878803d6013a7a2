----------------------------- MODULE OfferPacing ------------------------------
(***************************************************************************)
(* OFFERFILES v1: the policy a login is told, its connection's bucket, and *)
(* the server-wide bucket behind one fair lock that a publisher holds      *)
(* while it sleeps out its wait.  Time is counted in ticks; the ceiling    *)
(* changes live.                                                           *)
(***************************************************************************)
EXTENDS Naturals, Sequences

CONSTANTS
  Pubs, Sizes,  \* v1 connections; the records of a batch, up to BatchMax
  BatchMax, MinInterval,   \* the policy told at login
  CostCap,      \* COST_CAP_NS
  Ceilings,     \* offerfiles_global_records_per_sec (0: none)
  Second,       \* ticks of a second
  MaxNow, MaxCeilings, MaxOffered \* bounds: time, changes of the ceiling, batches

VARIABLES
  clock,
  stage,        \* where a connection's batch is: idle, own, queued, asleep
  size,         \* its records
  until,        \* when its wait is over
  tat,          \* Gcra.tat of a connection
  ceiling,      \* live_cfg
  gRate, gTat,  \* the server-wide Gcra (rate 0: not made yet)
  lock,         \* who waits for the lock, and the ceiling it read; the first holds it
  gone,         \* replaced by a newer login while it waited
  passed,       \* history: records a connection has had processed
  gPassed, gSince, ceilings, offered \* history: since the server-wide bucket was made

vars == <<clock, stage, size, until, tat, ceiling, gRate, gTat, lock, gone,
          passed, gPassed, gSince, ceilings, offered>>

TypeOK ==
  /\ clock \in 0 .. MaxNow
  /\ stage \in [Pubs -> {"idle", "own", "queued", "asleep"}]
  /\ size \in [Pubs -> 0 .. BatchMax] /\ until \in [Pubs -> Nat] /\ tat \in [Pubs -> Nat]
  /\ ceiling \in Ceilings /\ gRate \in Ceilings \cup {0} /\ gTat \in Nat
  /\ lock \in Seq(Pubs \X Ceilings) /\ gone \subseteq Pubs

Init ==
  /\ clock = 0 /\ stage = [p \in Pubs |-> "idle"] /\ size = [p \in Pubs |-> 0]
  /\ until = [p \in Pubs |-> 0] /\ tat = [p \in Pubs |-> 0]
  /\ ceiling \in Ceilings /\ gRate = 0 /\ gTat = 0 /\ lock = <<>> /\ gone = {}
  /\ passed = [p \in Pubs |-> 0] /\ gPassed = 0 /\ gSince = 0 /\ ceilings = 0 /\ offered = 0

-----------------------------------------------------------------------------
Least(a, b) == IF a < b THEN a ELSE b
Later(a, b) == IF a > b THEN a ELSE b

(* What n records cost a bucket. *)
Cost(n, rate, per) == Least((per * n) \div rate, CostCap)

(* Gcra::reserve: the new tat, and when the records may go. *)
Reserve(t, n, rate, per) == Later(t, clock) + Cost(n, rate, per)
Earliest(t, per) == IF t > clock + per THEN t - per ELSE clock

Tick ==
  /\ clock < MaxNow /\ clock' = clock + 1
  /\ UNCHANGED <<stage, size, until, tat, ceiling, gRate, gTat, lock, gone,
                 passed, gPassed, gSince, ceilings, offered>>

SetCeiling(r) ==
  /\ ceilings < MaxCeilings /\ ceilings' = ceilings + 1
  /\ r # ceiling /\ ceiling' = r
  /\ UNCHANGED <<clock, stage, size, until, tat, gRate, gTat, lock, gone,
                 passed, gPassed, gSince, offered>>

(* Mutant: the bucket does not remember what is booked ahead. *)
ForgetsBooking(p, n) ==
  /\ stage[p] = "idle" /\ p \notin gone /\ offered < MaxOffered /\ offered' = offered + 1
  /\ stage' = [stage EXCEPT ![p] = "own"] /\ size' = [size EXCEPT ![p] = n]
  /\ tat' = [tat EXCEPT ![p] = Reserve(0, n, BatchMax, MinInterval)]
  /\ until' = [until EXCEPT ![p] = Earliest(tat'[p], MinInterval)]
  /\ UNCHANGED <<clock, ceiling, gRate, gTat, lock, gone, passed, gPassed, gSince, ceilings>>

(* A batch is booked on the connection's bucket.  (One above batch_max is   *)
(* counted and dropped, an empty one goes through: neither is charged.)     *)
Offer(p, n) ==
  /\ stage[p] = "idle" /\ p \notin gone /\ offered < MaxOffered /\ offered' = offered + 1
  /\ stage' = [stage EXCEPT ![p] = "own"] /\ size' = [size EXCEPT ![p] = n]
  /\ tat' = [tat EXCEPT ![p] = Reserve(@, n, BatchMax, MinInterval)]
  /\ until' = [until EXCEPT ![p] = Earliest(tat'[p], MinInterval)]
  /\ UNCHANGED <<clock, ceiling, gRate, gTat, lock, gone, passed, gPassed, gSince, ceilings>>

(* The batch is processed, if its session is still the user's. *)
Process(p) ==
  /\ stage' = [stage EXCEPT ![p] = "idle"] /\ size' = [size EXCEPT ![p] = 0]
  /\ passed' = IF p \in gone THEN passed ELSE [passed EXCEPT ![p] = @ + size[p]]

Queue(p) ==
  /\ stage[p] = "own" /\ clock >= until[p]
  /\ until' = [until EXCEPT ![p] = 0]
  /\ IF ceiling = 0 THEN Process(p) /\ UNCHANGED lock
     ELSE /\ stage' = [stage EXCEPT ![p] = "queued"] /\ lock' = Append(lock, <<p, ceiling>>)
          /\ UNCHANGED <<passed, size>>
  /\ UNCHANGED <<clock, tat, ceiling, gRate, gTat, gone, gPassed, gSince, ceilings, offered>>

HasLock(p) == lock # <<>> /\ p = Head(lock)[1]

(* Mutant: the wait is computed, the booking not kept. *)
BooksNothing(p) ==
  /\ stage[p] = "queued" /\ HasLock(p)
  /\ LET r == Head(lock)[2] IN
     /\ gRate' = r /\ UNCHANGED gTat
     /\ gSince' = IF r = gRate THEN gSince ELSE clock
     /\ gPassed' = IF r = gRate THEN gPassed ELSE 0
     /\ until' = [until EXCEPT ![p] = Earliest(Reserve(gTat, size[p], r, Second), Second)]
  /\ stage' = [stage EXCEPT ![p] = "asleep"]
  /\ UNCHANGED <<clock, size, tat, ceiling, lock, gone, passed, ceilings, offered>>

(* With the lock: the bucket, made anew when the ceiling read before the      *)
(* queue is another than its own, is booked.                                  *)
Book(p) ==
  /\ stage[p] = "queued" /\ HasLock(p)
  /\ LET r == Head(lock)[2] IN
     /\ gRate' = r
     /\ gTat' = Reserve(IF r = gRate THEN gTat ELSE 0, size[p], r, Second)
     /\ gSince' = IF r = gRate THEN gSince ELSE clock
     /\ gPassed' = IF r = gRate THEN gPassed ELSE 0
     /\ until' = [until EXCEPT ![p] = Earliest(gTat', Second)]
  /\ stage' = [stage EXCEPT ![p] = "asleep"]
  /\ UNCHANGED <<clock, size, tat, ceiling, lock, gone, passed, ceilings, offered>>

Wake(p) ==
  /\ stage[p] = "asleep" /\ clock >= until[p]
  /\ lock' = Tail(lock) /\ gPassed' = gPassed + size[p]
  /\ Process(p) /\ until' = [until EXCEPT ![p] = 0]
  /\ UNCHANGED <<clock, tat, ceiling, gRate, gTat, gone, gSince, ceilings, offered>>

(* The connection closes, also while it waits: the lock is let go, what was  *)
(* booked stays booked.                                                      *)
Closes(p) ==
  /\ p \notin gone /\ gone' = gone \cup {p}
  /\ IF stage[p] \in {"queued", "asleep"}
     THEN /\ lock' = SelectSeq(lock, LAMBDA q : q[1] # p)
          /\ stage' = [stage EXCEPT ![p] = "idle"] /\ size' = [size EXCEPT ![p] = 0]
          /\ until' = [until EXCEPT ![p] = 0]
     ELSE UNCHANGED <<lock, stage, size, until>>
  /\ UNCHANGED <<clock, tat, ceiling, gRate, gTat, passed, gPassed, gSince, ceilings, offered>>

Next ==
  \/ Tick
  \/ \E r \in Ceilings : SetCeiling(r)
  \/ \E p \in Pubs :
       \/ \E n \in Sizes : Offer(p, n)
       \/ Queue(p) \/ Book(p) \/ Wake(p) \/ Closes(p)

-----------------------------------------------------------------------------
(* However its batches come, a connection has no more processed than the      *)
(* interval it was told allows, and one batch.                                *)
ConnectionHeld ==
  \A p \in Pubs : passed[p] * MinInterval <= BatchMax * (clock + MinInterval)

(* Since the server-wide bucket was made, no more than its ceiling and one     *)
(* second's worth has been processed, whoever waited, left or was replaced.    *)
CeilingHeld == gRate > 0 => gPassed * Second <= gRate * (clock - gSince + Second)

(* The pace of one connection and that of all of them.                     *)
PaceHeld == TypeOK /\ ConnectionHeld /\ CeilingHeld
=============================================================================
