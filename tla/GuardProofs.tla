----------------------------- MODULE GuardProofs -----------------------------
(* Proofs about five components of MCGuard: UdpBudget, for any rates,       *)
(* bursts, cap, callers and keys; NameHistory, for any queue, changes,      *)
(* crashes and losses; AdminAccess, for any tries, addresses, limits,       *)
(* window, sessions and connections; Warnings, for any peers, ring and      *)
(* windows; Activity, for any sources, handlers and table.                  *)
EXTENDS MCGuard, FiniteSetTheorems, SequenceTheorems, WellFoundedInduction, TLAPS

-----------------------------------------------------------------------------
(* Arithmetic. *)

(* A product grows with its factor. *)
LEMMA MulMonotone ==
  ASSUME NEW a \in Int, NEW b \in Int, NEW c \in Nat, a <= b
  PROVE  c * a <= c * b
BY SMT

(* A product with a successor. *)
LEMMA MulSuccessor ==
  ASSUME NEW r \in Int, NEW x \in Int
  PROVE  r * (x + 1) = r * x + r
OBVIOUS

(* What \div keeps of a length. *)
LEMMA DivBound ==
  ASSUME NEW n \in Nat
  PROVE  n \div Grain \in Nat /\ (n \div Grain) * Grain <= n
BY BudgetAssumption, SMT

(* Elapsed counts whole microseconds that have passed. *)
LEMMA ElapsedBound ==
  ASSUME NEW b \in Bucket, NEW t \in Nat
  PROVE  /\ Elapsed(b, t) \in Nat
         /\ Elapsed(b, t) * Grain \in Nat
         /\ t > b.last => b.last + Elapsed(b, t) * Grain <= t
         /\ t <= b.last => Elapsed(b, t) = 0
<1>0. b.last \in Nat /\ Grain \in Nat
  BY BudgetAssumption DEF Bucket
<1>1. CASE t > b.last
  <2>1. t - b.last \in Nat
    BY <1>0, <1>1
  <2>2. /\ (t - b.last) \div Grain \in Nat
        /\ ((t - b.last) \div Grain) * Grain <= t - b.last
    BY <2>1, DivBound
  <2>3. Elapsed(b, t) = (t - b.last) \div Grain
    BY <1>1 DEF Elapsed
  <2> QED
    BY <1>0, <1>1, <2>2, <2>3
<1>2. CASE ~(t > b.last)
  <2>1. Elapsed(b, t) = 0
    BY <1>2 DEF Elapsed
  <2> QED
    BY <1>0, <1>2, <2>1
<1> QED
  BY <1>1, <1>2

-----------------------------------------------------------------------------
(* TokenBucket. *)

(* Refill at a time not after c: the bucket is owed no more than           *)
(* before, and no less unless it is full.                                  *)
LEMMA RefillOwed ==
  ASSUME NEW b \in Bucket, NEW rate \in Nat, NEW burst \in Nat,
         NEW t \in Nat, NEW c \in Nat, t <= c, b.last <= c
  PROVE  /\ Refill(b, rate, burst, t) \in Bucket
         /\ Refill(b, rate, burst, t).last <= c
         /\ Refill(b, rate, burst, t).level <= burst
         /\ Owed(Refill(b, rate, burst, t), rate, c) <= Owed(b, rate, c)
         /\ Refill(b, rate, burst, t).level # burst =>
              Owed(Refill(b, rate, burst, t), rate, c) = Owed(b, rate, c)
<1> DEFINE e == Elapsed(b, t)
           r == Refill(b, rate, burst, t)
           full == b.level + e * rate
<1>0. b.last \in Nat /\ b.level \in Nat /\ Grain \in Nat
  BY BudgetAssumption DEF Bucket
<1>1. e \in Nat /\ e * Grain \in Nat /\ b.last + e * Grain <= c
  <2>1. CASE t > b.last
    BY <1>0, <2>1, ElapsedBound
  <2>2. CASE t <= b.last
    BY <1>0, <2>2, ElapsedBound
  <2> QED
    BY <1>0, <2>1, <2>2
<1>2. r = [level |-> AtMost(burst, full), last |-> b.last + e * Grain]
  BY DEF Refill
<1>3. full \in Nat /\ e * rate \in Nat
  BY <1>0, <1>1
<1>4. /\ AtMost(burst, full) \in Nat
      /\ AtMost(burst, full) <= burst
      /\ AtMost(burst, full) <= full
      /\ AtMost(burst, full) = full \/ AtMost(burst, full) = burst
  BY <1>3 DEF AtMost
<1>5. r.level = AtMost(burst, full) /\ r.last = b.last + e * Grain
  BY <1>2
<1>6. r \in Bucket
  BY <1>0, <1>1, <1>2, <1>4 DEF Bucket
<1> HIDE DEF e, r, full
<1>7. rate * (c - (b.last + e * Grain)) = rate * (c - b.last) - Grain * (e * rate)
  BY <1>0, <1>1, SMT
<1>8. Grain * r.level <= Grain * full
  BY <1>0, <1>3, <1>4, <1>5, MulMonotone
<1>9. Grain * full = Grain * b.level + Grain * (e * rate)
  BY <1>0, <1>1, <1>3, SMT DEF full
<1>10. Owed(r, rate, c) = Grain * r.level + rate * (c - b.last) - Grain * (e * rate)
  BY <1>0, <1>1, <1>3, <1>4, <1>5, <1>7, SMT DEF Owed
<1>11. Owed(b, rate, c) = Grain * full + rate * (c - b.last) - Grain * (e * rate)
  BY <1>0, <1>1, <1>3, <1>9, SMT DEF Owed
<1>12. /\ Grain * r.level \in Int /\ Grain * full \in Int
       /\ rate * (c - b.last) \in Int /\ Grain * (e * rate) \in Int
  BY <1>0, <1>1, <1>3, <1>4, <1>5
<1>13. Owed(r, rate, c) <= Owed(b, rate, c)
  BY <1>8, <1>10, <1>11, <1>12
<1>14. Owed(r, rate, c) = Owed(b, rate, c) \/ r.level = burst
  BY <1>4, <1>5, <1>10, <1>11
<1>15. r.level # burst => Owed(r, rate, c) = Owed(b, rate, c)
  BY <1>14
<1> QED
  BY <1>1, <1>4, <1>5, <1>6, <1>13, <1>15 DEF r

-----------------------------------------------------------------------------
(* The invariant holds initially. *)
LEMMA InitInv == Init => BudgetInv
<1> SUFFICES ASSUME Init PROVE BudgetInv
  OBVIOUS
<1> USE BudgetAssumption
<1>1. TypeOK
  BY DEF Init, TypeOK, NewBucket, Bucket, Pcs
<1>2. Known = {} /\ Inserting = {}
  BY DEF Init, Known, Inserting
<1>3. TimesKept
  BY <1>2 DEF Init, TimesKept, NewBucket
<1>4. Owed(global, GlobalRate, clock) = Grain * GlobalBurst
  BY DEF Init, Owed, NewBucket
<1>5. GlobalBalance /\ CreditsKept
  BY <1>4 DEF Init, GlobalBalance, CreditsKept
<1>6. SourceBalance
  BY DEF Init, SourceBalance
<1>7. EntriesLocked
  BY <1>2 DEF Init, EntriesLocked
<1>8. TableBounded
  BY <1>2, FS_EmptySet DEF Init, TableBounded
<1> QED
  BY <1>1, <1>3, <1>5, <1>6, <1>7, <1>8 DEF BudgetInv

-----------------------------------------------------------------------------
(* What a step that leaves a part of the state alone preserves. *)

(* Neither the server-wide bucket nor its history, nor the clock. *)
LEMMA GlobalUnchanged ==
  ASSUME GlobalBalance, CreditsKept, UNCHANGED <<clock, global, charged, ideal>>
  PROVE  GlobalBalance' /\ CreditsKept'
BY DEF GlobalBalance, CreditsKept, Owed

(* Neither the table nor its history, nor the clock. *)
LEMMA SourcesUnchanged ==
  ASSUME SourceBalance, UNCHANGED <<clock, sources, spent, drops>>
  PROVE  SourceBalance' /\ Known' = Known
BY DEF SourceBalance, Owed, Known, Allowance

(* Finite cardinalities. *)
LEMMA Sizes ==
  /\ IsFiniteSet(Known) /\ IsFiniteSet(Inserting)
  /\ IsFiniteSet(Known \ {dropping})
  /\ Cardinality(Known) \in Nat /\ Cardinality(Inserting) \in Nat
  /\ Cardinality(Known \ {dropping}) \in Nat
<1>1. Known \subseteq Keys /\ Inserting \subseteq Callers
  BY DEF Known, Inserting
<1>2. IsFiniteSet(Known) /\ IsFiniteSet(Inserting)
  BY <1>1, FS_Subset, BudgetAssumption
<1>3. IsFiniteSet(Known \ {dropping})
  BY <1>2, FS_Subset
<1> QED
  BY <1>2, <1>3, FS_CardinalityType

-----------------------------------------------------------------------------
(* The server-wide bucket. *)

(* A packet that arrives is dated now. *)
LEMMA ArriveInv ==
  ASSUME BudgetInv, NEW p \in Callers, NEW k \in Keys, NEW c \in Costs,
         Arrive(p, k, c)
  PROVE  BudgetInv'
<1> USE BudgetAssumption
<1>1. TypeOK'
  BY DEF BudgetInv, TypeOK, Arrive, Move, Pcs, sweep, history
<1>2. UNCHANGED <<clock, global, sources, entries, snow, dropping, charged,
                  ideal, spent, drops>>
  BY DEF Arrive, sweep, history
<1>3. GlobalBalance' /\ CreditsKept' /\ SourceBalance' /\ Known' = Known
  BY <1>2, GlobalUnchanged, SourcesUnchanged DEF BudgetInv
<1>4. TimesKept'
  BY <1>2, <1>3 DEF BudgetInv, TimesKept, TypeOK, Arrive, Move
<1>5. Inserting' = Inserting
  BY DEF BudgetInv, TypeOK, Arrive, Move, Inserting
<1>6. \A q \in Inserting : key'[q] = key[q]
  BY DEF BudgetInv, TypeOK, Arrive, Move, Inserting
<1>7. EntriesLocked'
  BY <1>2, <1>5, <1>6 DEF BudgetInv, EntriesLocked, IsFullAt
<1>8. TableBounded'
  BY <1>2, <1>3, <1>5 DEF BudgetInv, TableBounded
<1> QED
  BY <1>1, <1>3, <1>4, <1>7, <1>8 DEF BudgetInv

(* A caller that comes with an earlier time, or refuses, still leaves the  *)
(* bucket in balance.                                                      *)
LEMMA GlobalRefilled ==
  ASSUME BudgetInv, NEW p \in Callers, pc[p] = "global"
  PROVE  /\ GlobalNow(p) \in Bucket
         /\ GlobalNow(p).last <= clock
         /\ Grain * charged + Owed(GlobalNow(p), GlobalRate, clock)
              <= Grain * GlobalBurst + GlobalRate * clock
         /\ ideal <= Owed(GlobalNow(p), GlobalRate, clock)
<1> USE BudgetAssumption
<1> DEFINE r == GlobalNow(p)
<1>1. /\ global \in Bucket /\ now[p] \in Nat /\ clock \in Nat
      /\ now[p] <= clock /\ global.last <= clock
      /\ charged \in Int /\ ideal \in Int
  BY DEF BudgetInv, TypeOK, TimesKept
<1>2. /\ r \in Bucket /\ r.last <= clock /\ r.level <= GlobalBurst
      /\ Owed(r, GlobalRate, clock) <= Owed(global, GlobalRate, clock)
      /\ \/ Owed(r, GlobalRate, clock) = Owed(global, GlobalRate, clock)
         \/ r.level = GlobalBurst
  <2>1. r = Refill(global, GlobalRate, GlobalBurst, now[p])
    BY DEF GlobalNow
  <2>2. GlobalRate \in Nat /\ GlobalBurst \in Nat
    OBVIOUS
  <2> HIDE BudgetAssumption DEF r
  <2>3. r \in Bucket /\ r.last <= clock /\ r.level <= GlobalBurst
    BY <1>1, <2>1, <2>2, RefillOwed
  <2>4. Owed(r, GlobalRate, clock) <= Owed(global, GlobalRate, clock)
    BY <1>1, <2>1, <2>2, RefillOwed
  <2>5. r.level # GlobalBurst =>
          Owed(r, GlobalRate, clock) = Owed(global, GlobalRate, clock)
    BY <1>1, <2>1, <2>2, RefillOwed
  <2> QED
    BY <2>3, <2>4, <2>5
<1>3. r.level \in Nat /\ r.last \in Nat /\ global.level \in Nat /\ global.last \in Nat
  BY <1>1, <1>2 DEF Bucket
<1> HIDE DEF r
<1>4. /\ Owed(r, GlobalRate, clock) \in Int
      /\ Owed(global, GlobalRate, clock) \in Int
      /\ r.level = GlobalBurst => Owed(r, GlobalRate, clock) >= Grain * GlobalBurst
  <2>1. clock - r.last \in Nat
    BY <1>1, <1>2, <1>3
  <2>2. GlobalRate * (clock - r.last) \in Nat
    BY <2>1
  <2> QED
    BY <1>1, <1>3, <2>2 DEF Owed
<1>5. /\ Grain * charged + Owed(global, GlobalRate, clock)
           <= Grain * GlobalBurst + GlobalRate * clock
      /\ ideal <= Grain * GlobalBurst
      /\ ideal <= Owed(global, GlobalRate, clock)
  BY DEF BudgetInv, GlobalBalance, CreditsKept
<1>6. /\ Grain * charged \in Int /\ Grain * GlobalBurst \in Int
      /\ GlobalRate * clock \in Int
  BY <1>1
<1>7. ideal <= Owed(r, GlobalRate, clock)
  BY <1>1, <1>2, <1>4, <1>5, <1>6
<1>8. Grain * charged + Owed(r, GlobalRate, clock)
        <= Grain * GlobalBurst + GlobalRate * clock
  BY <1>2, <1>4, <1>5, <1>6
<1> QED
  BY <1>2, <1>7, <1>8 DEF r

(* Credits taken leave the bucket and enter the account. *)
LEMMA TakeGlobalInv ==
  ASSUME BudgetInv, NEW p \in Callers, TakeGlobal(p)
  PROVE  BudgetInv'
<1> USE BudgetAssumption
<1> DEFINE r == GlobalNow(p)
           c == cost[p]
<1>1. /\ r \in Bucket /\ r.last <= clock
      /\ Grain * charged + Owed(r, GlobalRate, clock)
           <= Grain * GlobalBurst + GlobalRate * clock
      /\ ideal <= Owed(r, GlobalRate, clock)
  BY GlobalRefilled DEF TakeGlobal, Move
<1>2. /\ c \in Nat /\ clock \in Nat /\ charged \in Int /\ ideal \in Int
      /\ r.level \in Nat /\ r.last \in Nat /\ c <= r.level
  BY <1>1 DEF BudgetInv, TypeOK, TakeGlobal, Bucket
<1>3. UNCHANGED <<clock, sources, entries, key, cost, now, snow, dropping, spent, drops>>
  BY DEF TakeGlobal, packet, sweep
<1>4. /\ global' = [level |-> r.level - c, last |-> r.last]
      /\ charged' = charged + c
      /\ ideal' = ideal - Grain * c
  BY <1>1 DEF TakeGlobal, Less, Bucket
<1>5. pc' = [pc EXCEPT ![p] = "source"] /\ pc[p] = "global"
  BY DEF TakeGlobal, Move
<1> HIDE DEF r, c
<1>6. global' \in Bucket /\ global'.level = r.level - c /\ global'.last = r.last
  BY <1>2, <1>4 DEF Bucket
<1>7. TypeOK'
  BY <1>2, <1>3, <1>4, <1>5, <1>6 DEF BudgetInv, TypeOK, Pcs
<1>8. Owed(global, GlobalRate, clock)' = Owed(r, GlobalRate, clock) - Grain * c
  BY <1>2, <1>3, <1>6, SMT DEF Owed
<1>9. GlobalBalance' /\ CreditsKept'
  <2>1. ideal <= Grain * GlobalBurst
    BY DEF BudgetInv, GlobalBalance
  <2>2. Owed(r, GlobalRate, clock) \in Int /\ Grain * c \in Nat
    BY <1>2 DEF Owed
  <2>3. Grain * charged' = Grain * charged + Grain * c
    BY <1>2, <1>4, SMT
  <2>4. Grain * charged \in Int /\ Grain * GlobalBurst \in Int /\ GlobalRate * clock \in Int
    BY <1>2
  <2>5. ideal' <= Owed(global, GlobalRate, clock)'
    BY <1>1, <1>2, <1>4, <1>8, <2>2
  <2>6. ideal' <= Grain * GlobalBurst
    BY <1>2, <1>4, <2>1, <2>2, <2>4
  <2>7. Grain * charged' + Owed(global, GlobalRate, clock)'
          <= Grain * GlobalBurst + GlobalRate * clock
    BY <1>1, <1>8, <2>2, <2>3, <2>4
  <2> QED
    BY <1>3, <2>5, <2>6, <2>7 DEF GlobalBalance, CreditsKept
<1>10. SourceBalance' /\ Known' = Known
  BY <1>3, SourcesUnchanged DEF BudgetInv
<1>11. TimesKept'
  BY <1>1, <1>3, <1>5, <1>6, <1>10 DEF BudgetInv, TimesKept, TypeOK
<1>12. Inserting' = Inserting
  BY <1>5 DEF BudgetInv, TypeOK, Inserting
<1>13. EntriesLocked' /\ TableBounded'
  BY <1>3, <1>10, <1>12 DEF BudgetInv, EntriesLocked, TableBounded, IsFullAt
<1> QED
  BY <1>7, <1>9, <1>10, <1>11, <1>13 DEF BudgetInv

(* A call that ends lets go of nothing but its packet. *)
LEMMA DoneKeeps ==
  ASSUME BudgetInv, NEW p \in Callers, NEW from \in Pcs, Done(p, from)
  PROVE  /\ pc' \in [Callers -> Pcs] /\ key' \in [Callers -> Keys \cup {NoKey}]
         /\ cost' \in [Callers -> Nat] /\ now' \in [Callers -> Nat]
         /\ pc[p] = from /\ pc'[p] = "idle"
         /\ \A q \in Callers \ {p} :
              pc'[q] = pc[q] /\ key'[q] = key[q] /\ now'[q] = now[q]
         /\ Inserting' = Inserting \ {p}
BY DEF BudgetInv, TypeOK, Done, Move, Pcs, Inserting

(* A refusal only refills the bucket. *)
LEMMA RefuseGlobalInv ==
  ASSUME BudgetInv, NEW p \in Callers, RefuseGlobal(p)
  PROVE  BudgetInv'
<1> USE BudgetAssumption
<1> DEFINE r == GlobalNow(p)
<1>1. /\ r \in Bucket /\ r.last <= clock
      /\ Grain * charged + Owed(r, GlobalRate, clock)
           <= Grain * GlobalBurst + GlobalRate * clock
      /\ ideal <= Owed(r, GlobalRate, clock)
  BY GlobalRefilled DEF RefuseGlobal, Done, Move
<1>2. /\ global' = r
      /\ UNCHANGED <<clock, sources, entries, snow, dropping, charged, ideal,
                     spent, drops>>
  BY DEF RefuseGlobal, sweep, history
<1> HIDE DEF r
<1>3. Done(p, "global")
  BY DEF RefuseGlobal
<1>4. /\ pc' \in [Callers -> Pcs] /\ key' \in [Callers -> Keys \cup {NoKey}]
      /\ cost' \in [Callers -> Nat] /\ now' \in [Callers -> Nat]
      /\ pc[p] = "global" /\ pc'[p] = "idle"
      /\ \A q \in Callers \ {p} :
           pc'[q] = pc[q] /\ key'[q] = key[q] /\ now'[q] = now[q]
      /\ Inserting' = Inserting \ {p}
  BY <1>3, DoneKeeps DEF Pcs
<1>5. TypeOK'
  BY <1>1, <1>2, <1>4 DEF BudgetInv, TypeOK
<1>6. GlobalBalance' /\ CreditsKept'
  BY <1>1, <1>2 DEF BudgetInv, GlobalBalance, CreditsKept, Owed
<1>7. SourceBalance' /\ Known' = Known
  BY <1>2, SourcesUnchanged DEF BudgetInv
<1>8. TimesKept'
  BY <1>1, <1>2, <1>4, <1>7 DEF BudgetInv, TimesKept
<1>9. Inserting' = Inserting
  BY <1>4 DEF Inserting
<1>10. \A q \in Inserting : key'[q] = key[q]
  BY <1>4, <1>9 DEF Inserting
<1>11. EntriesLocked' /\ TableBounded'
  BY <1>2, <1>7, <1>9, <1>10 DEF BudgetInv, EntriesLocked, TableBounded, IsFullAt
<1> QED
  BY <1>5, <1>6, <1>7, <1>8, <1>11 DEF BudgetInv

(* Credits given back go no higher than the burst, in the bucket as in    *)
(* the ideal one.                                                          *)
LEMMA RefundInv ==
  ASSUME BudgetInv, NEW p \in Callers, Refund(p)
  PROVE  BudgetInv'
<1> USE BudgetAssumption
<1> DEFINE c == cost[p]
<1>1. /\ c \in Nat /\ clock \in Nat /\ charged \in Int /\ ideal \in Int
      /\ global \in Bucket /\ global.level \in Nat /\ global.last \in Nat
      /\ global.last <= clock
  BY DEF BudgetInv, TypeOK, TimesKept, Bucket
<1>2. /\ global' = [level |-> AtMost(GlobalBurst, global.level + c), last |-> global.last]
      /\ charged' = charged - c
      /\ ideal' = AtMost(Grain * GlobalBurst, ideal + Grain * c)
      /\ UNCHANGED <<clock, sources, entries, snow, dropping, spent, drops>>
  BY <1>1 DEF Refund, Refunded, sweep, Bucket
<1>3. Done(p, "refund")
  BY DEF Refund
<1> HIDE DEF c
<1>4. /\ pc' \in [Callers -> Pcs] /\ key' \in [Callers -> Keys \cup {NoKey}]
      /\ cost' \in [Callers -> Nat] /\ now' \in [Callers -> Nat]
      /\ pc[p] = "refund" /\ pc'[p] = "idle"
      /\ \A q \in Callers \ {p} :
           pc'[q] = pc[q] /\ key'[q] = key[q] /\ now'[q] = now[q]
      /\ Inserting' = Inserting \ {p}
  BY <1>3, DoneKeeps DEF Pcs
<1> DEFINE l == AtMost(GlobalBurst, global.level + c)
           w == GlobalRate * (clock - global.last)
<1>5. /\ l \in Nat /\ l <= global.level + c
      /\ l = global.level + c \/ l = GlobalBurst
  BY <1>1 DEF AtMost
<1>6. global' \in Bucket /\ global'.level = l /\ global'.last = global.last
  BY <1>1, <1>2, <1>5 DEF Bucket
<1>7. w \in Nat
  <2>1. clock - global.last \in Nat
    BY <1>1
  <2> QED
    BY <2>1
<1>8. /\ Owed(global, GlobalRate, clock)' = Grain * l + w
      /\ Owed(global, GlobalRate, clock) = Grain * global.level + w
  BY <1>2, <1>6 DEF Owed
<1> HIDE DEF l, w
<1>9. /\ Grain * l \in Int /\ Grain * global.level \in Int /\ Grain * c \in Nat
      /\ Grain * charged \in Int /\ Grain * GlobalBurst \in Int
      /\ GlobalRate * clock \in Int
  BY <1>1, <1>5
<1>10. Grain * (global.level + c) = Grain * global.level + Grain * c
  BY <1>1, SMT
<1>11. Grain * l <= Grain * global.level + Grain * c
  BY <1>1, <1>5, <1>10, MulMonotone
<1>12. Grain * charged' = Grain * charged - Grain * c
  BY <1>1, <1>2, SMT
<1>13. /\ ideal' \in Int
       /\ ideal' <= Grain * GlobalBurst
       /\ ideal' <= ideal + Grain * c
  BY <1>1, <1>2, <1>9 DEF AtMost
<1>14. /\ Grain * charged + Owed(global, GlobalRate, clock)
            <= Grain * GlobalBurst + GlobalRate * clock
       /\ ideal <= Owed(global, GlobalRate, clock)
  BY DEF BudgetInv, GlobalBalance, CreditsKept
<1>15. ideal' <= Owed(global, GlobalRate, clock)'
  <2>1. CASE l = global.level + c
    BY <1>1, <1>7, <1>8, <1>9, <1>10, <1>13, <1>14, <2>1
  <2>2. CASE l = GlobalBurst
    BY <1>7, <1>8, <1>9, <1>13, <2>2
  <2> QED
    BY <1>5, <2>1, <2>2
<1>16. Grain * charged' + Owed(global, GlobalRate, clock)'
         <= Grain * GlobalBurst + GlobalRate * clock
  BY <1>7, <1>8, <1>9, <1>11, <1>12, <1>14
<1>17. GlobalBalance' /\ CreditsKept'
  BY <1>2, <1>13, <1>15, <1>16 DEF GlobalBalance, CreditsKept
<1>18. TypeOK'
  BY <1>1, <1>2, <1>4, <1>6, <1>13 DEF BudgetInv, TypeOK
<1>19. SourceBalance' /\ Known' = Known
  BY <1>2, SourcesUnchanged DEF BudgetInv
<1>20. TimesKept'
  BY <1>2, <1>4, <1>6, <1>19 DEF BudgetInv, TimesKept
<1>21. Inserting' = Inserting
  BY <1>4 DEF Inserting
<1>22. \A q \in Inserting : key'[q] = key[q]
  BY <1>4, <1>21 DEF Inserting
<1>23. EntriesLocked' /\ TableBounded'
  BY <1>2, <1>19, <1>21, <1>22 DEF BudgetInv, EntriesLocked, TableBounded, IsFullAt
<1> QED
  BY <1>17, <1>18, <1>19, <1>20, <1>23 DEF BudgetInv

-----------------------------------------------------------------------------
(* The table of sources. *)

(* Writing an entry that is in balance. *)
LEMMA EntryWritten ==
  ASSUME BudgetInv, NEW k \in Keys, NEW b \in Bucket, NEW n \in Nat,
         b.last <= clock,
         Grain * n + Owed(b, SourceRate, clock) <= Allowance(k),
         sources' = [sources EXCEPT ![k] = b],
         spent' = [spent EXCEPT ![k] = n],
         UNCHANGED <<clock, drops>>
  PROVE  /\ sources' \in [Keys -> Bucket \cup {NoBucket}]
         /\ spent' \in [Keys -> Nat]
         /\ SourceBalance'
         /\ Known' = Known \cup {k}
         /\ \A j \in Known' : sources'[j].last <= clock
<1>1. /\ sources \in [Keys -> Bucket \cup {NoBucket}]
      /\ spent \in [Keys -> Nat]
  BY DEF BudgetInv, TypeOK
<1>2. b # NoBucket
  BY NoBucketAssumption
<1>3. sources' \in [Keys -> Bucket \cup {NoBucket}] /\ spent' \in [Keys -> Nat]
  BY <1>1
<1>4. Known' = Known \cup {k}
  BY <1>1, <1>2 DEF Known
<1>5. sources'[k] = b /\ spent'[k] = n
  BY <1>1
<1>6. \A j \in Keys \ {k} : sources'[j] = sources[j] /\ spent'[j] = spent[j]
  BY <1>1
<1>7. \A j \in Known' : sources'[j].last <= clock
  BY <1>4, <1>5, <1>6 DEF BudgetInv, TimesKept, Known
<1>8. SourceBalance'
  <2> SUFFICES ASSUME NEW j \in Keys
               PROVE  /\ sources'[j] # NoBucket =>
                           Grain * spent'[j] + Owed(sources'[j], SourceRate, clock)
                             <= Allowance(j)
                      /\ sources'[j] = NoBucket =>
                           \/ drops[j] = 0 /\ spent'[j] = 0
                           \/ /\ drops[j] > 0
                              /\ Grain * spent'[j] <=
                                   SourceRate * (clock + MaxDelay * (drops[j] - 1))
    BY DEF SourceBalance, Owed, Allowance
  <2>1. CASE j = k
    BY <1>2, <1>5, <2>1
  <2>2. CASE j # k
    BY <1>6, <2>2 DEF BudgetInv, SourceBalance, Allowance
  <2> QED
    BY <2>1, <2>2
<1> QED
  BY <1>3, <1>4, <1>7, <1>8

(* A caller's refill of its source's bucket, whatever its time. *)
LEMMA SourceRefilled ==
  ASSUME BudgetInv, NEW p \in Callers, Occupied(p)
  PROVE  /\ key[p] \in Keys
         /\ SourceNow(p) \in Bucket
         /\ SourceNow(p).last <= clock
         /\ Grain * spent[key[p]] + Owed(SourceNow(p), SourceRate, clock)
              <= Allowance(key[p])
<1> DEFINE r == SourceNow(p)
           k == key[p]
           b == sources[k]
<1>1. /\ k \in Keys /\ now[p] \in Nat /\ clock \in Nat /\ now[p] <= clock
      /\ spent[k] \in Nat /\ drops[k] \in Nat
  BY DEF BudgetInv, TypeOK, TimesKept, Occupied
<1>2. b \in Bucket /\ b.last <= clock
  BY <1>1 DEF BudgetInv, TypeOK, TimesKept, Occupied, Known
<1>3. Grain * spent[k] + Owed(b, SourceRate, clock) <= Allowance(k)
  BY <1>1 DEF BudgetInv, SourceBalance, Occupied, Allowance
<1>4. r = Refill(b, SourceRate, SourceBurst, now[p])
  BY DEF SourceNow
<1>5. SourceRate \in Nat /\ SourceBurst \in Nat /\ Grain \in Nat /\ MaxDelay \in Nat
  BY BudgetAssumption
<1> HIDE DEF r, b, k
<1>6. r \in Bucket /\ r.last <= clock
  BY <1>1, <1>2, <1>4, <1>5, RefillOwed
<1>7. Owed(r, SourceRate, clock) <= Owed(b, SourceRate, clock)
  BY <1>1, <1>2, <1>4, <1>5, RefillOwed
<1>8. /\ Owed(r, SourceRate, clock) \in Int /\ Owed(b, SourceRate, clock) \in Int
      /\ Grain * spent[k] \in Int /\ Allowance(k) \in Int
  BY <1>1, <1>2, <1>5, <1>6 DEF Owed, Bucket, Allowance
<1>9. Grain * spent[k] + Owed(r, SourceRate, clock) <= Allowance(k)
  BY <1>3, <1>7, <1>8
<1> QED
  BY <1>1, <1>6, <1>9 DEF r, k

(* A new bucket is in balance, though dated back by the caller's delay. *)
LEMMA FreshBalance ==
  ASSUME BudgetInv, NEW p \in Callers, pc[p] = "insert"
  PROVE  /\ key[p] \in Keys /\ sources[key[p]] = NoBucket
         /\ NewBucket(SourceBurst, now[p]) \in Bucket
         /\ now[p] <= clock
         /\ Grain * spent[key[p]] + Owed(NewBucket(SourceBurst, now[p]), SourceRate, clock)
              <= Allowance(key[p])
<1> DEFINE k == key[p]
           n == now[p]
           s == spent[k]
           d == drops[k]
<1>1. /\ k \in Keys /\ n \in Nat /\ clock \in Nat /\ n <= clock
      /\ clock - n <= MaxDelay /\ s \in Nat /\ d \in Nat
  BY DEF BudgetInv, TypeOK, TimesKept
<1>2. sources[k] = NoBucket
  BY DEF BudgetInv, EntriesLocked, Inserting
<1>3. \/ d = 0 /\ s = 0
      \/ d > 0 /\ Grain * s <= SourceRate * (clock + MaxDelay * (d - 1))
  BY <1>1, <1>2 DEF BudgetInv, SourceBalance
<1>4. SourceRate \in Nat /\ SourceBurst \in Nat /\ Grain \in Nat /\ MaxDelay \in Nat
  BY BudgetAssumption
<1>5. NewBucket(SourceBurst, n) \in Bucket
  BY <1>1, <1>4 DEF NewBucket, Bucket
<1>6. Owed(NewBucket(SourceBurst, n), SourceRate, clock)
        = Grain * SourceBurst + SourceRate * (clock - n)
  BY DEF Owed, NewBucket
<1>7. Allowance(k) = Grain * SourceBurst + SourceRate * (clock + MaxDelay * d)
  BY DEF Allowance
<1> HIDE DEF k, n, s, d
<1>8. Grain * s + SourceRate * (clock - n) <= SourceRate * (clock + MaxDelay * d)
  <2>1. CASE d = 0 /\ s = 0
    <3>1. SourceRate * (clock - n) <= SourceRate * clock
      BY <1>1, <1>4, MulMonotone
    <3>2. Grain * s = 0 /\ clock + MaxDelay * d = clock
      BY <1>1, <1>4, <2>1
    <3> QED
      BY <1>1, <1>4, <3>1, <3>2
  <2>2. CASE d > 0 /\ Grain * s <= SourceRate * (clock + MaxDelay * (d - 1))
    <3>1. SourceRate * (clock - n) <= SourceRate * MaxDelay
      BY <1>1, <1>4, MulMonotone
    <3>2. SourceRate * (clock + MaxDelay * d)
            = SourceRate * (clock + MaxDelay * (d - 1)) + SourceRate * MaxDelay
      BY <1>1, <1>4, SMT
    <3>3. /\ Grain * s \in Int /\ SourceRate * (clock - n) \in Int
          /\ SourceRate * MaxDelay \in Int
          /\ SourceRate * (clock + MaxDelay * (d - 1)) \in Int
      BY <1>1, <1>4
    <3> QED
      BY <2>2, <3>1, <3>2, <3>3
  <2> QED
    BY <1>3, <2>1, <2>2
<1>9. /\ Grain * s \in Int /\ SourceRate * (clock - n) \in Int
      /\ Grain * SourceBurst \in Int
      /\ SourceRate * (clock + MaxDelay * d) \in Int
  BY <1>1, <1>4
<1>10. Grain * s + Owed(NewBucket(SourceBurst, n), SourceRate, clock) <= Allowance(k)
  BY <1>6, <1>7, <1>8, <1>9
<1> QED
  BY <1>1, <1>2, <1>5, <1>10 DEF k, n, s

(* A packet that is served moves its cost from the source's bucket to its  *)
(* account.                                                                *)
LEMMA TakeSourceInv ==
  ASSUME BudgetInv, NEW p \in Callers, TakeSource(p)
  PROVE  BudgetInv'
<1> DEFINE k == key[p]
           r == SourceNow(p)
           c == cost[p]
           b == Less(r, c)
<1>1. Occupied(p) /\ Done(p, "source") /\ c <= r.level /\ sources[k] # NoBucket
      /\ k # dropping
  BY SourceRefilled DEF TakeSource, Occupied, Locked, BudgetInv, TypeOK, Bucket
<1>2. /\ k \in Keys /\ r \in Bucket /\ r.last <= clock
      /\ Grain * spent[k] + Owed(r, SourceRate, clock) <= Allowance(k)
  BY <1>1, SourceRefilled
<1>3. /\ c \in Nat /\ r.level \in Nat /\ r.last \in Nat /\ spent[k] \in Nat
      /\ drops[k] \in Nat /\ clock \in Nat
  BY <1>2 DEF BudgetInv, TypeOK, Bucket
<1>4. /\ sources' = [sources EXCEPT ![k] = b]
      /\ spent' = [spent EXCEPT ![k] = spent[k] + c]
      /\ UNCHANGED <<clock, global, entries, snow, dropping, charged, ideal, drops>>
  BY DEF TakeSource, Serve, sweep
<1>5. b = [level |-> r.level - c, last |-> r.last]
  BY <1>2 DEF Less, Bucket
<1>6. Grain \in Nat /\ SourceRate \in Nat /\ SourceBurst \in Nat /\ MaxDelay \in Nat
  BY BudgetAssumption
<1> HIDE DEF k, r, c, b
<1>7. b \in Bucket /\ b.level = r.level - c /\ b.last = r.last
  BY <1>1, <1>3, <1>5 DEF Bucket
<1>8. Grain * (spent[k] + c) + Owed(b, SourceRate, clock) <= Allowance(k)
  <2>1. Owed(b, SourceRate, clock) = Owed(r, SourceRate, clock) - Grain * c
    BY <1>3, <1>6, <1>7, SMT DEF Owed
  <2>2. Grain * (spent[k] + c) = Grain * spent[k] + Grain * c
    BY <1>3, <1>6, SMT
  <2>3. /\ Grain * spent[k] \in Int /\ Grain * c \in Int
        /\ Owed(r, SourceRate, clock) \in Int /\ Allowance(k) \in Int
    BY <1>3, <1>6 DEF Owed, Allowance
  <2> QED
    BY <1>2, <2>1, <2>2, <2>3
<1>9. spent[k] + c \in Nat /\ b.last <= clock
  BY <1>2, <1>3, <1>7
<1>10. /\ sources' \in [Keys -> Bucket \cup {NoBucket}]
       /\ spent' \in [Keys -> Nat]
       /\ SourceBalance'
       /\ Known' = Known \cup {k}
       /\ \A j \in Known' : sources'[j].last <= clock
  BY <1>2, <1>4, <1>7, <1>8, <1>9, EntryWritten
<1>11. Known' = Known
  BY <1>1, <1>2, <1>10 DEF Known
<1>12. /\ pc' \in [Callers -> Pcs] /\ key' \in [Callers -> Keys \cup {NoKey}]
       /\ cost' \in [Callers -> Nat] /\ now' \in [Callers -> Nat]
       /\ pc[p] = "source" /\ pc'[p] = "idle"
       /\ \A q \in Callers \ {p} :
            pc'[q] = pc[q] /\ key'[q] = key[q] /\ now'[q] = now[q]
       /\ Inserting' = Inserting \ {p}
  BY <1>1, DoneKeeps DEF Pcs
<1>13. TypeOK'
  BY <1>4, <1>10, <1>12 DEF BudgetInv, TypeOK
<1>14. GlobalBalance' /\ CreditsKept'
  BY <1>4, GlobalUnchanged DEF BudgetInv
<1>15. TimesKept'
  BY <1>4, <1>10, <1>12 DEF BudgetInv, TimesKept
<1>16. Inserting' = Inserting
  BY <1>12 DEF Inserting
<1>17. \A q \in Inserting : key'[q] = key[q] /\ key[q] \in Keys /\ key[q] # k
  BY <1>1, <1>12, <1>16 DEF Inserting, BudgetInv, EntriesLocked, TimesKept
<1>18. \A j \in Keys \ {k} : sources'[j] = sources[j]
  BY <1>4 DEF BudgetInv, TypeOK
<1>19. EntriesLocked'
  BY <1>1, <1>4, <1>16, <1>17, <1>18
     DEF BudgetInv, EntriesLocked, IsFullAt, TypeOK
<1>20. TableBounded'
  BY <1>4, <1>11, <1>16 DEF BudgetInv, TableBounded
<1> QED
  BY <1>10, <1>13, <1>14, <1>15, <1>19, <1>20 DEF BudgetInv

(* A refusal only refills the source's bucket. *)
LEMMA RefuseSourceInv ==
  ASSUME BudgetInv, NEW p \in Callers, RefuseSource(p)
  PROVE  BudgetInv'
<1> DEFINE k == key[p]
           r == SourceNow(p)
<1>1. Occupied(p) /\ sources[k] # NoBucket /\ k # dropping /\ pc[p] = "source"
  BY DEF RefuseSource, Occupied, Locked
<1>2. /\ k \in Keys /\ r \in Bucket /\ r.last <= clock
      /\ Grain * spent[k] + Owed(r, SourceRate, clock) <= Allowance(k)
  BY <1>1, SourceRefilled
<1>3. /\ sources' = [sources EXCEPT ![k] = r]
      /\ pc' = [pc EXCEPT ![p] = "refund"]
      /\ UNCHANGED <<clock, global, entries, key, cost, now, snow, dropping,
                     charged, ideal, spent, drops>>
  BY DEF RefuseSource, Move, packet, sweep, history
<1>4. spent[k] \in Nat /\ spent' = [spent EXCEPT ![k] = spent[k]]
  BY <1>2, <1>3 DEF BudgetInv, TypeOK
<1> HIDE DEF k, r
<1>5. /\ sources' \in [Keys -> Bucket \cup {NoBucket}]
      /\ spent' \in [Keys -> Nat]
      /\ SourceBalance'
      /\ Known' = Known \cup {k}
      /\ \A j \in Known' : sources'[j].last <= clock
  BY <1>2, <1>3, <1>4, EntryWritten
<1>6. Known' = Known
  BY <1>1, <1>2, <1>5 DEF Known
<1>7. TypeOK'
  BY <1>3, <1>5 DEF BudgetInv, TypeOK, Pcs
<1>8. GlobalBalance' /\ CreditsKept'
  BY <1>3, GlobalUnchanged DEF BudgetInv
<1>9. TimesKept'
  BY <1>1, <1>3, <1>5 DEF BudgetInv, TimesKept, TypeOK
<1>10. Inserting' = Inserting
  BY <1>1, <1>3 DEF BudgetInv, TypeOK, Inserting
<1>11. \A q \in Inserting : key[q] \in Keys /\ key[q] # k
  BY <1>1 DEF Inserting, BudgetInv, EntriesLocked, TimesKept
<1>12. \A j \in Keys \ {k} : sources'[j] = sources[j]
  BY <1>3 DEF BudgetInv, TypeOK
<1>13. EntriesLocked'
  BY <1>1, <1>3, <1>10, <1>11, <1>12 DEF BudgetInv, EntriesLocked, IsFullAt, TypeOK
<1>14. TableBounded'
  BY <1>3, <1>6, <1>10 DEF BudgetInv, TableBounded
<1> QED
  BY <1>5, <1>7, <1>8, <1>9, <1>13, <1>14 DEF BudgetInv

(* A slot is reserved for an entry that nobody else is inserting. *)
LEMMA ReserveEntryInv ==
  ASSUME BudgetInv, NEW p \in Callers, ReserveEntry(p)
  PROVE  BudgetInv'
<1>1. /\ pc[p] = "source" /\ sources[key[p]] = NoBucket /\ ~Locked(key[p])
      /\ entries < Cap /\ entries' = entries + 1
      /\ pc' = [pc EXCEPT ![p] = "insert"]
      /\ UNCHANGED <<clock, global, sources, key, cost, now, snow, dropping,
                     charged, ideal, spent, drops>>
  BY DEF ReserveEntry, Vacant, Move, packet, sweep, history
<1>2. TypeOK'
  BY <1>1 DEF BudgetInv, TypeOK, Pcs
<1>3. GlobalBalance' /\ CreditsKept' /\ SourceBalance' /\ Known' = Known
  BY <1>1, GlobalUnchanged, SourcesUnchanged DEF BudgetInv
<1>4. TimesKept'
  BY <1>1, <1>3 DEF BudgetInv, TimesKept, TypeOK
<1>5. Inserting' = Inserting \cup {p} /\ p \notin Inserting
  BY <1>1 DEF BudgetInv, TypeOK, Inserting
<1>6. \A q \in Inserting : key[q] # key[p]
  BY <1>1 DEF Locked, Inserting
<1>7. EntriesLocked'
  BY <1>1, <1>5, <1>6 DEF BudgetInv, EntriesLocked, IsFullAt
<1>8. Cardinality(Inserting') = Cardinality(Inserting) + 1
  BY <1>5, Sizes, FS_AddElement
<1>9. TableBounded'
  BY <1>1, <1>3, <1>8, Sizes, BudgetAssumption DEF BudgetInv, TableBounded, TypeOK
<1> QED
  BY <1>2, <1>3, <1>4, <1>7, <1>9 DEF BudgetInv

(* A packet the table has no slot for changes no bucket. *)
LEMMA TableFullInv ==
  ASSUME BudgetInv, NEW p \in Callers, TableFull(p)
  PROVE  BudgetInv'
<1>1. /\ pc[p] = "source"
      /\ pc' = [pc EXCEPT ![p] = "refund"]
      /\ UNCHANGED <<clock, global, sources, entries, key, cost, now, snow,
                     dropping, charged, ideal, spent, drops>>
  BY DEF TableFull, Vacant, Move, packet, sweep, history
<1>2. TypeOK'
  BY <1>1 DEF BudgetInv, TypeOK, Pcs
<1>3. GlobalBalance' /\ CreditsKept' /\ SourceBalance' /\ Known' = Known
  BY <1>1, GlobalUnchanged, SourcesUnchanged DEF BudgetInv
<1>4. TimesKept'
  BY <1>1, <1>3 DEF BudgetInv, TimesKept, TypeOK
<1>5. Inserting' = Inserting
  BY <1>1 DEF BudgetInv, TypeOK, Inserting
<1>6. EntriesLocked' /\ TableBounded'
  BY <1>1, <1>3, <1>5 DEF BudgetInv, EntriesLocked, TableBounded, IsFullAt
<1> QED
  BY <1>2, <1>3, <1>4, <1>6 DEF BudgetInv

(* The entry that is inserted leaves Inserting and enters the table: the   *)
(* slot reserved for it is the slot it takes.                              *)
LEMMA InsertedSizes ==
  ASSUME BudgetInv, NEW p \in Callers, pc[p] = "insert",
         Known' = Known \cup {key[p]}, Inserting' = Inserting \ {p},
         UNCHANGED <<entries, dropping>>
  PROVE  TableBounded'
<1> DEFINE K == Known \ {dropping}
<1>1. p \in Inserting /\ key[p] \in Keys /\ sources[key[p]] = NoBucket
  BY DEF BudgetInv, TimesKept, EntriesLocked, Inserting
<1>2. key[p] # dropping
  BY <1>1, BudgetAssumption DEF BudgetInv, EntriesLocked
<1>3. key[p] \notin K
  BY <1>1 DEF Known
<1>4. Known' \ {dropping} = K \cup {key[p]}
  BY <1>2
<1>5. /\ IsFiniteSet(K) /\ IsFiniteSet(Inserting)
      /\ Cardinality(K) \in Nat /\ Cardinality(Inserting) \in Nat
  BY Sizes
<1> HIDE DEF K
<1>6. Cardinality(K \cup {key[p]}) = Cardinality(K) + 1
  BY <1>3, <1>5, FS_AddElement
<1>7. Cardinality(Inserting \ {p}) = Cardinality(Inserting) - 1
  BY <1>1, <1>5, FS_RemoveElement
<1>8. entries = Cardinality(K) + Cardinality(Inserting) /\ entries <= Cap
  BY Zenon DEF BudgetInv, TableBounded, K
<1>9. entries = Cardinality(K \cup {key[p]}) + Cardinality(Inserting \ {p})
  <2> DEFINE m == Cardinality(K)
             n == Cardinality(Inserting)
  <2>1. m \in Nat /\ n \in Nat /\ entries = m + n
    BY <1>5, <1>8
  <2>2. /\ Cardinality(K \cup {key[p]}) = m + 1
        /\ Cardinality(Inserting \ {p}) = n - 1
    BY <1>6, <1>7
  <2> HIDE DEF m, n
  <2>3. m + n = (m + 1) + (n - 1)
    BY <2>1
  <2> QED
    BY <2>1, <2>2, <2>3
<1>10. entries' = entries /\ dropping' = dropping
  OBVIOUS
<1>11. entries' = Cardinality(Known' \ {dropping'}) + Cardinality(Inserting')
  BY <1>4, <1>9, <1>10, Zenon
<1> QED
  BY <1>8, <1>10, <1>11, Zenon DEF TableBounded

(* The new entry is served its first packet. *)
LEMMA InsertSourceInv ==
  ASSUME BudgetInv, NEW p \in Callers, InsertSource(p)
  PROVE  BudgetInv'
<1> DEFINE k == key[p]
           c == cost[p]
           f == NewBucket(SourceBurst, now[p])
           b == Less(f, c)
<1>1. Done(p, "insert") /\ pc[p] = "insert" /\ c <= SourceBurst
  BY BudgetAssumption DEF InsertSource, Done, Move, BudgetInv, TypeOK
<1>2. /\ k \in Keys /\ sources[k] = NoBucket /\ f \in Bucket /\ now[p] <= clock
      /\ Grain * spent[k] + Owed(f, SourceRate, clock) <= Allowance(k)
  BY <1>1, FreshBalance
<1>3. /\ c \in Nat /\ now[p] \in Nat /\ spent[k] \in Nat /\ drops[k] \in Nat
      /\ clock \in Nat
  BY <1>2 DEF BudgetInv, TypeOK
<1>4. /\ sources' = [sources EXCEPT ![k] = b]
      /\ spent' = [spent EXCEPT ![k] = spent[k] + c]
      /\ UNCHANGED <<clock, global, entries, snow, dropping, charged, ideal, drops>>
  BY DEF InsertSource, Serve, sweep
<1>5. /\ f.level = SourceBurst /\ f.last = now[p]
      /\ b = [level |-> SourceBurst - c, last |-> now[p]]
  BY DEF Less, NewBucket
<1>6. Grain \in Nat /\ SourceRate \in Nat /\ SourceBurst \in Nat /\ MaxDelay \in Nat
  BY BudgetAssumption
<1> HIDE DEF k, c, f, b
<1>7. b \in Bucket /\ b.level = SourceBurst - c /\ b.last = now[p]
  BY <1>1, <1>3, <1>5, <1>6 DEF Bucket
<1>8. Grain * (spent[k] + c) + Owed(b, SourceRate, clock) <= Allowance(k)
  <2>1. Owed(b, SourceRate, clock) = Owed(f, SourceRate, clock) - Grain * c
    BY <1>3, <1>5, <1>6, <1>7, SMT DEF Owed
  <2>2. Grain * (spent[k] + c) = Grain * spent[k] + Grain * c
    BY <1>3, <1>6, SMT
  <2>3. /\ Grain * spent[k] \in Int /\ Grain * c \in Int
        /\ Owed(f, SourceRate, clock) \in Int /\ Allowance(k) \in Int
    BY <1>3, <1>5, <1>6 DEF Owed, Allowance
  <2> QED
    BY <1>2, <2>1, <2>2, <2>3
<1>9. spent[k] + c \in Nat /\ b.last <= clock
  BY <1>2, <1>3, <1>7
<1>10. /\ sources' \in [Keys -> Bucket \cup {NoBucket}]
       /\ spent' \in [Keys -> Nat]
       /\ SourceBalance'
       /\ Known' = Known \cup {k}
       /\ \A j \in Known' : sources'[j].last <= clock
  BY <1>2, <1>4, <1>7, <1>8, <1>9, EntryWritten
<1>11. /\ pc' \in [Callers -> Pcs] /\ key' \in [Callers -> Keys \cup {NoKey}]
       /\ cost' \in [Callers -> Nat] /\ now' \in [Callers -> Nat]
       /\ pc'[p] = "idle"
       /\ \A q \in Callers \ {p} :
            pc'[q] = pc[q] /\ key'[q] = key[q] /\ now'[q] = now[q]
       /\ Inserting' = Inserting \ {p}
  BY <1>1, DoneKeeps DEF Pcs
<1>12. TypeOK'
  BY <1>4, <1>10, <1>11 DEF BudgetInv, TypeOK
<1>13. GlobalBalance' /\ CreditsKept'
  BY <1>4, GlobalUnchanged DEF BudgetInv
<1>14. TimesKept'
  BY <1>4, <1>10, <1>11 DEF BudgetInv, TimesKept
<1>15. \A q \in Inserting' : key'[q] = key[q] /\ key[q] \in Keys /\ key[q] # k
  BY <1>1, <1>11 DEF Inserting, BudgetInv, EntriesLocked, TimesKept, k
<1>16. \A j \in Keys \ {k} : sources'[j] = sources[j]
  BY <1>4 DEF BudgetInv, TypeOK
<1>17. dropping # k \/ dropping = NoKey
  BY <1>2 DEF BudgetInv, EntriesLocked
<1>18. EntriesLocked'
  <2>1. \A q \in Inserting' : sources'[key'[q]] = NoBucket
    BY <1>11, <1>15, <1>16 DEF BudgetInv, EntriesLocked
  <2>2. \A q, o \in Inserting' : key'[q] = key'[o] => q = o
    BY <1>11, <1>15 DEF BudgetInv, EntriesLocked
  <2>3. dropping # NoKey => sources'[dropping] = sources[dropping]
    BY <1>16, <1>17 DEF BudgetInv, TypeOK
  <2> QED
    BY <1>4, <2>1, <2>2, <2>3 DEF BudgetInv, EntriesLocked, IsFullAt
<1>19. TableBounded'
  BY <1>1, <1>4, <1>10, <1>11, InsertedSizes DEF k
<1> QED
  BY <1>10, <1>12, <1>13, <1>14, <1>18, <1>19 DEF BudgetInv

(* The new entry stays full when its packet costs more than it holds. *)
LEMMA InsertRefusedInv ==
  ASSUME BudgetInv, NEW p \in Callers, InsertRefused(p)
  PROVE  BudgetInv'
<1> DEFINE k == key[p]
           f == NewBucket(SourceBurst, now[p])
<1>1. /\ pc[p] = "insert" /\ pc' = [pc EXCEPT ![p] = "refund"]
      /\ sources' = [sources EXCEPT ![k] = f]
      /\ UNCHANGED <<clock, global, entries, key, cost, now, snow, dropping,
                     charged, ideal, spent, drops>>
  BY DEF InsertRefused, Move, packet, sweep, history
<1>2. /\ k \in Keys /\ sources[k] = NoBucket /\ f \in Bucket /\ now[p] <= clock
      /\ Grain * spent[k] + Owed(f, SourceRate, clock) <= Allowance(k)
  BY <1>1, FreshBalance
<1>3. f.last <= clock
  BY <1>2 DEF NewBucket
<1>4. spent[k] \in Nat /\ spent' = [spent EXCEPT ![k] = spent[k]]
  BY <1>1, <1>2 DEF BudgetInv, TypeOK
<1> HIDE DEF k, f
<1>5. /\ sources' \in [Keys -> Bucket \cup {NoBucket}]
      /\ spent' \in [Keys -> Nat]
      /\ SourceBalance'
      /\ Known' = Known \cup {k}
      /\ \A j \in Known' : sources'[j].last <= clock
  BY <1>1, <1>2, <1>3, <1>4, EntryWritten
<1>6. TypeOK'
  BY <1>1, <1>5 DEF BudgetInv, TypeOK, Pcs
<1>7. GlobalBalance' /\ CreditsKept'
  BY <1>1, GlobalUnchanged DEF BudgetInv
<1>8. TimesKept'
  BY <1>1, <1>5 DEF BudgetInv, TimesKept, TypeOK
<1>9. Inserting' = Inserting \ {p}
  BY <1>1 DEF BudgetInv, TypeOK, Inserting
<1>10. \A q \in Inserting' : key[q] \in Keys /\ key[q] # k
  BY <1>1, <1>9 DEF Inserting, BudgetInv, EntriesLocked, TimesKept, k
<1>11. \A j \in Keys \ {k} : sources'[j] = sources[j]
  BY <1>1 DEF BudgetInv, TypeOK
<1>12. dropping # k \/ dropping = NoKey
  BY <1>2 DEF BudgetInv, EntriesLocked
<1>13. EntriesLocked'
  <2>1. \A q \in Inserting' : sources'[key[q]] = NoBucket
    BY <1>9, <1>10, <1>11 DEF BudgetInv, EntriesLocked
  <2>2. dropping # NoKey => sources'[dropping] = sources[dropping]
    BY <1>11, <1>12 DEF BudgetInv, TypeOK
  <2> QED
    BY <1>1, <1>9, <2>1, <2>2 DEF BudgetInv, EntriesLocked, IsFullAt
<1>14. TableBounded'
  BY <1>1, <1>5, <1>9, InsertedSizes DEF k
<1> QED
  BY <1>5, <1>6, <1>7, <1>8, <1>13, <1>14 DEF BudgetInv

-----------------------------------------------------------------------------
(* The sweep and the clock. *)

(* A sweep begins. *)
LEMMA SweepStartInv ==
  ASSUME BudgetInv, SweepStart
  PROVE  BudgetInv'
<1>1. /\ dropping = NoKey /\ snow' = clock
      /\ UNCHANGED <<clock, global, sources, entries, pc, key, cost, now,
                     dropping, charged, ideal, spent, drops>>
  BY DEF SweepStart, packet, history
<1>2. TypeOK'
  BY <1>1 DEF BudgetInv, TypeOK
<1>3. GlobalBalance' /\ CreditsKept' /\ SourceBalance' /\ Known' = Known
  BY <1>1, GlobalUnchanged, SourcesUnchanged DEF BudgetInv
<1>4. TimesKept'
  BY <1>1, <1>3 DEF BudgetInv, TimesKept, TypeOK
<1>5. Inserting' = Inserting
  BY <1>1 DEF Inserting
<1>6. EntriesLocked' /\ TableBounded'
  BY <1>1, <1>3, <1>5 DEF BudgetInv, EntriesLocked, TableBounded
<1> QED
  BY <1>2, <1>3, <1>4, <1>6 DEF BudgetInv

(* An entry that is full gives its slot back. *)
LEMMA SweepReleaseInv ==
  ASSUME BudgetInv, NEW k \in Keys, SweepRelease(k)
  PROVE  BudgetInv'
<1>1. /\ dropping = NoKey /\ sources[k] # NoBucket /\ ~Locked(k)
      /\ IsFullAt(sources[k], snow)
      /\ dropping' = k /\ entries' = entries - 1
      /\ UNCHANGED <<clock, global, sources, pc, key, cost, now, snow, charged,
                     ideal, spent, drops>>
  BY DEF SweepRelease, packet, history
<1>2. GlobalBalance' /\ CreditsKept' /\ SourceBalance' /\ Known' = Known
  BY <1>1, GlobalUnchanged, SourcesUnchanged DEF BudgetInv
<1>3. TimesKept'
  BY <1>1, <1>2 DEF BudgetInv, TimesKept
<1>4. Inserting' = Inserting
  BY <1>1 DEF Inserting
<1>5. EntriesLocked'
  BY <1>1, <1>4 DEF BudgetInv, EntriesLocked, IsFullAt
<1>6. k \in Known /\ Known \ {dropping} = Known
  BY <1>1, BudgetAssumption DEF Known
<1>7. Cardinality(Known \ {k}) = Cardinality(Known) - 1
  BY <1>6, Sizes, FS_RemoveElement
<1>8. entries = Cardinality(Known) + Cardinality(Inserting) /\ entries <= Cap
  BY <1>6 DEF BudgetInv, TableBounded
<1>9. Cardinality(Known \ {k}) \in Nat
  BY Sizes, FS_Subset, FS_CardinalityType
<1>10. entries' = Cardinality(Known \ {k}) + Cardinality(Inserting)
  BY <1>1, <1>7, <1>8, Sizes
<1>11. entries' \in Nat /\ entries' <= Cap
  BY <1>1, <1>8, <1>9, <1>10, Sizes, BudgetAssumption DEF BudgetInv, TypeOK
<1>12. TableBounded'
  BY <1>1, <1>2, <1>4, <1>10, <1>11 DEF TableBounded
<1>13. TypeOK'
  BY <1>1, <1>11 DEF BudgetInv, TypeOK
<1> QED
  BY <1>2, <1>3, <1>5, <1>12, <1>13 DEF BudgetInv

(* Forgetting a full bucket: what its source was served is covered by the  *)
(* rate alone, so that the burst of the next bucket is not given twice.    *)
LEMMA ForgottenBalance ==
  ASSUME BudgetInv, dropping # NoKey
  PROVE  /\ dropping \in Keys
         /\ Grain * spent[dropping] <=
              SourceRate * (clock + MaxDelay * drops[dropping])
<1> DEFINE k == dropping
           b == sources[k]
           r == Refill(b, SourceRate, SourceBurst, snow)
<1>1. /\ k \in Keys /\ b # NoBucket /\ clock \in Nat /\ snow \in Nat
      /\ snow <= clock /\ spent[k] \in Nat /\ drops[k] \in Nat
      /\ r.level >= SourceBurst
  BY DEF BudgetInv, TypeOK, TimesKept, EntriesLocked, IsFullAt
<1>2. b \in Bucket /\ b.last <= clock
  BY <1>1 DEF BudgetInv, TypeOK, TimesKept, Known
<1>3. Grain * spent[k] + Owed(b, SourceRate, clock) <= Allowance(k)
  BY <1>1 DEF BudgetInv, SourceBalance
<1>4. SourceRate \in Nat /\ SourceBurst \in Nat /\ Grain \in Nat /\ MaxDelay \in Nat
  BY BudgetAssumption
<1>5. Allowance(k) = Grain * SourceBurst + SourceRate * (clock + MaxDelay * drops[k])
  BY DEF Allowance
<1> HIDE DEF k, b
<1>6. r \in Bucket /\ r.last <= clock
  BY <1>1, <1>2, <1>4, RefillOwed
<1>7. Owed(r, SourceRate, clock) <= Owed(b, SourceRate, clock)
  BY <1>1, <1>2, <1>4, RefillOwed
<1> HIDE DEF r
<1>8. r.level \in Nat /\ r.last \in Nat /\ b.level \in Nat /\ b.last \in Nat
  BY <1>2, <1>6 DEF Bucket
<1>9. Grain * SourceBurst <= Grain * r.level
  BY <1>1, <1>4, <1>8, MulMonotone
<1>10. SourceRate * (clock - r.last) \in Nat
  <2>1. clock - r.last \in Nat
    BY <1>1, <1>6, <1>8
  <2> QED
    BY <1>4, <2>1
<1>11. Grain * SourceBurst <= Owed(r, SourceRate, clock)
  BY <1>4, <1>8, <1>9, <1>10 DEF Owed
<1>12. /\ Grain * spent[k] \in Int /\ Grain * SourceBurst \in Int
       /\ Owed(b, SourceRate, clock) \in Int /\ Owed(r, SourceRate, clock) \in Int
       /\ SourceRate * (clock + MaxDelay * drops[k]) \in Int
  BY <1>1, <1>4, <1>8 DEF Owed
<1>13. Grain * spent[k] <= SourceRate * (clock + MaxDelay * drops[k])
  BY <1>3, <1>5, <1>7, <1>11, <1>12
<1> QED
  BY <1>1, <1>13 DEF k

(* The entry is erased. *)
LEMMA SweepEraseInv ==
  ASSUME BudgetInv, SweepErase
  PROVE  BudgetInv'
<1> DEFINE k == dropping
<1>1. /\ k # NoKey /\ dropping' = NoKey
      /\ sources' = [sources EXCEPT ![k] = NoBucket]
      /\ drops' = [drops EXCEPT ![k] = drops[k] + 1]
      /\ UNCHANGED <<clock, global, entries, pc, key, cost, now, snow, charged,
                     ideal, spent>>
  BY DEF SweepErase, packet
<1>2. k \in Keys /\ Grain * spent[k] <= SourceRate * (clock + MaxDelay * drops[k])
  BY <1>1, ForgottenBalance
<1>3. drops[k] \in Nat /\ clock \in Nat
  BY <1>2 DEF BudgetInv, TypeOK
<1>4. TypeOK'
  BY <1>1, <1>2, <1>3 DEF BudgetInv, TypeOK
<1>5. GlobalBalance' /\ CreditsKept'
  BY <1>1, GlobalUnchanged DEF BudgetInv
<1>6. \A j \in Keys \ {k} : sources'[j] = sources[j] /\ drops'[j] = drops[j]
  BY <1>1 DEF BudgetInv, TypeOK
<1>7. sources'[k] = NoBucket /\ drops'[k] = drops[k] + 1
  BY <1>1, <1>2 DEF BudgetInv, TypeOK
<1>8. Known' = Known \ {k}
  BY <1>6, <1>7 DEF Known
<1>9. TimesKept'
  BY <1>1, <1>6, <1>8 DEF BudgetInv, TimesKept, Known
<1>10. SourceBalance'
  <2> SUFFICES ASSUME NEW j \in Keys
               PROVE  /\ sources'[j] # NoBucket =>
                           Grain * spent[j] + Owed(sources'[j], SourceRate, clock)
                             <= Allowance(j)'
                      /\ sources'[j] = NoBucket =>
                           \/ drops'[j] = 0 /\ spent[j] = 0
                           \/ /\ drops'[j] > 0
                              /\ Grain * spent[j] <=
                                   SourceRate * (clock + MaxDelay * (drops'[j] - 1))
    BY <1>1 DEF SourceBalance, Owed, Allowance
  <2>1. CASE j = k
    <3>1. drops'[j] > 0 /\ drops'[j] - 1 = drops[k]
      BY <1>3, <1>7, <2>1
    <3> QED
      BY <1>2, <1>7, <2>1, <3>1
  <2>2. CASE j # k
    BY <1>1, <1>6, <2>2 DEF BudgetInv, SourceBalance, Allowance
  <2> QED
    BY <2>1, <2>2
<1>11. Inserting' = Inserting
  BY <1>1 DEF Inserting
<1>12. EntriesLocked'
  BY <1>1, <1>6, <1>7, <1>11 DEF BudgetInv, EntriesLocked, TimesKept, Inserting
<1>13. Known' \ {NoKey} = Known \ {k}
  BY <1>8, BudgetAssumption DEF Known
<1>14. TableBounded'
  BY <1>1, <1>11, <1>13 DEF BudgetInv, TableBounded
<1> QED
  BY <1>4, <1>5, <1>9, <1>10, <1>12, <1>14 DEF BudgetInv

(* What a bucket is owed grows by its rate. *)
LEMMA OwedTick ==
  ASSUME NEW b \in Bucket, NEW rate \in Nat, NEW t \in Nat
  PROVE  Owed(b, rate, t + 1) = Owed(b, rate, t) + rate
<1>1. b.level \in Nat /\ b.last \in Nat /\ Grain \in Nat
  BY BudgetAssumption DEF Bucket
<1>2. rate * ((t + 1) - b.last) = rate * (t - b.last) + rate
  <2>1. t - b.last \in Int /\ (t + 1) - b.last = (t - b.last) + 1 /\ rate \in Int
    BY <1>1
  <2> QED
    BY <2>1, MulSuccessor, Zenon
<1>3. rate * (t - b.last) \in Int /\ Grain * b.level \in Int
  BY <1>1
<1>4. Grain * b.level + rate * ((t + 1) - b.last)
        = (Grain * b.level + rate * (t - b.last)) + rate
  BY <1>2, <1>3
<1> QED
  BY <1>4, Zenon DEF Owed

(* Time adds the same to what a bucket is owed and to what it may give. *)
LEMMA TickInv ==
  ASSUME BudgetInv, Tick
  PROVE  BudgetInv'
<1> USE BudgetAssumption
<1>1. /\ clock' = clock + 1
      /\ \A p \in Callers : pc[p] # "idle" => clock - now[p] < MaxDelay
      /\ ideal' = AtMost(Grain * GlobalBurst, ideal + GlobalRate)
      /\ UNCHANGED <<global, sources, entries, pc, key, cost, now, snow, dropping,
                     charged, spent, drops>>
  BY DEF Tick, packet, sweep
<1>2. /\ clock \in Nat /\ ideal \in Int /\ charged \in Int
      /\ global \in Bucket /\ global.level \in Nat /\ global.last \in Nat
      /\ spent \in [Keys -> Nat] /\ drops \in [Keys -> Nat]
  BY DEF BudgetInv, TypeOK, Bucket
<1>3. /\ ideal' \in Int /\ ideal' <= Grain * GlobalBurst
      /\ ideal' <= ideal + GlobalRate
  BY <1>1, <1>2 DEF AtMost
<1>4. TypeOK'
  BY <1>1, <1>2, <1>3 DEF BudgetInv, TypeOK
<1>5. Known' = Known /\ Inserting' = Inserting
  BY <1>1 DEF Known, Inserting
<1>6. TimesKept'
  <2>1. \A k \in Known : sources[k].last \in Nat
    BY DEF BudgetInv, TypeOK, Known, Bucket
  <2>2. \A p \in Callers : now[p] \in Nat
    BY DEF BudgetInv, TypeOK
  <2>3. global.last <= clock /\ snow <= clock /\ snow \in Nat
    BY DEF BudgetInv, TypeOK, TimesKept
  <2>4. \A k \in Known : sources[k].last <= clock + 1
    BY <1>2, <2>1 DEF BudgetInv, TimesKept
  <2>5. \A p \in Callers : pc[p] # "idle" =>
          key[p] \in Keys /\ now[p] <= clock + 1 /\ (clock + 1) - now[p] <= MaxDelay
    BY <1>1, <1>2, <2>2 DEF BudgetInv, TimesKept
  <2>6. global.last <= clock + 1 /\ snow <= clock + 1
    BY <1>2, <2>3
  <2>7. global'.last <= clock' /\ snow' <= clock'
    BY <1>1, <2>6
  <2>8. \A k \in Known' : sources'[k].last <= clock'
    BY <1>1, <1>5, <2>4
  <2>9. \A p \in Callers : pc'[p] # "idle" =>
          key'[p] \in Keys /\ now'[p] <= clock' /\ clock' - now'[p] <= MaxDelay
    <3> TAKE p \in Callers
    <3>1. clock' = clock + 1 /\ pc'[p] = pc[p] /\ key'[p] = key[p] /\ now'[p] = now[p]
      BY <1>1
    <3> QED
      BY <2>5, <3>1, Zenon
  <2> QED
    BY <2>7, <2>8, <2>9, Zenon DEF TimesKept
<1>7. Owed(global, GlobalRate, clock)' = Owed(global, GlobalRate, clock) + GlobalRate
  <2>1. Owed(global, GlobalRate, clock + 1) = Owed(global, GlobalRate, clock) + GlobalRate
    BY <1>2, OwedTick, Zenon
  <2> QED
    BY <1>1, <2>1, Zenon DEF Owed
<1>8. /\ Owed(global, GlobalRate, clock) \in Int /\ Grain * charged \in Int
      /\ Grain * GlobalBurst \in Int /\ GlobalRate * clock \in Int
  BY <1>2 DEF Owed
<1>9. GlobalRate * clock' = GlobalRate * clock + GlobalRate
  BY <1>1, <1>2, SMT
<1>10. Grain * charged + Owed(global, GlobalRate, clock)'
         <= Grain * GlobalBurst + GlobalRate * clock'
  BY <1>7, <1>8, <1>9 DEF BudgetInv, GlobalBalance
<1>11. GlobalBalance'
  BY <1>1, <1>3, <1>10 DEF GlobalBalance
<1>12. CreditsKept'
  BY <1>2, <1>3, <1>7, <1>8 DEF BudgetInv, CreditsKept
<1>13. SourceBalance'
  <2> SUFFICES ASSUME NEW k \in Keys
               PROVE  /\ sources[k] # NoBucket =>
                           Grain * spent[k] + Owed(sources[k], SourceRate, clock')
                             <= Allowance(k)'
                      /\ sources[k] = NoBucket =>
                           \/ drops[k] = 0 /\ spent[k] = 0
                           \/ /\ drops[k] > 0
                              /\ Grain * spent[k] <=
                                   SourceRate * (clock' + MaxDelay * (drops[k] - 1))
    BY <1>1 DEF SourceBalance, Owed
  <2>1. spent[k] \in Nat /\ drops[k] \in Nat /\ Grain * spent[k] \in Int
    BY <1>2
  <2>2. CASE sources[k] # NoBucket
    <3> DEFINE b == sources[k]
    <3>1. b \in Bucket /\ b.level \in Nat /\ b.last \in Nat
      BY <2>2 DEF BudgetInv, TypeOK, Bucket
    <3>2. Grain * spent[k] + Owed(b, SourceRate, clock) <= Allowance(k)
      BY <2>2 DEF BudgetInv, SourceBalance
    <3> HIDE DEF b
    <3>3. Owed(b, SourceRate, clock') = Owed(b, SourceRate, clock) + SourceRate
      BY <1>1, <1>2, <3>1, OwedTick, Zenon
    <3>4. Allowance(k)' = Allowance(k) + SourceRate
      BY <1>1, <1>2, <2>1, SMT DEF Allowance
    <3>5. Owed(b, SourceRate, clock) \in Int /\ Allowance(k) \in Int
      BY <1>2, <2>1, <3>1 DEF Owed, Allowance
    <3>6. Grain * spent[k] + Owed(b, SourceRate, clock') <= Allowance(k)'
      BY <2>1, <3>2, <3>3, <3>4, <3>5
    <3> QED
      BY <2>2, <3>6 DEF b
  <2>3. CASE sources[k] = NoBucket
    <3> DEFINE d == drops[k]
    <3>1. \/ d = 0 /\ spent[k] = 0
          \/ d > 0 /\ Grain * spent[k] <= SourceRate * (clock + MaxDelay * (d - 1))
      BY <2>3 DEF BudgetInv, SourceBalance
    <3>2. d \in Nat
      BY <2>1
    <3> HIDE DEF d
    <3>3. SourceRate * (clock' + MaxDelay * (d - 1))
            = SourceRate * (clock + MaxDelay * (d - 1)) + SourceRate
      BY <1>1, <1>2, <3>2, SMT
    <3>4. SourceRate * (clock + MaxDelay * (d - 1)) \in Int
      BY <1>2, <3>2
    <3>5. \/ d = 0 /\ spent[k] = 0
          \/ d > 0 /\ Grain * spent[k] <= SourceRate * (clock' + MaxDelay * (d - 1))
      BY <2>1, <3>1, <3>3, <3>4
    <3> QED
      BY <2>3, <3>5 DEF d
  <2> QED
    BY <2>2, <2>3
<1>14. EntriesLocked' /\ TableBounded'
  BY <1>1, <1>5 DEF BudgetInv, EntriesLocked, TableBounded, IsFullAt
<1> QED
  BY <1>4, <1>6, <1>11, <1>12, <1>13, <1>14 DEF BudgetInv

-----------------------------------------------------------------------------
(* Every step keeps the invariant. *)
LEMMA NextInv == BudgetInv /\ [Next]_vars => BudgetInv'
<1> SUFFICES ASSUME BudgetInv, [Next]_vars PROVE BudgetInv'
  OBVIOUS
<1>1. ASSUME NEW p \in Callers, Check(p) PROVE BudgetInv'
  BY <1>1, ArriveInv, TakeGlobalInv, RefuseGlobalInv, RefundInv, TakeSourceInv,
     RefuseSourceInv, ReserveEntryInv, TableFullInv, InsertSourceInv,
     InsertRefusedInv
     DEF Check
<1>2. CASE Sweep
  BY <1>2, SweepStartInv, SweepReleaseInv, SweepEraseInv DEF Sweep
<1>3. CASE Tick
  BY <1>3, TickInv
<1>4. CASE UNCHANGED vars
  <2>1. UNCHANGED <<clock, global, sources, entries, pc, key, cost, now, snow,
                    dropping, charged, ideal, spent, drops>>
    BY <1>4 DEF vars, packet, sweep, history
  <2>2. GlobalBalance' /\ CreditsKept' /\ SourceBalance' /\ Known' = Known
    BY <2>1, GlobalUnchanged, SourcesUnchanged DEF BudgetInv
  <2>3. Inserting' = Inserting
    BY <2>1 DEF Inserting
  <2>4. TypeOK' /\ TimesKept' /\ EntriesLocked' /\ TableBounded'
    BY <2>1, <2>2, <2>3
       DEF BudgetInv, TypeOK, TimesKept, EntriesLocked, TableBounded, IsFullAt
  <2> QED
    BY <2>2, <2>4 DEF BudgetInv
<1> QED
  BY <1>1, <1>2, <1>3, <1>4 DEF Next

(* The invariant holds in every reachable state. *)
THEOREM BudgetInvariance == Spec => []BudgetInv
BY InitInv, NextInv, PTL DEF Spec

(* UdpBudget: over any run the server-wide budget gives out at most its    *)
(* burst and rate, whatever callers' times and refunds.                    *)
THEOREM GlobalRate_Bounded == Spec => []GlobalBound
<1>1. BudgetInv => GlobalBound
  <2> SUFFICES ASSUME BudgetInv PROVE GlobalBound
    OBVIOUS
  <2> USE BudgetAssumption
  <2>1. /\ clock \in Nat /\ charged \in Int /\ global.level \in Nat
        /\ global.last \in Nat /\ global.last <= clock
    BY DEF BudgetInv, TypeOK, TimesKept, Bucket
  <2>2. clock - global.last \in Nat
    BY <2>1
  <2>3. Owed(global, GlobalRate, clock) >= 0 /\ Owed(global, GlobalRate, clock) \in Int
    <3>1. GlobalRate * (clock - global.last) \in Nat /\ Grain * global.level \in Nat
      BY <2>1, <2>2
    <3> QED
      BY <3>1 DEF Owed
  <2>4. Grain * charged \in Int /\ Grain * GlobalBurst \in Int /\ GlobalRate * clock \in Int
    BY <2>1
  <2> QED
    BY <2>3, <2>4 DEF BudgetInv, GlobalBalance, GlobalBound
<1> QED
  BY <1>1, BudgetInvariance, PTL

(* TokenBucket: no credit is lost to rounding, to polling or to a packet   *)
(* that is refused later.                                                  *)
THEOREM NoCreditLost == Spec => []CreditsKept
<1>1. BudgetInv => CreditsKept
  BY DEF BudgetInv
<1> QED
  BY <1>1, BudgetInvariance, PTL

(* UdpBudget: the table of sources keeps to its cap, and its counter to    *)
(* the table, under concurrent inserts and sweeps.                         *)
THEOREM TableKept == Spec => []TableBounded
<1>1. BudgetInv => TableBounded
  BY DEF BudgetInv
<1> QED
  BY <1>1, BudgetInvariance, PTL

(* UdpBudget: sweeping a source's bucket does not give its burst twice.    *)
THEOREM SourceRate_Bounded == Spec => []SourceBound
<1>1. BudgetInv => SourceBound
  <2> SUFFICES ASSUME BudgetInv, NEW k \in Keys PROVE Grain * spent[k] <= Allowance(k)
    BY DEF SourceBound
  <2> USE BudgetAssumption
  <2>1. clock \in Nat /\ spent[k] \in Nat /\ drops[k] \in Nat
    BY DEF BudgetInv, TypeOK
  <2>2. Grain * spent[k] \in Int /\ Allowance(k) \in Int
    BY <2>1 DEF Allowance
  <2>3. CASE sources[k] # NoBucket
    <3> DEFINE b == sources[k]
    <3>1. b \in Bucket /\ b.level \in Nat /\ b.last \in Nat /\ b.last <= clock
      BY <2>3 DEF BudgetInv, TypeOK, TimesKept, Known, Bucket
    <3>2. Grain * spent[k] + Owed(b, SourceRate, clock) <= Allowance(k)
      BY <2>3 DEF BudgetInv, SourceBalance
    <3> HIDE DEF b
    <3>3. clock - b.last \in Nat
      BY <2>1, <3>1
    <3>4. SourceRate * (clock - b.last) \in Nat /\ Grain * b.level \in Nat
      BY <3>1, <3>3
    <3>5. Owed(b, SourceRate, clock) \in Nat
      BY <3>4 DEF Owed
    <3> QED
      BY <2>2, <3>2, <3>5
  <2>4. CASE sources[k] = NoBucket
    <3> DEFINE d == drops[k]
    <3>1. \/ d = 0 /\ spent[k] = 0
          \/ d > 0 /\ Grain * spent[k] <= SourceRate * (clock + MaxDelay * (d - 1))
      BY <2>4 DEF BudgetInv, SourceBalance
    <3>2. Allowance(k) = Grain * SourceBurst + SourceRate * (clock + MaxDelay * d) /\ d \in Nat
      BY <2>1 DEF Allowance
    <3> HIDE DEF d
    <3>3. Grain * SourceBurst \in Nat
      OBVIOUS
    <3>4. CASE d = 0 /\ spent[k] = 0
      <4>1. SourceRate * (clock + MaxDelay * d) \in Nat
        BY <2>1, <3>2
      <4> QED
        BY <3>2, <3>3, <3>4, <4>1
    <3>5. CASE d > 0 /\ Grain * spent[k] <= SourceRate * (clock + MaxDelay * (d - 1))
      <4>1. SourceRate * (clock + MaxDelay * d)
              = SourceRate * (clock + MaxDelay * (d - 1)) + SourceRate * MaxDelay
        BY <2>1, <3>2, SMT
      <4>2. /\ SourceRate * MaxDelay \in Nat
            /\ SourceRate * (clock + MaxDelay * (d - 1)) \in Int
        BY <2>1, <3>2
      <4> QED
        BY <2>2, <3>2, <3>3, <3>5, <4>1, <4>2
    <3> QED
      BY <3>1, <3>4, <3>5
  <2> QED
    BY <2>3, <2>4
<1> QED
  BY <1>1, BudgetInvariance, PTL

(* UdpBudget: both rates are held, for every number of callers and sources. *)
THEOREM RatesAreHeld == Spec => []RatesHeld
BY GlobalRate_Bounded, SourceRate_Bounded, PTL DEF RatesHeld

-----------------------------------------------------------------------------
(* The name history. *)

(* A stored name, and a change that waits: a new name, or an update of a    *)
(* stored one that lacks none of its publishers.                            *)
IsRow(r) == r = [bad |-> r.bad, listed |-> r.listed, pubs |-> r.pubs, npubs |-> r.npubs, nnets |-> r.nnets]
New(bad, listed, pubs) == [kind |-> "new", bad |-> bad, listed |-> listed, pubs |-> pubs]
Changed(pubs, added, verdict) == [kind |-> "update", pubs |-> pubs, added |-> added, verdict |-> verdict]
IsNew(ch) == ch = New(ch.bad, ch.listed, ch.pubs)
IsChanged(ch) == ch = Changed(ch.pubs, ch.added, ch.verdict)
Waits(k, ch) == IsNew(ch) \/ (IsChanged(ch) /\ k \in DOMAIN rows /\ rows[k].pubs \subseteq ch.pubs)
Rows(t) == \A k \in DOMAIN t : IsRow(t[k])
Waiting(b) == \A k \in DOMAIN b : Waits(k, b[k])

HistoryInv ==
  /\ Rows(rows) /\ Rows(synced[1])
  /\ running # "down" => Waiting(pending)

(* What HistoryGrows says of a step. *)
Keeps(old, new) ==
  \A k \in DOMAIN old :
    /\ k \in DOMAIN new
    /\ old[k].pubs \subseteq new[k].pubs
    /\ old[k].bad => new[k].bad /\ new[k].listed = old[k].listed
Grows == running' = "down" \/ Keeps(rows, rows')

(* A publisher that joins displaces none. *)
LEMMA JoinedKeeps ==
  ASSUME NEW ps, NEW o
  PROVE  ps \subseteq History!Joined(ps, o)
BY DEF History!Joined

(* An updated row keeps its publishers and a verdict against it. *)
LEMMA UpdatedKeeps ==
  ASSUME NEW row, NEW ch, IsRow(row), IsChanged(ch), row.pubs \subseteq ch.pubs
  PROVE  /\ IsRow(History!Updated(row, ch))
         /\ row.pubs \subseteq History!Updated(row, ch).pubs
         /\ row.bad => History!Updated(row, ch).bad /\ History!Updated(row, ch).listed = row.listed
<1> DEFINE r == IF ch.added > 0
                THEN [row EXCEPT !.pubs = ch.pubs, !.npubs = History!Cardinality(ch.pubs), !.nnets = History!DistinctNets(ch.pubs)]
                ELSE row
           u == IF ch.verdict # <<>> /\ ~row.bad THEN [r EXCEPT !.bad = TRUE, !.listed = ch.verdict[1]] ELSE r
<1>1. History!Updated(row, ch) = u BY DEF History!Updated
<1>2. IsRow(r) /\ r.bad = row.bad /\ r.listed = row.listed /\ row.pubs \subseteq r.pubs BY DEF IsRow
<1> HIDE DEF r
<1>3. IsRow(u) /\ u.pubs = r.pubs /\ (row.bad => u.bad = r.bad /\ u.listed = r.listed) BY <1>2 DEF IsRow
<1> HIDE DEF u
<1> QED BY <1>1, <1>2, <1>3

(* What one transaction makes of the rows. *)
LEMMA WrittenKeeps ==
  ASSUME Rows(rows), NEW b, Waiting(b)
  PROVE  Rows(History!Written(b)) /\ Keeps(rows, History!Written(b))
<1> DEFINE w == History!Written(b)
<1>1. DOMAIN w = DOMAIN rows \cup DOMAIN b BY DEF History!Written
<1>2. ASSUME NEW k \in DOMAIN w
      PROVE  /\ IsRow(w[k])
             /\ k \in DOMAIN rows => /\ rows[k].pubs \subseteq w[k].pubs
                                     /\ rows[k].bad => w[k].bad /\ w[k].listed = rows[k].listed
  <2>1. CASE k \notin DOMAIN b
    <3>1. k \in DOMAIN rows /\ w[k] = rows[k] BY <1>1, <1>2, <2>1 DEF History!Written
    <3> HIDE DEF w
    <3> QED BY <3>1 DEF Rows
  <2>2. CASE k \in DOMAIN b /\ k \notin DOMAIN rows
    <3>1. w[k] = History!Row(b[k]) BY <1>1, <1>2, <2>2 DEF History!Written
    <3> HIDE DEF w
    <3> QED BY <2>2, <3>1 DEF History!Row, IsRow
  <2>3. CASE k \in DOMAIN b /\ k \in DOMAIN rows /\ b[k].kind = "update"
    <3>1. w[k] = History!Updated(rows[k], b[k]) BY <1>1, <1>2, <2>3 DEF History!Written
    <3>2. IsChanged(b[k]) /\ rows[k].pubs \subseteq b[k].pubs BY <2>3 DEF Waiting, Waits, IsNew, New
    <3>3. IsRow(rows[k]) BY <2>3 DEF Rows
    <3> HIDE DEF w
    <3> QED BY <3>1, <3>2, <3>3, UpdatedKeeps
  <2>4. CASE k \in DOMAIN b /\ k \in DOMAIN rows /\ b[k].kind # "update"
    <3>1. w[k] = rows[k] BY <1>1, <1>2, <2>4 DEF History!Written
    <3> HIDE DEF w
    <3> QED BY <2>4, <3>1 DEF Rows
  <2> QED BY <2>1, <2>2, <2>3, <2>4
<1> HIDE DEF w
<1>3. Rows(w) BY <1>2 DEF Rows
<1>4. Keeps(rows, w) BY <1>1, <1>2, Zenon DEF Keeps
<1> QED BY <1>3, <1>4 DEF w

(* A change with other contents. *)
NewWith(ch, b, l, p) == [ch EXCEPT !.bad = b, !.listed = l, !.pubs = p]
ChangedWith(ch, p, a, v) == [ch EXCEPT !.pubs = p, !.added = a, !.verdict = v]

LEMMA NewFields ==
  ASSUME NEW b0, NEW l0, NEW p0, NEW b, NEW l, NEW p, NEW ch,
         ch = New(b0, l0, p0)
  PROVE  NewWith(ch, b, l, p) = New(b, l, p)
<1> DEFINE c == [ch EXCEPT !.bad = b]
<1>1. c = New(b, l0, p0) BY DEF New
<1> HIDE DEF c
<1> DEFINE d == [c EXCEPT !.listed = l]
<1>2. d = New(b, l, p0) BY <1>1 DEF New
<1> HIDE DEF d
<1>3. [d EXCEPT !.pubs = p] = New(b, l, p) BY <1>2 DEF New
<1>4. NewWith(ch, b, l, p) = [d EXCEPT !.pubs = p] BY Zenon DEF c, d, NewWith
<1> QED BY <1>3, <1>4

LEMMA UpdateFields ==
  ASSUME NEW p0, NEW a0, NEW v0, NEW p, NEW a, NEW v, NEW ch,
         ch = Changed(p0, a0, v0)
  PROVE  ChangedWith(ch, p, a, v) = Changed(p, a, v)
<1> DEFINE c == [ch EXCEPT !.pubs = p]
<1>1. c = Changed(p, a0, v0) BY DEF Changed
<1> HIDE DEF c
<1> DEFINE d == [c EXCEPT !.added = a]
<1>2. d = Changed(p, a, v0) BY <1>1 DEF Changed
<1> HIDE DEF d
<1>3. [d EXCEPT !.verdict = v] = Changed(p, a, v) BY <1>2 DEF Changed
<1>4. ChangedWith(ch, p, a, v) = [d EXCEPT !.verdict = v] BY Zenon DEF c, d, ChangedWith
<1> QED BY <1>3, <1>4

(* A change that is folded with another offer still waits. *)
LEMMA FoldedWaits ==
  ASSUME NEW k, NEW ch, NEW o, Waits(k, ch)
  PROVE  Waits(k, History!Folded(ch, o))
<1>1. CASE IsNew(ch)
  <2> DEFINE bad == ch.bad \/ o.bad
             listed == ch.listed \/ o.listed
             ps == History!Joined(ch.pubs, o)
             n == NewWith(ch, bad, listed, ps)
  <2>0. ch.kind = "new" BY <1>1 DEF IsNew, New
  <2>1. History!Folded(ch, o) = n BY <2>0, Zenon DEF History!Folded, NewWith
  <2> HIDE DEF bad, listed, ps
  <2>2. n = New(bad, listed, ps)
    <3> DEFINE b0 == ch.bad
               l0 == ch.listed
               p0 == ch.pubs
    <3>1. ch = New(b0, l0, p0) BY <1>1 DEF IsNew
    <3> HIDE DEF b0, l0, p0
    <3> QED BY <3>1, NewFields
  <2> HIDE DEF n
  <2>3. IsNew(n) BY <2>2 DEF IsNew, New
  <2> QED BY <2>1, <2>3 DEF Waits
<1>2. CASE IsChanged(ch) /\ k \in DOMAIN rows /\ rows[k].pubs \subseteq ch.pubs
  <2> DEFINE ps == History!Joined(ch.pubs, o)
             more == ch.added + History!Cardinality(ps) - History!Cardinality(ch.pubs)
             said == IF o.bad /\ ch.verdict = <<>> THEN <<o.listed>> ELSE ch.verdict
             u == ChangedWith(ch, ps, more, said)
  <2>1. History!Folded(ch, o) = u BY <1>2 DEF History!Folded, IsChanged, Changed, ChangedWith
  <2>2. ch.pubs \subseteq ps BY JoinedKeeps
  <2> HIDE DEF ps, more, said
  <2>3. u = Changed(ps, more, said)
    <3> DEFINE p0 == ch.pubs
               a0 == ch.added
               v0 == ch.verdict
    <3>1. ch = Changed(p0, a0, v0) BY <1>2 DEF IsChanged
    <3> HIDE DEF p0, a0, v0
    <3> QED BY <3>1, UpdateFields
  <2> HIDE DEF u
  <2>4. IsChanged(u) /\ u.pubs = ps BY <2>3 DEF IsChanged, Changed
  <2> QED BY <1>2, <2>1, <2>2, <2>4 DEF Waits
<1> QED BY <1>1, <1>2 DEF Waits

(* The writer's lookup keeps the changes in order. *)
LEMMA AddedWaits ==
  ASSUME NEW o, Waiting(pending)
  PROVE  Waiting(History!Added(o)[1])
<1> DEFINE k == History!KeyOf(o)
           Put(ch) == [j \in DOMAIN pending \cup {k} |-> IF j = k THEN ch ELSE pending[j]]
<1>1. ASSUME NEW ch, Waits(k, ch) PROVE Waiting(Put(ch))
  BY <1>1 DEF Waiting
<1>2. CASE k \in DOMAIN pending
  <2>1. History!Added(o)[1] = Put(History!Folded(pending[k], o)) BY <1>2 DEF History!Added
  <2>2. Waits(k, History!Folded(pending[k], o)) BY <1>2, FoldedWaits DEF Waiting
  <2> HIDE DEF Put
  <2> QED BY <1>1, <2>1, <2>2
<1>3. CASE k \notin DOMAIN pending /\ k \in DOMAIN rows
  <2> DEFINE c == History!Change(rows[k], o)
  <2>1. Waits(k, c)
    <3>1. c.pubs = History!Joined(rows[k].pubs, o) /\ IsChanged(c) BY DEF History!Change, IsChanged, Changed
    <3> HIDE DEF c
    <3> QED BY <1>3, <3>1, JoinedKeeps DEF Waits
  <2>2. History!Added(o)[1] \in {pending, Put(c)} BY <1>3 DEF History!Added
  <2> HIDE DEF Put, c
  <2> QED BY <1>1, <2>1, <2>2
<1>4. CASE k \notin DOMAIN pending /\ k \notin DOMAIN rows
  <2> DEFINE c == History!NewName(o)
  <2>1. Waits(k, c) BY DEF History!NewName, Waits, IsNew, New
  <2>2. History!Added(o)[1] \in {pending, Put(c)} BY <1>4 DEF History!Added
  <2> HIDE DEF Put, c
  <2> QED BY <1>1, <2>1, <2>2
<1> QED BY <1>2, <1>3, <1>4

(* A batch that is written, or dropped. *)
LEMMA FlushKeeps ==
  ASSUME HistoryInv, running # "down", UNCHANGED synced, NEW b, Waiting(b), NEW ok, History!Flush(b, ok)
  PROVE  HistoryInv' /\ Grows
<1>1. Rows(rows') /\ Keeps(rows, rows')
  <2>1. CASE ok /\ DOMAIN b # {}
    <3>1. rows' = History!Written(b) BY <2>1 DEF History!Flush
    <3> QED BY <3>1, WrittenKeeps DEF HistoryInv
  <2>2. CASE ~(ok /\ DOMAIN b # {})
    <3>1. rows' = rows BY <2>2 DEF History!Flush
    <3> QED BY <3>1 DEF HistoryInv, Keeps
  <2> QED BY <2>1, <2>2
<1>2. DOMAIN pending' = {} BY DEF History!Flush
<1> QED BY <1>1, <1>2 DEF HistoryInv, Grows, Waiting, Rows

(* Steps that leave the table alone. *)
LEMMA SameRows ==
  ASSUME HistoryInv, rows' = rows, pending' = pending, Rows(synced'[1]), running' # "down" => running # "down"
  PROVE  HistoryInv' /\ Grows
BY DEF HistoryInv, Grows, Rows, Keeps, Waiting, Waits

LEMMA HistoryStep ==
  ASSUME HistoryInv, History!Next
  PROVE  HistoryInv' /\ Grows
<1> USE DEF History!mem, History!disk
<1>1. CASE History!Start
  <2>1. DOMAIN pending' = {} /\ rows' = rows /\ synced' = synced BY <1>1 DEF History!Start, History!Open
  <2> QED BY <2>1 DEF HistoryInv, Grows, Rows, Keeps, Waiting
<1>2. CASE History!LookupFails
  BY <1>2, SameRows DEF History!LookupFails, HistoryInv
<1>3. CASE History!Signal
  BY <1>3, SameRows DEF History!Signal, HistoryInv
<1>4. CASE History!SendFlush
  BY <1>4, SameRows DEF History!SendFlush, HistoryInv
<1>5. CASE History!Exit
  BY <1>5, SameRows DEF History!Exit, HistoryInv
<1>6. CASE History!Crash
  BY <1>6, SameRows DEF History!Crash, History!GiveUp, HistoryInv
<1>7. CASE History!PowerLoss
  BY <1>7 DEF History!PowerLoss, History!GiveUp, HistoryInv, Grows, Rows
<1>8. CASE History!Checkpoint
  <2>1. synced'[1] = rows BY <1>8 DEF History!Checkpoint
  <2>2. Rows(synced'[1]) BY <2>1 DEF HistoryInv
  <2> QED BY <1>8, <2>2, SameRows DEF History!Checkpoint
<1>9. ASSUME NEW o \in Offers, History!Note(o) PROVE HistoryInv' /\ Grows
  BY <1>9, SameRows DEF History!Note, HistoryInv
<1>10. ASSUME NEW ok \in BOOLEAN, History!TakeOffer(ok) PROVE HistoryInv' /\ Grows
  <2> DEFINE a == History!Added(Head(queued)[1])
  <2>0. running # "down" /\ synced' = synced /\ running' = running BY <1>10 DEF History!TakeOffer
  <2>1. Waiting(a[1]) BY <2>0, AddedWaits DEF HistoryInv
  <2>2. CASE History!Flush(a[1], ok)
    <3> HIDE DEF a
    <3> QED BY <2>0, <2>1, <2>2, FlushKeeps
  <2>3. CASE pending' = a[1] /\ rows' = rows
    <3> HIDE DEF a
    <3> QED BY <2>0, <2>1, <2>3 DEF HistoryInv, Grows, Rows, Keeps, Waiting, Waits
  <2>4. History!Flush(a[1], ok) \/ (pending' = a[1] /\ rows' = rows) BY <1>10 DEF History!TakeOffer
  <2> QED BY <2>2, <2>3, <2>4
<1>11. ASSUME NEW ok \in BOOLEAN, History!TakeFlush(ok) PROVE HistoryInv' /\ Grows
  BY <1>11, FlushKeeps DEF History!TakeFlush, HistoryInv
<1>12. ASSUME NEW ok \in BOOLEAN, History!Timeout(ok) PROVE HistoryInv' /\ Grows
  BY <1>12, FlushKeeps DEF History!Timeout, HistoryInv
<1> QED
  BY <1>1, <1>2, <1>3, <1>4, <1>5, <1>6, <1>7, <1>8, <1>9, <1>10, <1>11, <1>12, Zenon DEF History!Next

LEMMA HistoryInvariance == History!Spec => []HistoryInv
<1>1. History!Init => HistoryInv
  BY DEF History!Init, HistoryInv, Rows
<1>2. HistoryInv /\ [History!Next]_(History!vars) => HistoryInv'
  <2>1. HistoryInv /\ UNCHANGED History!vars => HistoryInv'
    BY DEF History!vars, History!mem, History!disk, HistoryInv, Rows, Waiting, Waits
  <2> QED BY <2>1, HistoryStep
<1> QED BY <1>1, <1>2, PTL DEF History!Spec

(* NameHistory: whatever is offered, folded, written, failed or lost in a   *)
(* crash, a stored name stays with its publishers and a verdict against it, *)
(* but for a loss of power.                                                 *)
THEOREM HistoryAlwaysGrows == History!Spec => HistoryGrows
<1>1. HistoryInv /\ [History!Next]_(History!vars) => [Grows]_(History!vars)
  BY HistoryStep
<1>2. History!Spec => [][Grows]_(History!vars)
  BY <1>1, HistoryInvariance, PTL DEF History!Spec
<1> QED BY <1>2, PTL DEF HistoryGrows, History!HistoryGrows, Grows, Keeps

-----------------------------------------------------------------------------
(* The panel's door: the bounds, and the invariant. *)
PanelBounds ==
  /\ IsFiniteSet(Tries) /\ IsFiniteSet(Froms) /\ "loop" \in Froms
  /\ MaxFailures \in Nat \ {0} /\ MaxGlobalFailures \in Nat \ {0} /\ Window \in Nat \ {0}
  /\ MaxTracked \in Nat \ {0} /\ MaxSessions \in Nat \ {0}
  /\ MaxTime \in Nat /\ MaxTokens \in Nat /\ Ttl \in Nat /\ MaxConns \in Nat /\ MaxConnsPerIp \in Nat

Stages == {"no", "waiting", "hashing"}
Busy == {t \in Tries : try[t].stage # "no"}
InLine(s, t) == \E i \in 1 .. Len(s) : s[i] = t

DoorTypes ==
  /\ aclock \in 0 .. MaxTime /\ tokens \in 0 .. MaxTokens
  /\ allRemote[1] \in Nat /\ allRemote[2] \in 0 .. aclock
  /\ try \in [Tries -> [stage : Stages, from : Froms, right : BOOLEAN]]
  /\ refused \in {"no", "own"}

TrackedTypes ==
  /\ DOMAIN perKey \subseteq Froms /\ Cardinality(DOMAIN perKey) <= MaxTracked
  /\ \A a \in DOMAIN perKey : perKey[a][1] \in Nat /\ perKey[a][2] \in 0 .. aclock

SessionTypes ==
  /\ IsFiniteSet(DOMAIN sessions) /\ Cardinality(DOMAIN sessions) <= MaxSessions
  /\ \A s \in DOMAIN sessions : sessions[s] \in Nat

WrongTypes ==
  /\ DOMAIN wrong \subseteq Nat \ {0} /\ IsFiniteSet(DOMAIN wrong)
  /\ \A i \in DOMAIN wrong :
       /\ wrong[i] \in [from : Froms, at : Nat, own : BOOLEAN]
       /\ wrong[i].at <= aclock /\ aclock < wrong[i].at + Window

(* The wrong answers that count for an address, and for all remote ones.    *)
Own(a) == {i \in DOMAIN wrong : wrong[i].from = a /\ wrong[i].own}
Others == {i \in DOMAIN wrong : Admin!Remote(wrong[i].from)}

(* A window of c failures from s on: it counts the wrong answers since, the *)
(* first at s itself, and those before it are fewer than lock; and what a   *)
(* window leaves that has ended.                                            *)
Windowed(w, I, c, s, max, time) ==
  /\ c \in 1 .. max /\ s \in 0 .. time
  /\ \A i \in I : w[i].at < s + Window
  /\ Cardinality({i \in I : w[i].at >= s}) <= c
  /\ Cardinality({i \in I : w[i].at > s}) <= c - 1
  /\ Cardinality({i \in I : w[i].at < s}) <= max - 1
Gone(w, I, max, time) == Cardinality(I) <= max - 1 /\ \A i \in I : w[i].at < time

GuessInv ==
  /\ \A a \in Froms :
       IF a \in DOMAIN perKey THEN Windowed(wrong, Own(a), perKey[a][1], perKey[a][2], MaxFailures, aclock)
       ELSE Gone(wrong, Own(a), MaxFailures, aclock)
  /\ IF allRemote[1] = 0 THEN Gone(wrong, Others, MaxGlobalFailures, aclock)
     ELSE Windowed(wrong, Others, allRemote[1], allRemote[2], MaxGlobalFailures, aclock)

(* Who waits for the mutex is in line once; who hashes is the first, and    *)
(* not locked out.                                                          *)
LineInv ==
  /\ hashLine \in Seq(Tries)
  /\ \A i, j \in 1 .. Len(hashLine) : hashLine[i] = hashLine[j] => i = j
  /\ \A t \in Tries : t \in Busy <=> InLine(hashLine, t)
  /\ queuedChecks = Cardinality(Busy)
HashInv == \A t \in Tries : try[t].stage = "hashing" => hashLine[1] = t /\ ~Admin!Locked(try[t].from)

ConnInv ==
  /\ acquired \in [Froms -> Nat] /\ DOMAIN perIpConns \subseteq Froms
  /\ \A a \in Froms : acquired[a] = Admin!HeldBy(a) /\ acquired[a] <= MaxConnsPerIp
  /\ Admin!Taken <= MaxConns

PanelInv ==
  DoorTypes /\ TrackedTypes /\ SessionTypes /\ WrongTypes /\ GuessInv /\ LineInv /\ HashInv /\ ConnInv

-----------------------------------------------------------------------------
(* Sets of numbers, and the operators of the instances. *)
LEMMA AdminCardinality == \A S : Admin!Cardinality(S) = Cardinality(S)
BY DEF Admin!Cardinality, Cardinality

(* Something has the least of some numbers. *)
LEMMA LeastExists ==
  ASSUME NEW S, S # {}, NEW f, \A x \in S : f[x] \in Nat
  PROVE  \E x \in S : \A y \in S : f[x] <= f[y]
<1> DEFINE R == OpToRel(<, Nat)
           T == {f[x] : x \in S}
<1>1. IsWellFoundedOn(R, Nat) BY NatLessThanWellFounded
<1>2. T \subseteq Nat /\ T # {} OBVIOUS
<1>3. PICK m \in T : \A n \in T : ~(<<n, m>> \in R)
  <2> HIDE DEF R, T
  <2> QED BY <1>1, <1>2, WFMin
<1>4. ASSUME NEW n \in T PROVE ~(n < m)
  <2>1. n < m => <<n, m>> \in R BY <1>2, Zenon DEF OpToRel
  <2> QED BY <1>3, <2>1
<1> HIDE DEF R
<1>5. PICK x \in S : f[x] = m OBVIOUS
<1>6. ASSUME NEW y \in S PROVE f[x] <= f[y]
  <2>1. f[y] \in T OBVIOUS
  <2>2. ~(f[y] < m) BY <1>4, <2>1
  <2> HIDE DEF T
  <2>3. f[x] \in Nat /\ f[y] \in Nat OBVIOUS
  <2> QED BY <1>5, <2>2, <2>3
<1> QED BY <1>6

(* Fewer elements. *)
LEMMA Fewer ==
  ASSUME NEW S, IsFiniteSet(S), NEW T, T \subseteq S
  PROVE  /\ IsFiniteSet(T) /\ Cardinality(T) \in Nat /\ Cardinality(S) \in Nat
         /\ Cardinality(T) <= Cardinality(S)
BY FS_Subset, FS_CardinalityType

LEMMA OneMore ==
  ASSUME NEW S, IsFiniteSet(S), NEW T, NEW x, T \subseteq S \cup {x}
  PROVE  /\ IsFiniteSet(T) /\ Cardinality(T) \in Nat /\ Cardinality(S) \in Nat
         /\ Cardinality(T) <= Cardinality(S) + 1
<1>1. IsFiniteSet(S \cup {x}) /\ Cardinality(S \cup {x}) <= Cardinality(S) + 1 /\ Cardinality(S) \in Nat
  BY FS_AddElement, FS_CardinalityType
<1>2. /\ IsFiniteSet(T) /\ Cardinality(T) \in Nat /\ Cardinality(S \cup {x}) \in Nat
      /\ Cardinality(T) <= Cardinality(S \cup {x})
  BY <1>1, Fewer
<1> QED BY <1>1, <1>2

-----------------------------------------------------------------------------
(* Windows of failures.  Time passes and answers are forgotten. *)
LEMMA WindowStays ==
  ASSUME NEW w, NEW v, NEW I, IsFiniteSet(I), NEW J, J \subseteq I, \A i \in J : v[i].at = w[i].at,
         NEW c, NEW s, NEW max \in Nat, NEW time \in Nat, NEW later \in Nat, time <= later,
         Windowed(w, I, c, s, max, time)
  PROVE  Windowed(v, J, c, s, max, later)
<1>1. {i \in J : v[i].at >= s} \subseteq {i \in I : w[i].at >= s} OBVIOUS
<1>2. {i \in J : v[i].at > s} \subseteq {i \in I : w[i].at > s} OBVIOUS
<1>3. {i \in J : v[i].at < s} \subseteq {i \in I : w[i].at < s} OBVIOUS
<1>4. IsFiniteSet({i \in I : w[i].at >= s}) /\ IsFiniteSet({i \in I : w[i].at > s}) /\ IsFiniteSet({i \in I : w[i].at < s})
  BY FS_Subset
<1> DEFINE A == {i \in J : v[i].at >= s}
           B == {i \in J : v[i].at > s}
           C == {i \in J : v[i].at < s}
           D == {i \in I : w[i].at >= s}
           F == {i \in I : w[i].at > s}
           G == {i \in I : w[i].at < s}
<1>5. /\ c \in 1 .. max /\ s \in 0 .. time /\ Cardinality(D) <= c /\ Cardinality(F) <= c - 1 /\ Cardinality(G) <= max - 1
      /\ \A i \in J : v[i].at < s + Window
  BY DEF Windowed
<1>6. A \subseteq D /\ B \subseteq F /\ C \subseteq G /\ IsFiniteSet(D) /\ IsFiniteSet(F) /\ IsFiniteSet(G)
  BY <1>1, <1>2, <1>3, <1>4
<1> HIDE DEF A, B, C, D, F, G
<1>7. /\ Cardinality(A) <= Cardinality(D) /\ Cardinality(B) <= Cardinality(F) /\ Cardinality(C) <= Cardinality(G)
      /\ Cardinality(A) \in Nat /\ Cardinality(B) \in Nat /\ Cardinality(C) \in Nat
      /\ Cardinality(D) \in Nat /\ Cardinality(F) \in Nat /\ Cardinality(G) \in Nat
  BY <1>6, Fewer
<1>8. /\ c \in 1 .. max /\ s \in 0 .. later
      /\ Cardinality(A) <= c /\ Cardinality(B) <= c - 1 /\ Cardinality(C) <= max - 1
  BY <1>5, <1>7
<1> QED BY <1>5, <1>8 DEF Windowed, A, B, C

(* One more in a window that still runs. *)
LEMMA WindowGrows ==
  ASSUME Window \in Nat, NEW w, NEW v, NEW I, IsFiniteSet(I), NEW n, n \notin I, NEW J, J \subseteq I \cup {n},
         \A i \in I : w[i].at \in Nat /\ v[i].at = w[i].at,
         NEW c, NEW s, NEW max \in Nat, NEW time \in Nat, v[n].at = time,
         Windowed(w, I, c, s, max, time), c # max, time < s + Window
  PROVE  Windowed(v, J, c + 1, s, max, time)
<1> DEFINE A == {i \in J : v[i].at >= s}
           B == {i \in J : v[i].at > s}
           C == {i \in J : v[i].at < s}
           D == {i \in I : w[i].at >= s}
           F == {i \in I : w[i].at > s}
           G == {i \in I : w[i].at < s}
<1>1. /\ c \in 1 .. max /\ s \in 0 .. time /\ Cardinality(D) <= c /\ Cardinality(F) <= c - 1 /\ Cardinality(G) <= max - 1
      /\ \A i \in I : w[i].at < s + Window
  BY DEF Windowed
<1>2. \A i \in J : v[i].at < s + Window BY <1>1
<1>3. A \subseteq D \cup {n} /\ B \subseteq F \cup {n} OBVIOUS
<1>4. C \subseteq G BY <1>1
<1>5. IsFiniteSet(D) /\ IsFiniteSet(F) /\ IsFiniteSet(G) BY FS_Subset
<1> HIDE DEF A, B, C, D, F, G
<1>6. /\ Cardinality(A) <= Cardinality(D) + 1 /\ Cardinality(B) <= Cardinality(F) + 1
      /\ Cardinality(A) \in Nat /\ Cardinality(B) \in Nat
      /\ Cardinality(D) \in Nat /\ Cardinality(F) \in Nat
  BY <1>3, <1>5, OneMore
<1>7. Cardinality(C) <= Cardinality(G) /\ Cardinality(C) \in Nat /\ Cardinality(G) \in Nat
  BY <1>4, <1>5, Fewer
<1>8. /\ c + 1 \in 1 .. max /\ Cardinality(A) <= c + 1 /\ Cardinality(B) <= (c + 1) - 1 /\ Cardinality(C) <= max - 1
  BY <1>1, <1>6, <1>7
<1> QED BY <1>1, <1>2, <1>8 DEF Windowed, A, B, C

(* A window that has ended leaves fewer than the lock: not its first. *)
LEMMA WindowEnds ==
  ASSUME Window \in Nat, NEW w, NEW I, IsFiniteSet(I), NEW c, NEW s, NEW max \in Nat, NEW time \in Nat,
         \A i \in I : w[i].at \in Nat /\ time < w[i].at + Window,
         Windowed(w, I, c, s, max, time), s + Window <= time
  PROVE  Gone(w, I, max, time)
<1>1. c \in 1 .. max /\ s \in 0 .. time /\ Cardinality({i \in I : w[i].at > s}) <= c - 1
      /\ \A i \in I : w[i].at < s + Window
  BY DEF Windowed
<1>2. \A i \in I : w[i].at < time /\ w[i].at > s BY <1>1
<1>3. {i \in I : w[i].at > s} = I BY <1>2
<1>4. Cardinality(I) <= c - 1 BY <1>1, <1>3
<1>5. Cardinality(I) <= max - 1 BY <1>1, <1>4, FS_CardinalityType
<1> QED BY <1>2, <1>5 DEF Gone

(* The first of a new window. *)
LEMMA WindowBegins ==
  ASSUME Window \in Nat \ {0}, NEW w, NEW v, NEW I, IsFiniteSet(I), NEW n, n \notin I, NEW J, J \subseteq I \cup {n},
         \A i \in I : w[i].at \in Nat /\ v[i].at = w[i].at,
         NEW max \in Nat \ {0}, NEW time \in Nat, v[n].at = time,
         Gone(w, I, max, time)
  PROVE  Windowed(v, J, 1, time, max, time)
<1> DEFINE A == {i \in J : v[i].at >= time}
           B == {i \in J : v[i].at > time}
           C == {i \in J : v[i].at < time}
<1>1. Cardinality(I) <= max - 1 /\ \A i \in I : w[i].at < time BY DEF Gone
<1>2. A \subseteq {n} /\ B = {} BY <1>1
<1>3. C \subseteq I OBVIOUS
<1>4. \A i \in J : v[i].at < time + Window BY <1>1
<1> HIDE DEF A, B, C
<1>5. IsFiniteSet({n}) /\ Cardinality({n}) = 1 BY FS_Singleton
<1>6. Cardinality(A) <= 1 BY <1>2, <1>5, Fewer
<1>7. Cardinality(B) = 0 BY <1>2, FS_EmptySet
<1>8. Cardinality(C) <= max - 1 BY <1>1, <1>3, Fewer
<1>9. 1 \in 1 .. max /\ time \in 0 .. time /\ Cardinality(B) <= 1 - 1 BY <1>7
<1> QED BY <1>4, <1>6, <1>8, <1>9 DEF Windowed, A, B, C

(* What is gone stays gone. *)
LEMMA GoneStays ==
  ASSUME NEW w, NEW v, NEW I, IsFiniteSet(I), NEW J, J \subseteq I,
         \A i \in J : v[i].at = w[i].at /\ v[i].at \in Nat,
         NEW max \in Nat, NEW time \in Nat, NEW later \in Nat, time <= later, Gone(w, I, max, time)
  PROVE  Gone(v, J, max, later)
<1>1. Cardinality(I) <= max - 1 /\ \A i \in I : w[i].at < time BY DEF Gone
<1>2. Cardinality(J) <= max - 1 BY <1>1, Fewer
<1> QED BY <1>1, <1>2 DEF Gone

(* However many windows, the recent answers are those of two of them. *)
LEMMA WindowBound ==
  ASSUME NEW w, NEW I, IsFiniteSet(I), \A i \in I : w[i].at \in Nat, NEW max \in Nat \ {0}, NEW c, NEW s, NEW time \in Nat,
         Gone(w, I, max, time) \/ Windowed(w, I, c, s, max, time)
  PROVE  Cardinality(I) <= 2 * max - 1
<1>0. Cardinality(I) \in Nat BY FS_CardinalityType
<1>1. CASE Gone(w, I, max, time) BY <1>0, <1>1 DEF Gone
<1>2. CASE Windowed(w, I, c, s, max, time)
  <2> DEFINE D == {i \in I : w[i].at >= s}
             G == {i \in I : w[i].at < s}
  <2>1. c \in 1 .. max /\ s \in Nat /\ Cardinality(D) <= c /\ Cardinality(G) <= max - 1 BY <1>2 DEF Windowed
  <2>2. I = D \cup G BY <2>1
  <2>3. IsFiniteSet(D) /\ IsFiniteSet(G) BY FS_Subset
  <2> HIDE DEF D, G
  <2>4. /\ Cardinality(D \cup G) = Cardinality(D) + Cardinality(G) - Cardinality(D \cap G)
        /\ Cardinality(D \cap G) \in Nat /\ Cardinality(D) \in Nat /\ Cardinality(G) \in Nat
    BY <2>3, FS_Union, FS_Intersection, FS_CardinalityType
  <2> QED BY <2>1, <2>2, <2>4
<1> QED BY <1>1, <1>2

-----------------------------------------------------------------------------
(* The wrong answers that are kept. *)
LEMMA UnusedIsFree ==
  ASSUME WrongTypes
  PROVE  Admin!Unused \in Nat \ {0} /\ Admin!Unused \notin DOMAIN wrong
<1> DEFINE k == Cardinality(DOMAIN wrong)
           N == 1 .. k + 1
<1>1. k \in Nat /\ IsFiniteSet(DOMAIN wrong) BY FS_CardinalityType DEF WrongTypes
<1>2. \E n \in N : n \notin DOMAIN wrong
  <2> SUFFICES ASSUME N \subseteq DOMAIN wrong PROVE FALSE
    OBVIOUS
  <2>1. Cardinality(N) = k + 1 BY <1>1, FS_Interval
  <2> HIDE DEF N
  <2>2. Cardinality(N) <= k BY <1>1, Fewer
  <2> HIDE DEF k
  <2> QED BY <1>1, <2>1, <2>2
<1>3. Admin!Unused = CHOOSE n \in N : n \notin DOMAIN wrong BY AdminCardinality DEF Admin!Unused
<1>4. Admin!Unused \in N /\ Admin!Unused \notin DOMAIN wrong
  <2> HIDE DEF N
  <2> QED BY <1>2, <1>3
<1> QED BY <1>1, <1>4

LEMMA ForgivenFacts ==
  ASSUME WrongTypes, NEW a, NEW all \in BOOLEAN
  PROVE  LET f == Admin!Forgiven(a, all)
         IN /\ DOMAIN f = DOMAIN wrong
            /\ \A i \in DOMAIN wrong :
                 /\ f[i] \in [from : Froms, at : Nat, own : BOOLEAN]
                 /\ f[i].from = wrong[i].from /\ f[i].at = wrong[i].at
                 /\ f[i].own => wrong[i].own
                 /\ all /\ wrong[i].from = a => ~f[i].own
<1> DEFINE f == Admin!Forgiven(a, all)
<1>1. DOMAIN f = DOMAIN wrong BY DEF Admin!Forgiven
<1>2. ASSUME NEW i \in DOMAIN wrong
      PROVE  /\ f[i] \in [from : Froms, at : Nat, own : BOOLEAN]
             /\ f[i].from = wrong[i].from /\ f[i].at = wrong[i].at
             /\ f[i].own => wrong[i].own
             /\ all /\ wrong[i].from = a => ~f[i].own
  <2>1. wrong[i] \in [from : Froms, at : Nat, own : BOOLEAN] BY DEF WrongTypes
  <2>2. CASE all /\ wrong[i].from = a
    <3> DEFINE no == FALSE
    <3>1. f[i] = [wrong[i] EXCEPT !.own = no] BY <2>2 DEF Admin!Forgiven
    <3>2. no \in BOOLEAN /\ ~no OBVIOUS
    <3> HIDE DEF f, no
    <3>3. f[i] \in [from : Froms, at : Nat, own : BOOLEAN] /\ f[i].from = wrong[i].from /\ f[i].at = wrong[i].at
      BY <2>1, <3>1, <3>2
    <3>4. f[i].own = no BY <2>1, <3>1
    <3> QED BY <3>2, <3>3, <3>4, Zenon
  <2>3. CASE ~(all /\ wrong[i].from = a)
    <3>1. f[i] = wrong[i] BY <2>3 DEF Admin!Forgiven
    <3> HIDE DEF f
    <3> QED BY <2>1, <2>3, <3>1, Zenon
  <2> QED BY <2>2, <2>3
<1> QED BY <1>1, <1>2

(* A wrong answer of b is kept; a's are no longer its own, if all are       *)
(* forgiven.                                                                *)
LEMMA WrongNoted ==
  ASSUME WrongTypes, PanelBounds, DoorTypes, NEW a, NEW all \in BOOLEAN, NEW b \in Froms,
         wrong' = Admin!With(Admin!Forgiven(a, all), Admin!Unused, [from |-> b, at |-> aclock, own |-> TRUE]),
         aclock' = aclock
  PROVE  /\ WrongTypes' /\ Admin!Unused \notin DOMAIN wrong
         /\ wrong'[Admin!Unused].at = aclock
         /\ \A i \in DOMAIN wrong : wrong'[i].at = wrong[i].at
         /\ \A c \in Froms : Own(c)' \subseteq Own(c) \cup {Admin!Unused}
         /\ \A c \in Froms : c # b => Own(c)' \subseteq Own(c)
         /\ all /\ a # b => Own(a)' = {}
         /\ Others' \subseteq Others \cup {Admin!Unused}
         /\ ~Admin!Remote(b) => Others' \subseteq Others
<1> DEFINE f == Admin!Forgiven(a, all)
           n == Admin!Unused
           yes == TRUE
           r == [from |-> b, at |-> aclock, own |-> yes]
<1>1. n \in Nat \ {0} /\ n \notin DOMAIN wrong BY UnusedIsFree
<1>2. /\ DOMAIN f = DOMAIN wrong
      /\ \A i \in DOMAIN wrong :
           /\ f[i] \in [from : Froms, at : Nat, own : BOOLEAN]
           /\ f[i].from = wrong[i].from /\ f[i].at = wrong[i].at
           /\ f[i].own => wrong[i].own
           /\ all /\ wrong[i].from = a => ~f[i].own
  BY ForgivenFacts
<1>3. wrong' = Admin!With(f, n, r) OBVIOUS
<1>4. yes \in BOOLEAN OBVIOUS
<1> HIDE DEF f, n, yes
<1>5. aclock \in Nat BY DEF DoorTypes
<1>6. r \in [from : Froms, at : Nat, own : BOOLEAN] /\ r.from = b /\ r.at = aclock BY <1>4, <1>5
<1> HIDE DEF r
<1>7. /\ DOMAIN wrong' = DOMAIN wrong \cup {n} /\ wrong'[n] = r
      /\ \A i \in DOMAIN wrong : wrong'[i] = f[i]
  BY <1>1, <1>2, <1>3 DEF Admin!With
<1>8. WrongTypes'
  <2>1. DOMAIN wrong' \subseteq Nat \ {0} /\ IsFiniteSet(DOMAIN wrong')
    BY <1>1, <1>7, FS_AddElement DEF WrongTypes
  <2>2. ASSUME NEW i \in DOMAIN wrong'
        PROVE  /\ wrong'[i] \in [from : Froms, at : Nat, own : BOOLEAN]
               /\ wrong'[i].at <= aclock /\ aclock < wrong'[i].at + Window
    <3>1. CASE i = n
      <4>1. wrong'[i].at = aclock /\ wrong'[i] \in [from : Froms, at : Nat, own : BOOLEAN] BY <1>6, <1>7, <3>1, Zenon
      <4> QED BY <1>5, <4>1 DEF PanelBounds
    <3>2. CASE i \in DOMAIN wrong
      <4>1. /\ wrong'[i] \in [from : Froms, at : Nat, own : BOOLEAN] /\ wrong'[i].at = wrong[i].at
            /\ wrong[i].at <= aclock /\ aclock < wrong[i].at + Window
        BY <1>2, <1>7, <3>2, Zenon DEF WrongTypes
      <4> QED BY <4>1
    <3> QED BY <1>7, <3>1, <3>2
  <2> QED BY <2>1, <2>2, Zenon DEF WrongTypes
<1>9. wrong'[n].at = aclock /\ \A i \in DOMAIN wrong : wrong'[i].at = wrong[i].at
  BY <1>2, <1>6, <1>7, Zenon
<1>10. \A c \in Froms : Own(c)' \subseteq Own(c) \cup {n}
  BY <1>2, <1>7, Zenon DEF Own
<1>11. \A c \in Froms : c # b => n \notin Own(c)' /\ Own(c)' \subseteq Own(c)
  <2>1. wrong'[n].from = b BY <1>6, <1>7
  <2>2. \A c \in Froms : c # b => n \notin Own(c)' BY <2>1 DEF Own
  <2> QED BY <1>10, <2>2
<1>12. all /\ a # b => Own(a)' = {}
  <2> SUFFICES ASSUME all, a # b, NEW i \in Own(a)' PROVE FALSE
    OBVIOUS
  <2>1. i \in DOMAIN wrong' /\ wrong'[i].from = a /\ wrong'[i].own BY DEF Own
  <2>2. i # n BY <1>6, <1>7, <2>1
  <2>3. i \in DOMAIN wrong BY <1>7, <2>1, <2>2
  <2>4. wrong'[i] = f[i] BY <1>7, <2>3
  <2>5. f[i].from = a /\ f[i].own BY <2>1, <2>4, Zenon
  <2>6. wrong[i].from = a BY <1>2, <2>3, <2>5
  <2>7. ~f[i].own BY <1>2, <2>3, <2>6, Zenon
  <2> QED BY <2>5, <2>7, Zenon
<1>13. Others' \subseteq Others \cup {n}
  BY <1>2, <1>7, Zenon DEF Others
<1>14. ~Admin!Remote(b) => Others' \subseteq Others
  BY <1>2, <1>6, <1>7, Zenon DEF Others
<1> QED BY <1>1, <1>8, <1>9, <1>10, <1>11, <1>12, <1>13, <1>14, ZenonT(60) DEF n

(* Those of a are forgiven. *)
LEMMA WrongForgiven ==
  ASSUME WrongTypes, NEW a, wrong' = Admin!Forgiven(a, TRUE), aclock' = aclock
  PROVE  /\ WrongTypes'
         /\ \A i \in DOMAIN wrong : wrong'[i].at = wrong[i].at
         /\ \A c \in Froms : Own(c)' \subseteq Own(c)
         /\ Own(a)' = {} /\ Others' \subseteq Others
<1>1. /\ DOMAIN wrong' = DOMAIN wrong
      /\ \A i \in DOMAIN wrong :
           /\ wrong'[i] \in [from : Froms, at : Nat, own : BOOLEAN]
           /\ wrong'[i].from = wrong[i].from /\ wrong'[i].at = wrong[i].at
           /\ wrong'[i].own => wrong[i].own
           /\ wrong[i].from = a => ~wrong'[i].own
  BY ForgivenFacts, Zenon
<1>2. WrongTypes' BY <1>1, Zenon DEF WrongTypes
<1>3. \A c \in Froms : Own(c)' \subseteq Own(c) BY <1>1, Zenon DEF Own
<1>4. Own(a)' = {} BY <1>1, Zenon DEF Own
<1>5. Others' \subseteq Others BY <1>1, Zenon DEF Others
<1> QED BY <1>1, <1>2, <1>3, <1>4, <1>5

(* The finite sets of them. *)
LEMMA WrongFinite ==
  ASSUME WrongTypes
  PROVE  /\ \A a \in Froms : IsFiniteSet(Own(a)) /\ Own(a) \subseteq DOMAIN wrong
         /\ IsFiniteSet(Others) /\ Others \subseteq DOMAIN wrong
         /\ \A i \in DOMAIN wrong : wrong[i].at \in Nat /\ aclock < wrong[i].at + Window
<1>1. Others \subseteq DOMAIN wrong /\ \A a \in Froms : Own(a) \subseteq DOMAIN wrong BY DEF Own, Others
<1>2. IsFiniteSet(DOMAIN wrong) BY DEF WrongTypes
<1>3. \A i \in DOMAIN wrong : wrong[i].at \in Nat /\ aclock < wrong[i].at + Window BY DEF WrongTypes
<1> QED BY <1>1, <1>2, <1>3, FS_Subset

-----------------------------------------------------------------------------
(* note_failure keeps the table, and every window, in order. *)
Ended == {b \in DOMAIN perKey : perKey[b][2] + Window <= aclock}
Kept == Admin!Without(perKey, Ended)
Full(a) == Admin!Cardinality(DOMAIN Kept) >= MaxTracked /\ a \notin DOMAIN Kept
Oldest == CHOOSE b \in DOMAIN Kept : \A c \in DOMAIN Kept : Kept[b][2] <= Kept[c][2]
Room(a) == IF Full(a) THEN Admin!Without(Kept, {Oldest}) ELSE Kept

LEMMA NoteFailureIs ==
  ASSUME NEW a, Admin!NoteFailure(a)
  PROVE  /\ perKey' = Admin!With(Room(a), a, IF a \in DOMAIN Room(a) THEN <<Room(a)[a][1] + 1, Room(a)[a][2]>> ELSE <<1, aclock>>)
         /\ allRemote' = IF ~Admin!Remote(a) THEN allRemote
                         ELSE IF allRemote[1] > 0 /\ allRemote[2] + Window > aclock
                         THEN <<allRemote[1] + 1, allRemote[2]>> ELSE <<1, aclock>>
         /\ wrong' = Admin!With(Admin!Forgiven(IF Full(a) THEN Oldest ELSE a, Full(a)), Admin!Unused,
                                [from |-> a, at |-> aclock, own |-> TRUE])
BY Zenon DEF Admin!NoteFailure, Ended, Kept, Full, Oldest, Room

(* What is left in the table when there is room. *)
LEMMA RoomFacts ==
  ASSUME PanelBounds, DoorTypes, TrackedTypes, NEW a \in Froms
  PROVE  /\ DOMAIN Room(a) \subseteq DOMAIN perKey \ Ended
         /\ \A b \in DOMAIN Room(a) : Room(a)[b] = perKey[b]
         /\ \A b \in DOMAIN perKey : b \in DOMAIN Room(a) \/ b \in Ended \/ (Full(a) /\ b = Oldest)
         /\ Full(a) => a \notin DOMAIN Room(a) /\ Oldest # a /\ Oldest \in Froms
         /\ IsFiniteSet(DOMAIN Room(a) \cup {a}) /\ Cardinality(DOMAIN Room(a) \cup {a}) <= MaxTracked
<1> DEFINE k == DOMAIN Kept
<1>1. /\ DOMAIN Kept = DOMAIN perKey \ Ended
      /\ \A b \in DOMAIN Kept : Kept[b] = perKey[b]
  BY DEF Kept, Admin!Without, Ended
<1>2. IsFiniteSet(DOMAIN perKey) /\ DOMAIN perKey \subseteq Froms /\ Cardinality(DOMAIN perKey) <= MaxTracked
  BY FS_Subset DEF PanelBounds, TrackedTypes
<1>3. IsFiniteSet(k) /\ Cardinality(k) <= MaxTracked /\ Cardinality(k) \in Nat
  <2>1. k \subseteq DOMAIN perKey BY <1>1
  <2> HIDE DEF k
  <2>2. /\ IsFiniteSet(k) /\ Cardinality(k) \in Nat /\ Cardinality(DOMAIN perKey) \in Nat
        /\ Cardinality(k) <= Cardinality(DOMAIN perKey)
    BY <1>2, <2>1, Fewer
  <2> QED BY <1>2, <2>2 DEF PanelBounds
<1>4. CASE Full(a)
  <2>1. Cardinality(k) >= MaxTracked /\ a \notin k BY <1>4, AdminCardinality DEF Full
  <2>2. k # {} BY <1>3, <2>1, FS_EmptySet DEF PanelBounds
  <2>3. Oldest \in k
    <3> DEFINE f == [b \in k |-> Kept[b][2]]
    <3>1. \A b \in k : f[b] \in Nat BY <1>1 DEF TrackedTypes, DoorTypes
    <3>2. \E b \in k : \A c \in k : f[b] <= f[c]
      <4> HIDE DEF k, f
      <4> QED BY <2>2, <3>1, LeastExists
    <3>3. \E b \in k : \A c \in k : Kept[b][2] <= Kept[c][2] BY <3>2
    <3> QED BY <3>3 DEF Oldest
  <2>4. DOMAIN Room(a) = k \ {Oldest} /\ \A b \in k \ {Oldest} : Room(a)[b] = Kept[b]
    BY <1>4 DEF Room, Admin!Without
  <2>5. Cardinality(k \ {Oldest}) = Cardinality(k) - 1 /\ IsFiniteSet(k \ {Oldest})
    BY <1>3, <2>3, FS_RemoveElement
  <2>6. a \notin k \ {Oldest} BY <2>1
  <2>7. IsFiniteSet((k \ {Oldest}) \cup {a}) /\ Cardinality((k \ {Oldest}) \cup {a}) = Cardinality(k)
    <3> DEFINE m == k \ {Oldest}
    <3> HIDE DEF k
    <3>1. IsFiniteSet(m) /\ a \notin m /\ Cardinality(m) = Cardinality(k) - 1 BY <2>5, <2>6
    <3> HIDE DEF m
    <3>2. IsFiniteSet(m \cup {a}) /\ Cardinality(m \cup {a}) = Cardinality(m) + 1 BY <3>1, FS_AddElement
    <3> QED BY <1>3, <3>1, <3>2 DEF m
  <2> QED BY <1>1, <1>2, <1>3, <1>4, <2>1, <2>3, <2>4, <2>7
<1>5. CASE ~Full(a)
  <2>1. Room(a) = Kept BY <1>5 DEF Room
  <2>2. Cardinality(k) < MaxTracked \/ a \in k BY <1>3, <1>5, AdminCardinality DEF Full, PanelBounds
  <2>3. IsFiniteSet(k \cup {a}) /\ Cardinality(k \cup {a}) <= MaxTracked
    <3> HIDE DEF k
    <3>1. IsFiniteSet(k \cup {a}) /\ Cardinality(k \cup {a}) = IF a \in k THEN Cardinality(k) ELSE Cardinality(k) + 1
      BY <1>3, FS_AddElement
    <3> QED BY <1>3, <2>2, <3>1 DEF PanelBounds
  <2> QED BY <1>1, <1>5, <2>1, <2>3
<1> QED BY <1>4, <1>5

(* The window of an address that is left as it is. *)
LEMMA OtherWindow ==
  ASSUME PanelBounds, DoorTypes, WrongTypes, GuessInv, NEW c \in Froms, aclock' = aclock,
         WrongTypes', \A i \in DOMAIN wrong : wrong'[i].at = wrong[i].at, Own(c)' \subseteq Own(c)
  PROVE  IF c \in DOMAIN perKey THEN Windowed(wrong', Own(c)', perKey[c][1], perKey[c][2], MaxFailures, aclock)
         ELSE Gone(wrong', Own(c)', MaxFailures, aclock)
<1>1. IsFiniteSet(Own(c)) /\ Own(c) \subseteq DOMAIN wrong /\ \A i \in DOMAIN wrong : wrong[i].at \in Nat
  BY WrongFinite
<1>2. \A i \in Own(c)' : wrong'[i].at = wrong[i].at /\ wrong'[i].at \in Nat BY <1>1
<1>3. aclock \in Nat /\ MaxFailures \in Nat BY DEF DoorTypes, PanelBounds
<1>4. CASE c \in DOMAIN perKey
  <2>1. Windowed(wrong, Own(c), perKey[c][1], perKey[c][2], MaxFailures, aclock) BY <1>4 DEF GuessInv
  <2> QED BY <1>1, <1>2, <1>3, <1>4, <2>1, WindowStays
<1>5. CASE c \notin DOMAIN perKey
  <2>1. Gone(wrong, Own(c), MaxFailures, aclock) BY <1>5 DEF GuessInv
  <2> QED BY <1>1, <1>2, <1>3, <1>5, <2>1, GoneStays
<1> QED BY <1>4, <1>5

(* A window that has ended counts no more than one that is not there. *)
LEMMA EndedGone ==
  ASSUME PanelBounds, DoorTypes, TrackedTypes, WrongTypes, GuessInv, NEW c \in Froms, c \in Ended \/ c \notin DOMAIN perKey
  PROVE  Gone(wrong, Own(c), MaxFailures, aclock)
<1>1. IsFiniteSet(Own(c)) /\ Own(c) \subseteq DOMAIN wrong
      /\ \A i \in DOMAIN wrong : wrong[i].at \in Nat /\ aclock < wrong[i].at + Window
  BY WrongFinite
<1>2. aclock \in Nat /\ MaxFailures \in Nat /\ Window \in Nat BY DEF DoorTypes, PanelBounds
<1>3. CASE c \in Ended
  <2>1. c \in DOMAIN perKey /\ perKey[c][2] + Window <= aclock BY <1>3 DEF Ended
  <2>2. Windowed(wrong, Own(c), perKey[c][1], perKey[c][2], MaxFailures, aclock) BY <2>1 DEF GuessInv
  <2> QED BY <1>1, <1>2, <2>1, <2>2, WindowEnds
<1>4. CASE c \notin DOMAIN perKey BY <1>4 DEF GuessInv
<1> QED BY <1>3, <1>4

LEMMA FailureNoted ==
  ASSUME PanelBounds, DoorTypes, TrackedTypes, WrongTypes, GuessInv, NEW a \in Froms, ~Admin!Locked(a),
         Admin!NoteFailure(a), aclock' = aclock
  PROVE  /\ TrackedTypes' /\ WrongTypes' /\ GuessInv'
         /\ allRemote'[1] \in Nat /\ allRemote'[2] \in 0 .. aclock
<1> DEFINE n == Admin!Unused
<1> PICK who : who = IF Full(a) THEN Oldest ELSE a OBVIOUS
<1> PICK all \in BOOLEAN : all = Full(a) BY DEF Full
<1>0. aclock \in Nat /\ MaxFailures \in Nat \ {0} /\ MaxGlobalFailures \in Nat \ {0} /\ Window \in Nat \ {0}
  BY DEF DoorTypes, PanelBounds
<1>1. /\ DOMAIN Room(a) \subseteq DOMAIN perKey \ Ended
      /\ \A b \in DOMAIN Room(a) : Room(a)[b] = perKey[b]
      /\ \A b \in DOMAIN perKey : b \in DOMAIN Room(a) \/ b \in Ended \/ (Full(a) /\ b = Oldest)
      /\ Full(a) => a \notin DOMAIN Room(a) /\ Oldest # a /\ Oldest \in Froms
      /\ IsFiniteSet(DOMAIN Room(a) \cup {a}) /\ Cardinality(DOMAIN Room(a) \cup {a}) <= MaxTracked
  BY RoomFacts
<1>2. /\ perKey' = Admin!With(Room(a), a, IF a \in DOMAIN Room(a) THEN <<Room(a)[a][1] + 1, Room(a)[a][2]>> ELSE <<1, aclock>>)
      /\ allRemote' = IF ~Admin!Remote(a) THEN allRemote
                      ELSE IF allRemote[1] > 0 /\ allRemote[2] + Window > aclock
                      THEN <<allRemote[1] + 1, allRemote[2]>> ELSE <<1, aclock>>
      /\ wrong' = Admin!With(Admin!Forgiven(who, all), n, [from |-> a, at |-> aclock, own |-> TRUE])
  BY NoteFailureIs
<1>3. /\ WrongTypes' /\ n \notin DOMAIN wrong
      /\ wrong'[n].at = aclock
      /\ \A i \in DOMAIN wrong : wrong'[i].at = wrong[i].at
      /\ \A c \in Froms : Own(c)' \subseteq Own(c) \cup {n}
      /\ \A c \in Froms : c # a => Own(c)' \subseteq Own(c)
      /\ all /\ who # a => Own(who)' = {}
      /\ Others' \subseteq Others \cup {n}
      /\ ~Admin!Remote(a) => Others' \subseteq Others
  BY <1>2, WrongNoted, Zenon
<1>4. /\ DOMAIN perKey' = DOMAIN Room(a) \cup {a}
      /\ \A c \in DOMAIN Room(a) : c # a => perKey'[c] = perKey[c]
      /\ a \in DOMAIN Room(a) => perKey'[a] = <<perKey[a][1] + 1, perKey[a][2]>>
      /\ a \notin DOMAIN Room(a) => perKey'[a] = <<1, aclock>>
  BY <1>1, <1>2, Zenon DEF Admin!With
<1>5. /\ IsFiniteSet(Others) /\ Others \subseteq DOMAIN wrong
      /\ IsFiniteSet(Own(a)) /\ Own(a) \subseteq DOMAIN wrong
      /\ \A i \in DOMAIN wrong : wrong[i].at \in Nat /\ aclock < wrong[i].at + Window
  BY WrongFinite
<1> HIDE DEF n
<1>6. TrackedTypes'
  <2>1. DOMAIN perKey' \subseteq Froms /\ Cardinality(DOMAIN perKey') <= MaxTracked
    BY <1>1, <1>4 DEF TrackedTypes
  <2>2. ASSUME NEW c \in DOMAIN perKey' PROVE perKey'[c][1] \in Nat /\ perKey'[c][2] \in 0 .. aclock
    <3>1. CASE c \in DOMAIN Room(a) /\ c # a BY <1>1, <1>4, <3>1 DEF TrackedTypes
    <3>2. CASE c = a /\ a \in DOMAIN Room(a) BY <1>1, <1>4, <3>2 DEF TrackedTypes
    <3>3. CASE c = a /\ a \notin DOMAIN Room(a) BY <1>0, <1>4, <3>3
    <3> QED BY <1>4, <3>1, <3>2, <3>3
  <2> QED BY <2>1, <2>2 DEF TrackedTypes
<1>7. ASSUME NEW c \in Froms
      PROVE  IF c \in DOMAIN perKey' THEN Windowed(wrong', Own(c)', perKey'[c][1], perKey'[c][2], MaxFailures, aclock)
             ELSE Gone(wrong', Own(c)', MaxFailures, aclock)
  <2>1. CASE c = a /\ a \in DOMAIN Room(a)
    <3>1. a \in DOMAIN perKey /\ a \notin Ended BY <1>1, <2>1
    <3>2. Windowed(wrong, Own(a), perKey[a][1], perKey[a][2], MaxFailures, aclock) BY <3>1 DEF GuessInv
    <3>3. perKey[a][2] \in Nat /\ perKey[a][1] \in 1 .. MaxFailures /\ aclock < perKey[a][2] + Window
      BY <1>0, <3>1, <3>2 DEF TrackedTypes, Ended, Windowed
    <3>4. perKey[a][1] # MaxFailures BY <1>0, <3>1, <3>3 DEF Admin!Locked, Admin!OwnLock
    <3>5. n \notin Own(a) /\ Own(a)' \subseteq Own(a) \cup {n} BY <1>3, <1>5
    <3>6. \A i \in Own(a) : wrong[i].at \in Nat /\ wrong'[i].at = wrong[i].at BY <1>3, <1>5
    <3>7. Windowed(wrong', Own(a)', perKey[a][1] + 1, perKey[a][2], MaxFailures, aclock)
      BY <1>0, <1>3, <1>5, <3>2, <3>3, <3>4, <3>5, <3>6, WindowGrows
    <3>8. perKey'[a][1] = perKey[a][1] + 1 /\ perKey'[a][2] = perKey[a][2] /\ a \in DOMAIN perKey' BY <1>4, <2>1
    <3> QED BY <2>1, <3>7, <3>8
  <2>2. CASE c = a /\ a \notin DOMAIN Room(a)
    <3>1. a \in Ended \/ a \notin DOMAIN perKey BY <1>1, <2>2
    <3>2. Gone(wrong, Own(a), MaxFailures, aclock) BY <3>1, EndedGone
    <3>3. n \notin Own(a) /\ Own(a)' \subseteq Own(a) \cup {n} BY <1>3, <1>5
    <3>4. \A i \in Own(a) : wrong[i].at \in Nat /\ wrong'[i].at = wrong[i].at BY <1>3, <1>5
    <3>5. Windowed(wrong', Own(a)', 1, aclock, MaxFailures, aclock)
      BY <1>0, <1>3, <1>5, <3>2, <3>3, <3>4, WindowBegins
    <3>6. perKey'[a][1] = 1 /\ perKey'[a][2] = aclock /\ a \in DOMAIN perKey' BY <1>4, <2>2
    <3> QED BY <2>2, <3>5, <3>6
  <2>3. CASE c # a /\ Full(a) /\ c = Oldest
    <3>1. Own(c)' = {} BY <1>1, <1>3, <2>3
    <3>2. c \notin DOMAIN perKey' \/ c \in DOMAIN Room(a) BY <1>4, <2>3
    <3>3. c \notin DOMAIN Room(a) BY <2>3 DEF Room, Admin!Without
    <3>4. Gone(wrong', Own(c)', MaxFailures, aclock) BY <1>0, <3>1, FS_EmptySet DEF Gone
    <3> QED BY <3>2, <3>3, <3>4
  <2>4. CASE c # a /\ ~(Full(a) /\ c = Oldest)
    <3>1. Own(c)' \subseteq Own(c) BY <1>3, <2>4
    <3>2. IF c \in DOMAIN perKey THEN Windowed(wrong', Own(c)', perKey[c][1], perKey[c][2], MaxFailures, aclock)
          ELSE Gone(wrong', Own(c)', MaxFailures, aclock)
      BY <1>3, <3>1, OtherWindow
    <3>3. CASE c \in DOMAIN Room(a)
      <4>1. c \in DOMAIN perKey' /\ c \in DOMAIN perKey /\ perKey'[c] = perKey[c] BY <1>1, <1>4, <2>4, <3>3
      <4> QED BY <3>2, <4>1
    <3>4. CASE c \notin DOMAIN Room(a)
      <4>1. c \notin DOMAIN perKey' /\ (c \in Ended \/ c \notin DOMAIN perKey) BY <1>1, <1>4, <2>4, <3>4
      <4>2. Gone(wrong, Own(c), MaxFailures, aclock) BY <4>1, EndedGone
      <4>3. IsFiniteSet(Own(c)) /\ \A i \in Own(c)' : wrong'[i].at = wrong[i].at /\ wrong'[i].at \in Nat
        BY <1>3, <3>1, WrongFinite
      <4>4. Gone(wrong', Own(c)', MaxFailures, aclock) BY <1>0, <3>1, <4>2, <4>3, GoneStays
      <4> QED BY <4>1, <4>4
    <3> QED BY <3>3, <3>4
  <2> QED BY <2>1, <2>2, <2>3, <2>4
<1>8. IF allRemote'[1] = 0 THEN Gone(wrong', Others', MaxGlobalFailures, aclock)
      ELSE Windowed(wrong', Others', allRemote'[1], allRemote'[2], MaxGlobalFailures, aclock)
  <2>1. n \notin Others /\ \A i \in Others : wrong[i].at \in Nat /\ wrong'[i].at = wrong[i].at BY <1>3, <1>5
  <2>2. allRemote[1] \in Nat /\ allRemote[2] \in 0 .. aclock BY DEF DoorTypes
  <2>3. CASE ~Admin!Remote(a)
    <3>1. allRemote' = allRemote /\ Others' \subseteq Others BY <1>2, <1>3, <2>3
    <3>2. \A i \in Others' : wrong'[i].at = wrong[i].at /\ wrong'[i].at \in Nat BY <2>1, <3>1
    <3>3. CASE allRemote[1] = 0
      <4>1. Gone(wrong, Others, MaxGlobalFailures, aclock) BY <3>3 DEF GuessInv
      <4> QED BY <1>0, <1>5, <3>1, <3>2, <3>3, <4>1, GoneStays
    <3>4. CASE allRemote[1] # 0
      <4>1. Windowed(wrong, Others, allRemote[1], allRemote[2], MaxGlobalFailures, aclock) BY <3>4 DEF GuessInv
      <4> QED BY <1>0, <1>5, <3>1, <3>2, <3>4, <4>1, WindowStays
    <3> QED BY <3>3, <3>4
  <2>4. CASE Admin!Remote(a) /\ allRemote[1] > 0 /\ allRemote[2] + Window > aclock
    <3>1. allRemote'[1] = allRemote[1] + 1 /\ allRemote'[2] = allRemote[2] BY <1>2, <2>4
    <3>2. Windowed(wrong, Others, allRemote[1], allRemote[2], MaxGlobalFailures, aclock) BY <2>2, <2>4 DEF GuessInv
    <3>3. allRemote[1] # MaxGlobalFailures BY <1>0, <2>4 DEF Admin!Locked, Admin!GlobalLock
    <3>4. aclock < allRemote[2] + Window BY <1>0, <2>2, <2>4
    <3>5. Windowed(wrong', Others', allRemote[1] + 1, allRemote[2], MaxGlobalFailures, aclock)
      BY <1>0, <1>3, <1>5, <2>1, <3>2, <3>3, <3>4, WindowGrows
    <3> QED BY <2>2, <3>1, <3>5
  <2>5. CASE Admin!Remote(a) /\ ~(allRemote[1] > 0 /\ allRemote[2] + Window > aclock)
    <3>1. allRemote'[1] = 1 /\ allRemote'[2] = aclock BY <1>2, <2>5
    <3>2. Gone(wrong, Others, MaxGlobalFailures, aclock)
      <4>1. CASE allRemote[1] = 0 BY <4>1 DEF GuessInv
      <4>2. CASE allRemote[1] # 0
        <5>1. Windowed(wrong, Others, allRemote[1], allRemote[2], MaxGlobalFailures, aclock) BY <4>2 DEF GuessInv
        <5>2. allRemote[2] + Window <= aclock BY <1>0, <2>2, <2>5, <4>2
        <5> QED BY <1>0, <1>5, <5>1, <5>2, WindowEnds
      <4> QED BY <4>1, <4>2
    <3>3. Windowed(wrong', Others', 1, aclock, MaxGlobalFailures, aclock)
      BY <1>0, <1>3, <1>5, <2>1, <3>2, WindowBegins
    <3> QED BY <3>1, <3>3
  <2> QED BY <2>3, <2>4, <2>5
<1>9. allRemote'[1] \in Nat /\ allRemote'[2] \in 0 .. aclock
  BY <1>0, <1>2 DEF DoorTypes
<1>10. GuessInv' BY <1>7, <1>8, Zenon DEF GuessInv
<1> QED BY <1>3, <1>6, <1>9, <1>10

-----------------------------------------------------------------------------
(* The sessions, the line before the mutex and the connections. *)
LEMMA SessionMade ==
  ASSUME PanelBounds, DoorTypes, SessionTypes, Admin!NewSession
  PROVE  SessionTypes' /\ tokens' \in 0 .. MaxTokens
<1> DEFINE live == {s \in DOMAIN sessions : sessions[s] > aclock}
           oldest == CHOOSE s \in live : \A r \in live : sessions[s] <= sessions[r]
           kept == IF Cardinality(live) >= MaxSessions THEN live \ {oldest} ELSE live
           k == [s \in kept |-> sessions[s]]
<1>1. /\ tokens < MaxTokens /\ tokens' = tokens + 1
      /\ sessions' = Admin!With(k, tokens + 1, aclock + Ttl)
  BY AdminCardinality, Zenon DEF Admin!NewSession
<1>2. IsFiniteSet(DOMAIN sessions) /\ Cardinality(DOMAIN sessions) <= MaxSessions /\ MaxSessions \in Nat \ {0}
      /\ \A s \in DOMAIN sessions : sessions[s] \in Nat
  BY DEF SessionTypes, PanelBounds
<1>3. live \subseteq DOMAIN sessions OBVIOUS
<1>4. IsFiniteSet(live) /\ Cardinality(live) \in Nat /\ Cardinality(live) <= MaxSessions
  <2> HIDE DEF live
  <2>1. /\ IsFiniteSet(live) /\ Cardinality(live) \in Nat /\ Cardinality(DOMAIN sessions) \in Nat
        /\ Cardinality(live) <= Cardinality(DOMAIN sessions)
    BY <1>2, <1>3, Fewer
  <2> QED BY <1>2, <2>1
<1>5. kept \subseteq live /\ IsFiniteSet(kept) /\ Cardinality(kept) \in Nat /\ Cardinality(kept) < MaxSessions
  <2>1. CASE Cardinality(live) >= MaxSessions
    <3>1. live # {}
      <4> HIDE DEF live
      <4> QED BY <1>2, <1>4, <2>1, FS_EmptySet
    <3>2. \E s \in live : \A r \in live : sessions[s] <= sessions[r]
      <4>1. \A s \in live : sessions[s] \in Nat BY <1>2
      <4> HIDE DEF live
      <4> QED BY <3>1, <4>1, LeastExists
    <3>3. oldest \in live BY <3>2
    <3>4. kept = live \ {oldest} BY <2>1
    <3> HIDE DEF live, oldest, kept
    <3>5. IsFiniteSet(kept) /\ Cardinality(kept) = Cardinality(live) - 1 BY <1>4, <3>3, <3>4, FS_RemoveElement
    <3>6. Cardinality(kept) \in Nat BY <3>5, FS_CardinalityType
    <3> QED BY <1>2, <1>4, <3>4, <3>5, <3>6
  <2>2. CASE ~(Cardinality(live) >= MaxSessions)
    <3>1. kept = live BY <2>2
    <3> HIDE DEF live, kept
    <3> QED BY <1>2, <1>4, <2>2, <3>1
  <2> QED BY <2>1, <2>2
<1>6. DOMAIN k = kept /\ \A s \in kept : k[s] = sessions[s] OBVIOUS
<1> HIDE DEF live, oldest, kept, k
<1>7. /\ DOMAIN sessions' = kept \cup {tokens + 1}
      /\ \A s \in DOMAIN sessions' : sessions'[s] = IF s = tokens + 1 THEN aclock + Ttl ELSE k[s]
  BY <1>1, <1>6 DEF Admin!With
<1>8. aclock + Ttl \in Nat BY DEF DoorTypes, PanelBounds
<1>9. \A s \in DOMAIN sessions' : sessions'[s] \in Nat
  <2>1. \A s \in kept : sessions[s] \in Nat BY <1>2, <1>3, <1>5
  <2> QED BY <1>6, <1>7, <1>8, <2>1
<1>10. IsFiniteSet(DOMAIN sessions') /\ Cardinality(DOMAIN sessions') <= MaxSessions
  <2>1. /\ IsFiniteSet(kept \cup {tokens + 1}) /\ Cardinality(kept \cup {tokens + 1}) \in Nat
        /\ Cardinality(kept \cup {tokens + 1}) <= Cardinality(kept) + 1
    BY <1>5, OneMore
  <2> QED BY <1>2, <1>5, <1>7, <2>1
<1>11. tokens' \in 0 .. MaxTokens BY <1>1 DEF DoorTypes, PanelBounds
<1> QED BY <1>9, <1>10, <1>11 DEF SessionTypes

LEMMA BusyFinite ==
  ASSUME PanelBounds
  PROVE  IsFiniteSet(Busy) /\ Cardinality(Busy) \in Nat
<1>1. Busy \subseteq Tries /\ IsFiniteSet(Tries) BY DEF Busy, PanelBounds
<1> QED BY <1>1, Fewer

(* One request joins the line. *)
LEMMA LineJoined ==
  ASSUME PanelBounds, DoorTypes, LineInv, HashInv, NEW t \in Tries, try[t].stage = "no",
         NEW a \in Froms, NEW right \in BOOLEAN,
         queuedChecks' = queuedChecks + 1,
         try' = [try EXCEPT ![t] = [stage |-> "waiting", from |-> a, right |-> right]],
         hashLine' = Append(hashLine, t), UNCHANGED <<perKey, allRemote, aclock>>
  PROVE  LineInv' /\ HashInv' /\ try' \in [Tries -> [stage : Stages, from : Froms, right : BOOLEAN]]
<1> DEFINE r == [stage |-> "waiting", from |-> a, right |-> right]
<1>1. r \in [stage : Stages, from : Froms, right : BOOLEAN] /\ r.stage = "waiting" BY DEF Stages
<1>2. try' = [try EXCEPT ![t] = r] OBVIOUS
<1> HIDE DEF r
<1>3. /\ try' \in [Tries -> [stage : Stages, from : Froms, right : BOOLEAN]]
      /\ try'[t].stage = "waiting" /\ \A u \in Tries : u # t => try'[u] = try[u]
  BY <1>1, <1>2 DEF DoorTypes
<1>4. /\ hashLine' \in Seq(Tries) /\ Len(hashLine') = Len(hashLine) + 1 /\ Len(hashLine) \in Nat
      /\ \A i \in 1 .. Len(hashLine) : hashLine'[i] = hashLine[i]
      /\ hashLine'[Len(hashLine) + 1] = t
  BY AppendProperties, LenProperties DEF LineInv
<1>5. t \notin Busy BY DEF Busy
<1>6. Busy' = Busy \cup {t} BY <1>3 DEF Busy
<1>7. queuedChecks' = Cardinality(Busy')
  <2>1. Cardinality(Busy \cup {t}) = Cardinality(Busy) + 1 BY <1>5, BusyFinite, FS_AddElement
  <2> QED BY <1>6, <2>1 DEF LineInv
<1>8. \A i \in 1 .. Len(hashLine) : hashLine[i] # t BY <1>5 DEF LineInv, InLine
<1>9. \A i, j \in 1 .. Len(hashLine') : hashLine'[i] = hashLine'[j] => i = j
  BY <1>4, <1>8 DEF LineInv
<1>10. ASSUME NEW u \in Tries PROVE u \in Busy' <=> InLine(hashLine', u)
  BY <1>4, <1>6 DEF LineInv, InLine
<1>11. LineInv' BY <1>4, <1>7, <1>9, <1>10 DEF LineInv
<1>12. HashInv'
  <2> SUFFICES ASSUME NEW u \in Tries, try'[u].stage = "hashing"
               PROVE  hashLine'[1] = u /\ ~Admin!Locked(try[u].from)'
    BY DEF HashInv
  <2>1. u # t /\ try'[u] = try[u] BY <1>3
  <2>2. hashLine[1] = u /\ ~Admin!Locked(try[u].from) /\ u \in Busy BY <2>1 DEF HashInv, Busy
  <2>3. 1 \in 1 .. Len(hashLine)
    <3>1. PICK i \in 1 .. Len(hashLine) : hashLine[i] = u BY <2>2 DEF LineInv, InLine
    <3> QED BY <1>4, <3>1
  <2>4. hashLine'[1] = u BY <1>4, <2>2, <2>3
  <2>5. ~Admin!Locked(try[u].from)' BY <2>1, <2>2, Zenon DEF Admin!Locked, Admin!OwnLock, Admin!GlobalLock, Admin!Remote
  <2> QED BY <2>4, <2>5
<1> QED BY <1>3, <1>11, <1>12

(* What is left of a sequence without one of its elements. *)
LEMMA WithoutOne ==
  ASSUME NEW S, NEW s \in Seq(S), NEW i \in 1 .. Len(s)
  PROVE  /\ Admin!RemoveAt(s, i) \in Seq(S)
         /\ Len(Admin!RemoveAt(s, i)) = Len(s) - 1 /\ Len(s) \in Nat
         /\ \A j \in 1 .. i - 1 : Admin!RemoveAt(s, i)[j] = s[j]
         /\ \A j \in i .. Len(s) - 1 : Admin!RemoveAt(s, i)[j] = s[j + 1]
<1> DEFINE before == SubSeq(s, 1, i - 1)
           after == SubSeq(s, i + 1, Len(s))
<1>1. Len(s) \in Nat /\ \A j \in 1 .. Len(s) : s[j] \in S BY LenProperties, ElementOfSeq
<1>2. before \in Seq(S) /\ Len(before) = i - 1 /\ \A j \in 1 .. i - 1 : before[j] = s[j]
  <2>1. /\ before \in Seq(S) /\ Len(before) = IF 1 <= i - 1 THEN (i - 1) - 1 + 1 ELSE 0
        /\ \A j \in 1 .. (i - 1) - 1 + 1 : before[j] = s[1 + j - 1]
    BY <1>1, SubSeqProperties
  <2> HIDE DEF before
  <2> QED BY <1>1, <2>1
<1>3. after \in Seq(S) /\ Len(after) = Len(s) - i /\ \A j \in 1 .. Len(s) - i : after[j] = s[i + j]
  <2>1. /\ after \in Seq(S) /\ Len(after) = IF i + 1 <= Len(s) THEN Len(s) - (i + 1) + 1 ELSE 0
        /\ \A j \in 1 .. Len(s) - (i + 1) + 1 : after[j] = s[(i + 1) + j - 1]
    BY <1>1, SubSeqProperties
  <2> HIDE DEF after
  <2> QED BY <1>1, <2>1
<1>4. Admin!RemoveAt(s, i) = before \o after BY DEF Admin!RemoveAt
<1> HIDE DEF before, after
<1>5. /\ before \o after \in Seq(S) /\ Len(before \o after) = Len(before) + Len(after)
      /\ \A j \in 1 .. Len(before) + Len(after) :
           (before \o after)[j] = IF j <= Len(before) THEN before[j] ELSE after[j - Len(before)]
  BY <1>2, <1>3, ConcatProperties
<1>6. \A j \in 1 .. i - 1 : (before \o after)[j] = s[j] BY <1>1, <1>2, <1>3, <1>5
<1>7. ASSUME NEW j \in i .. Len(s) - 1 PROVE (before \o after)[j] = s[j + 1]
  <2>1. j - (i - 1) \in 1 .. Len(s) - i /\ i + (j - (i - 1)) = j + 1 BY <1>1
  <2>2. after[j - (i - 1)] = s[j + 1] BY <1>3, <2>1
  <2> QED BY <1>1, <1>2, <1>3, <1>5, <2>2
<1>8. Len(before \o after) = Len(s) - 1 BY <1>1, <1>2, <1>3, <1>5
<1> QED BY <1>1, <1>4, <1>5, <1>6, <1>7, <1>8

(* A request leaves the line, from wherever it stood. *)
LEMMA LineLeft ==
  ASSUME PanelBounds, DoorTypes, LineInv, NEW t \in Tries, try[t].stage # "no", Admin!Leaves(t)
  PROVE  /\ LineInv' /\ try' \in [Tries -> [stage : Stages, from : Froms, right : BOOLEAN]]
         /\ try'[t].stage = "no" /\ \A u \in Tries : u # t => try'[u] = try[u]
         /\ \A u \in Tries : u # t /\ u \in Busy /\ hashLine[1] = u => hashLine'[1] = u
<1>1. PICK i \in 1 .. Len(hashLine) : hashLine[i] = t /\ hashLine' = Admin!RemoveAt(hashLine, i)
  BY DEF Admin!Leaves
<1>2. /\ hashLine' \in Seq(Tries)
      /\ Len(hashLine') = Len(hashLine) - 1 /\ Len(hashLine) \in Nat
      /\ \A j \in 1 .. i - 1 : hashLine'[j] = hashLine[j]
      /\ \A j \in i .. Len(hashLine) - 1 : hashLine'[j] = hashLine[j + 1]
  BY <1>1, WithoutOne DEF LineInv
<1>3. Admin!NoTry \in [stage : Stages, from : Froms, right : BOOLEAN] /\ Admin!NoTry.stage = "no"
  BY DEF Admin!NoTry, Stages, PanelBounds
<1>4. try' = [try EXCEPT ![t] = Admin!NoTry] /\ queuedChecks' = queuedChecks - 1 BY DEF Admin!Leaves
<1>5. /\ try' \in [Tries -> [stage : Stages, from : Froms, right : BOOLEAN]]
      /\ try'[t].stage = "no" /\ \A u \in Tries : u # t => try'[u] = try[u]
  BY <1>3, <1>4 DEF DoorTypes
<1>6. t \in Busy /\ Busy' = Busy \ {t} BY <1>5 DEF Busy
<1>7. queuedChecks' = Cardinality(Busy')
  <2>1. Cardinality(Busy \ {t}) = Cardinality(Busy) - 1 BY <1>6, BusyFinite, FS_RemoveElement
  <2> QED BY <1>4, <1>6, <2>1 DEF LineInv
<1>8. ASSUME NEW j \in 1 .. Len(hashLine')
      PROVE  \E k \in 1 .. Len(hashLine) \ {i} : hashLine'[j] = hashLine[k] /\ k = IF j < i THEN j ELSE j + 1
  <2>1. CASE j < i BY <1>2, <2>1
  <2>2. CASE i <= j BY <1>2, <2>2
  <2> QED BY <1>2, <2>1, <2>2
<1>9. ASSUME NEW j \in 1 .. Len(hashLine'), NEW k \in 1 .. Len(hashLine'), hashLine'[j] = hashLine'[k] PROVE j = k
  <2>1. PICK x \in 1 .. Len(hashLine) \ {i} : hashLine'[j] = hashLine[x] /\ x = IF j < i THEN j ELSE j + 1 BY <1>8
  <2>2. PICK y \in 1 .. Len(hashLine) \ {i} : hashLine'[k] = hashLine[y] /\ y = IF k < i THEN k ELSE k + 1 BY <1>8
  <2>3. x = y BY <1>9, <2>1, <2>2 DEF LineInv
  <2> QED BY <1>2, <2>1, <2>2, <2>3
<1>10. ASSUME NEW u \in Tries PROVE u \in Busy' <=> InLine(hashLine', u)
  <2>1. ASSUME NEW j \in 1 .. Len(hashLine'), hashLine'[j] = u PROVE u \in Busy'
    <3>1. PICK x \in 1 .. Len(hashLine) \ {i} : hashLine'[j] = hashLine[x] BY <1>8
    <3>2. u # t BY <1>1, <2>1, <3>1 DEF LineInv
    <3>3. u \in Busy BY <2>1, <3>1 DEF LineInv, InLine
    <3> QED BY <1>6, <3>2, <3>3
  <2>2. ASSUME u \in Busy' PROVE \E j \in 1 .. Len(hashLine') : hashLine'[j] = u
    <3>1. u \in Busy /\ u # t BY <1>6, <2>2
    <3>2. PICK x \in 1 .. Len(hashLine) : hashLine[x] = u BY <3>1 DEF LineInv, InLine
    <3>3. x # i BY <1>1, <3>1, <3>2
    <3>4. CASE x < i BY <1>2, <3>2, <3>4
    <3>5. CASE i < x
      <4>1. x - 1 \in i .. Len(hashLine) - 1 /\ (x - 1) + 1 = x /\ x - 1 \in 1 .. Len(hashLine') BY <1>2, <3>5
      <4>2. hashLine'[x - 1] = u BY <1>2, <3>2, <4>1
      <4> QED BY <4>1, <4>2
    <3> QED BY <3>3, <3>4, <3>5
  <2> QED BY <2>1, <2>2 DEF InLine
<1>11. LineInv' BY <1>2, <1>7, <1>9, <1>10 DEF LineInv
<1>12. ASSUME NEW u \in Tries, u # t, u \in Busy, hashLine[1] = u PROVE hashLine'[1] = u
  <2>1. i # 1 BY <1>1, <1>12
  <2> QED BY <1>2, <1>12, <2>1
<1> QED BY <1>5, <1>11, <1>12

(* Who hashes hashes on while another leaves and nobody is locked out.      *)
LEMMA HashGoesOn ==
  ASSUME DoorTypes, HashInv, NEW t \in Tries, UNCHANGED <<perKey, allRemote, aclock>>,
         try'[t].stage # "hashing", \A u \in Tries : u # t => try'[u] = try[u],
         \A u \in Tries : u # t /\ u \in Busy /\ hashLine[1] = u => hashLine'[1] = u
  PROVE  HashInv'
<1> SUFFICES ASSUME NEW u \in Tries, try'[u].stage = "hashing"
             PROVE  hashLine'[1] = u /\ ~Admin!Locked(try[u].from)'
  BY DEF HashInv
<1>1. u # t /\ try'[u] = try[u] OBVIOUS
<1>2. hashLine[1] = u /\ ~Admin!Locked(try[u].from) /\ u \in Busy BY <1>1 DEF HashInv, Busy
<1>3. ~Admin!Locked(try[u].from)' BY <1>1, <1>2, Zenon DEF Admin!Locked, Admin!OwnLock, Admin!GlobalLock, Admin!Remote
<1> QED BY <1>1, <1>2, <1>3

(* Connections come and go. *)
Places == {x \in Froms \X (1 .. MaxConns) : x[2] <= acquired[x[1]]}

LEMMA PlacesFinite ==
  ASSUME PanelBounds
  PROVE  IsFiniteSet(Places) /\ Cardinality(Places) \in Nat /\ Admin!Taken = Cardinality(Places)
<1>1. IsFiniteSet(1 .. MaxConns) BY FS_Interval DEF PanelBounds
<1>2. IsFiniteSet(Froms \X (1 .. MaxConns)) BY <1>1, FS_Product DEF PanelBounds
<1>3. Places \subseteq Froms \X (1 .. MaxConns) BY DEF Places
<1>4. Admin!Taken = Cardinality(Places) BY AdminCardinality DEF Admin!Taken, Places
<1> QED BY <1>2, <1>3, <1>4, Fewer

LEMMA Accepted ==
  ASSUME PanelBounds, ConnInv, NEW a \in Froms, Admin!Accept(a)
  PROVE  ConnInv'
<1>0. Admin!Taken < MaxConns BY DEF Admin!Accept
<1>1. CASE UNCHANGED Admin!conns
  BY <1>1 DEF ConnInv, Admin!conns, Admin!HeldBy, Admin!Open, Admin!Taken
<1>2. CASE /\ ~(Admin!HeldBy(a) >= MaxConnsPerIp)
           /\ acquired' = [acquired EXCEPT ![a] = @ + 1]
           /\ perIpConns' = Admin!With(perIpConns, a, Admin!HeldBy(a) + 1)
  <2>1. acquired \in [Froms -> Nat] /\ DOMAIN perIpConns \subseteq Froms
        /\ \A c \in Froms : acquired[c] = Admin!HeldBy(c) /\ acquired[c] <= MaxConnsPerIp
    BY DEF ConnInv
  <2>2. /\ acquired' \in [Froms -> Nat] /\ acquired'[a] = acquired[a] + 1
        /\ \A c \in Froms : c # a => acquired'[c] = acquired[c]
    BY <1>2, <2>1
  <2>3. /\ DOMAIN perIpConns' = DOMAIN perIpConns \cup {a} /\ perIpConns'[a] = Admin!HeldBy(a) + 1
        /\ \A c \in DOMAIN perIpConns : c # a => perIpConns'[c] = perIpConns[c]
    BY <1>2 DEF Admin!With
  <2>4. \A c \in Froms : acquired'[c] = Admin!HeldBy(c)'
    BY <2>1, <2>2, <2>3 DEF Admin!HeldBy, Admin!Open
  <2>5. \A c \in Froms : acquired'[c] <= MaxConnsPerIp
    BY <1>2, <2>1, <2>2 DEF PanelBounds
  <2>6. Places' \subseteq Places \cup {<<a, acquired[a] + 1>>}
    <3> SUFFICES ASSUME NEW c \in Froms, NEW m \in 1 .. MaxConns, m <= acquired'[c]
                 PROVE  m <= acquired[c] \/ (c = a /\ m = acquired[a] + 1)
      BY DEF Places
    <3>1. CASE c = a BY <2>1, <2>2, <3>1 DEF PanelBounds
    <3>2. CASE c # a BY <2>2, <3>2
    <3> QED BY <3>1, <3>2
  <2>7. Cardinality(Places') <= Cardinality(Places) + 1 /\ Cardinality(Places') \in Nat
    BY <2>6, PlacesFinite, OneMore
  <2>8. Admin!Taken' = Cardinality(Places')
    BY AdminCardinality DEF Admin!Taken, Places
  <2>9. Admin!Taken' <= MaxConns BY <1>0, <2>7, <2>8, PlacesFinite DEF PanelBounds
  <2>10. DOMAIN perIpConns' \subseteq Froms BY <2>1, <2>3
  <2> QED BY <2>2, <2>4, <2>5, <2>9, <2>10 DEF ConnInv
<1> QED BY <1>1, <1>2 DEF Admin!Accept

LEMMA Closed ==
  ASSUME PanelBounds, ConnInv, NEW a \in Froms, Admin!Close(a)
  PROVE  ConnInv'
<1>1. acquired \in [Froms -> Nat] /\ DOMAIN perIpConns \subseteq Froms
      /\ \A c \in Froms : acquired[c] = Admin!HeldBy(c) /\ acquired[c] <= MaxConnsPerIp
  BY DEF ConnInv
<1>2. acquired[a] > 0 /\ acquired' = [acquired EXCEPT ![a] = @ - 1] BY DEF Admin!Close
<1>3. /\ acquired' \in [Froms -> Nat] /\ acquired'[a] = acquired[a] - 1
      /\ \A c \in Froms : c # a => acquired'[c] = acquired[c]
  BY <1>1, <1>2
<1>4. \A c \in Froms : acquired'[c] = Admin!HeldBy(c)'
  <2>1. CASE Admin!HeldBy(a) = 1
    <3>1. perIpConns' = Admin!Without(perIpConns, {a}) BY <2>1 DEF Admin!Close
    <3>2. DOMAIN perIpConns' = DOMAIN perIpConns \ {a} /\ \A c \in DOMAIN perIpConns \ {a} : perIpConns'[c] = perIpConns[c]
      BY <3>1 DEF Admin!Without
    <3> QED BY <1>1, <1>3, <2>1, <3>2 DEF Admin!HeldBy, Admin!Open
  <2>2. CASE Admin!HeldBy(a) # 1
    <3>1. perIpConns' = Admin!With(perIpConns, a, Admin!HeldBy(a) - 1) BY <2>2 DEF Admin!Close
    <3>2. /\ DOMAIN perIpConns' = DOMAIN perIpConns \cup {a} /\ perIpConns'[a] = Admin!HeldBy(a) - 1
          /\ \A c \in DOMAIN perIpConns : c # a => perIpConns'[c] = perIpConns[c]
      BY <3>1 DEF Admin!With
    <3> QED BY <1>1, <1>3, <3>2 DEF Admin!HeldBy, Admin!Open
  <2> QED BY <2>1, <2>2
<1>5. DOMAIN perIpConns' \subseteq Froms BY <1>1 DEF Admin!Close, Admin!With, Admin!Without
<1>6. \A c \in Froms : acquired'[c] <= acquired[c] /\ acquired'[c] <= MaxConnsPerIp
  BY <1>1, <1>3 DEF PanelBounds
<1>7. Places' \subseteq Places
  <2> SUFFICES ASSUME NEW c \in Froms, NEW m \in 1 .. MaxConns, m <= acquired'[c] PROVE m <= acquired[c]
    BY DEF Places
  <2> QED BY <1>1, <1>3, <1>6
<1>8. Admin!Taken' = Cardinality(Places')
  BY AdminCardinality DEF Admin!Taken, Places
<1>9. Admin!Taken' <= MaxConns
  <2>1. Cardinality(Places') <= Cardinality(Places) /\ Cardinality(Places') \in Nat BY <1>7, PlacesFinite, Fewer
  <2> QED BY <1>8, <2>1, PlacesFinite DEF ConnInv, PanelBounds
<1> QED BY <1>3, <1>4, <1>5, <1>6, <1>9 DEF ConnInv

-----------------------------------------------------------------------------
(* The door's steps. *)
Sameness == UNCHANGED <<aclock, perKey, allRemote, wrong>>

LEMMA GuessesSame ==
  ASSUME TrackedTypes, WrongTypes, GuessInv, Sameness
  PROVE  TrackedTypes' /\ WrongTypes' /\ GuessInv'
BY DEF Sameness, TrackedTypes, WrongTypes, GuessInv, Own, Others, Windowed, Gone

LEMMA SessionsSame == ASSUME SessionTypes, UNCHANGED sessions PROVE SessionTypes'
BY DEF SessionTypes

LEMMA ConnsSame == ASSUME ConnInv, UNCHANGED Admin!conns PROVE ConnInv'
BY DEF ConnInv, Admin!conns, Admin!HeldBy, Admin!Open, Admin!Taken

LEMMA LineSame ==
  ASSUME LineInv, HashInv, UNCHANGED <<try, hashLine, queuedChecks, perKey, allRemote, aclock>>
  PROVE  LineInv' /\ HashInv'
BY DEF LineInv, HashInv, InLine, Busy, Admin!Locked, Admin!OwnLock, Admin!GlobalLock

LEMMA DoorTypesStay ==
  ASSUME DoorTypes, UNCHANGED <<aclock, tokens, allRemote>>,
         try' \in [Tries -> [stage : Stages, from : Froms, right : BOOLEAN]], refused' \in {"no", "own"}
  PROVE  DoorTypes'
BY DEF DoorTypes

(* Who is locked out though from loopback has failed there. *)
LEMMA ToldOwn ==
  ASSUME DoorTypes, NEW a, NEW right, Admin!Locked(a),
         Admin!Told(a, right, IF Admin!OwnLock(a) THEN "own" ELSE "other")
  PROVE  refused' \in {"no", "own"}
BY DEF Admin!Told, Admin!Locked, DoorTypes

LEMMA LoginStep ==
  ASSUME PanelBounds, PanelInv, NEW t \in Tries, NEW a \in Froms, NEW right \in BOOLEAN, Admin!Login(t, a, right)
  PROVE  PanelInv'
<1> USE DEF PanelInv
<1>1. /\ try[t].stage = "no" /\ UNCHANGED <<aclock, perKey, allRemote, sessions, tokens, wrong>> /\ UNCHANGED Admin!conns
  BY DEF Admin!Login, Admin!auth
<1>2. TrackedTypes' /\ WrongTypes' /\ GuessInv' /\ SessionTypes' /\ ConnInv'
  BY <1>1, GuessesSame, SessionsSame, ConnsSame DEF Sameness
<1>3. CASE /\ UNCHANGED <<try, hashLine, queuedChecks>> /\ refused' \in {"no", "own"}
  BY <1>1, <1>2, <1>3, LineSame, DoorTypesStay DEF DoorTypes
<1>4. CASE /\ queuedChecks' = queuedChecks + 1
           /\ try' = [try EXCEPT ![t] = [stage |-> "waiting", from |-> a, right |-> right]]
           /\ hashLine' = Append(hashLine, t) /\ UNCHANGED refused
  <2>1. LineInv' /\ HashInv' /\ try' \in [Tries -> [stage : Stages, from : Froms, right : BOOLEAN]]
    BY <1>1, <1>4, LineJoined
  <2>2. refused' \in {"no", "own"} BY <1>4 DEF DoorTypes
  <2> QED BY <1>1, <1>2, <2>1, <2>2, DoorTypesStay
<1>5. refused \in {"no", "own"} BY DEF DoorTypes
<1> QED BY <1>3, <1>4, <1>5, ToldOwn DEF Admin!Login

LEMMA StartCheckStep ==
  ASSUME PanelBounds, PanelInv, NEW t \in Tries, Admin!StartCheck(t)
  PROVE  PanelInv'
<1> USE DEF PanelInv
<1>1. /\ hashLine # <<>> /\ Head(hashLine) = t /\ try[t].stage = "waiting"
      /\ UNCHANGED <<aclock, perKey, allRemote, sessions, tokens, wrong>> /\ UNCHANGED Admin!conns
  BY DEF Admin!StartCheck, Admin!auth
<1>2. TrackedTypes' /\ WrongTypes' /\ GuessInv' /\ SessionTypes' /\ ConnInv'
  BY <1>1, GuessesSame, SessionsSame, ConnsSame DEF Sameness
<1>3. CASE Admin!Locked(try[t].from)
  <2>1. /\ Admin!Leaves(t)
        /\ Admin!Told(try[t].from, try[t].right, IF Admin!OwnLock(try[t].from) THEN "own" ELSE "other")
    BY <1>3 DEF Admin!StartCheck
  <2>2. refused' \in {"no", "own"} BY <1>3, <2>1, ToldOwn
  <2>3. /\ LineInv' /\ try' \in [Tries -> [stage : Stages, from : Froms, right : BOOLEAN]]
        /\ try'[t].stage = "no" /\ \A u \in Tries : u # t => try'[u] = try[u]
        /\ \A u \in Tries : u # t /\ u \in Busy /\ hashLine[1] = u => hashLine'[1] = u
    BY <1>1, <2>1, LineLeft
  <2>4. HashInv' BY <1>1, <2>3, HashGoesOn
  <2> QED BY <1>1, <1>2, <2>2, <2>3, <2>4, DoorTypesStay
<1>4. CASE ~Admin!Locked(try[t].from)
  <2>1. try' = [try EXCEPT ![t].stage = "hashing"] /\ UNCHANGED <<hashLine, queuedChecks, refused>>
    BY <1>4 DEF Admin!StartCheck
  <2>2. /\ try' \in [Tries -> [stage : Stages, from : Froms, right : BOOLEAN]]
        /\ try'[t].stage = "hashing" /\ try'[t].from = try[t].from /\ \A u \in Tries : u # t => try'[u] = try[u]
    BY <2>1 DEF DoorTypes, Stages
  <2>3. Busy' = Busy BY <1>1, <2>2 DEF Busy
  <2>4. LineInv' BY <2>1, <2>3 DEF LineInv, InLine
  <2>5. hashLine[1] = t BY <1>1
  <2>6. HashInv'
    <3> SUFFICES ASSUME NEW u \in Tries, try'[u].stage = "hashing"
                 PROVE  hashLine'[1] = u /\ ~Admin!Locked(try[u].from)' /\ try'[u].from = try[u].from
      BY DEF HashInv, Admin!Locked, Admin!OwnLock, Admin!GlobalLock, Admin!Remote
    <3>1. u = t \/ (try'[u] = try[u] /\ try[u].stage = "hashing") BY <2>2
    <3>2. u = t BY <2>5, <3>1 DEF HashInv
    <3>3. ~Admin!Locked(try[u].from)'
      <4> PICK f : f = try[t].from OBVIOUS
      <4>1. ~Admin!Locked(f) BY <1>4
      <4>2. ~Admin!Locked(f)' BY <1>1, <4>1, Zenon DEF Admin!Locked, Admin!OwnLock, Admin!GlobalLock, Admin!Remote
      <4>3. try'[u].from = f BY <2>2, <3>2
      <4> QED BY <4>2, <4>3, Zenon DEF Admin!Locked, Admin!OwnLock, Admin!GlobalLock, Admin!Remote
    <3> QED BY <2>1, <2>2, <2>5, <3>2, <3>3
  <2>7. refused' \in {"no", "own"} BY <2>1 DEF DoorTypes
  <2> QED BY <1>1, <1>2, <2>2, <2>4, <2>6, <2>7, DoorTypesStay
<1> QED BY <1>3, <1>4

LEMMA HangUpStep ==
  ASSUME PanelBounds, PanelInv, NEW t \in Tries, Admin!HangUp(t)
  PROVE  PanelInv'
<1> USE DEF PanelInv
<1>1. /\ try[t].stage # "no" /\ Admin!Leaves(t)
      /\ UNCHANGED <<aclock, perKey, allRemote, sessions, tokens, wrong, refused>> /\ UNCHANGED Admin!conns
  BY DEF Admin!HangUp, Admin!auth
<1>2. TrackedTypes' /\ WrongTypes' /\ GuessInv' /\ SessionTypes' /\ ConnInv'
  BY <1>1, GuessesSame, SessionsSame, ConnsSame DEF Sameness
<1>3. /\ LineInv' /\ try' \in [Tries -> [stage : Stages, from : Froms, right : BOOLEAN]]
      /\ try'[t].stage = "no" /\ \A u \in Tries : u # t => try'[u] = try[u]
      /\ \A u \in Tries : u # t /\ u \in Busy /\ hashLine[1] = u => hashLine'[1] = u
  BY <1>1, LineLeft
<1>4. HashInv' BY <1>1, <1>3, HashGoesOn
<1>5. refused' \in {"no", "own"} BY <1>1 DEF DoorTypes
<1> QED BY <1>1, <1>2, <1>3, <1>4, <1>5, DoorTypesStay

(* The answer of the check: the one that hashes is the only one. *)
LEMMA AnswerStep ==
  ASSUME PanelBounds, PanelInv, NEW t \in Tries, Admin!Answer(t)
  PROVE  PanelInv'
<1> USE DEF PanelInv
<1> PICK a : a = try[t].from OBVIOUS
<1>1. try[t].stage = "hashing" /\ Admin!Leaves(t) /\ UNCHANGED <<aclock, refused>> /\ UNCHANGED Admin!conns
  BY DEF Admin!Answer
<1>2. /\ LineInv' /\ try' \in [Tries -> [stage : Stages, from : Froms, right : BOOLEAN]]
      /\ try'[t].stage = "no" /\ \A u \in Tries : u # t => try'[u] = try[u]
  BY <1>1, LineLeft
<1>3. hashLine[1] = t /\ ~Admin!Locked(a) BY <1>1 DEF HashInv
<1>4. HashInv'
  <2> SUFFICES ASSUME NEW u \in Tries, try'[u].stage = "hashing" PROVE FALSE
    BY DEF HashInv
  <2>1. u # t /\ try[u].stage = "hashing" BY <1>2
  <2> QED BY <1>3, <2>1 DEF HashInv
<1>5. a \in Froms BY DEF DoorTypes
<1>6. ConnInv' BY <1>1, ConnsSame
<1>7. refused' \in {"no", "own"} BY <1>1 DEF DoorTypes
<1>8. CASE try[t].right
  <2>1. /\ perKey' = Admin!Without(perKey, {a}) /\ Admin!NewSession
        /\ wrong' = Admin!Forgiven(a, TRUE) /\ allRemote' = allRemote
    BY <1>8 DEF Admin!Answer
  <2>2. SessionTypes' /\ tokens' \in 0 .. MaxTokens BY <2>1, SessionMade
  <2>3. /\ WrongTypes' /\ \A i \in DOMAIN wrong : wrong'[i].at = wrong[i].at
        /\ \A c \in Froms : Own(c)' \subseteq Own(c)
        /\ Own(a)' = {} /\ Others' \subseteq Others
    BY <1>1, <2>1, WrongForgiven
  <2>4. DOMAIN perKey' = DOMAIN perKey \ {a} /\ \A c \in DOMAIN perKey' : perKey'[c] = perKey[c]
    BY <2>1 DEF Admin!Without
  <2>5. aclock \in Nat /\ MaxFailures \in Nat \ {0} /\ MaxGlobalFailures \in Nat \ {0} /\ aclock' = aclock
    BY <1>1 DEF DoorTypes, PanelBounds
  <2>6. TrackedTypes'
    <3>1. IsFiniteSet(DOMAIN perKey) /\ Cardinality(DOMAIN perKey) <= MaxTracked
      BY FS_Subset DEF TrackedTypes, PanelBounds
    <3>2. /\ Cardinality(DOMAIN perKey') <= Cardinality(DOMAIN perKey)
          /\ Cardinality(DOMAIN perKey') \in Nat /\ Cardinality(DOMAIN perKey) \in Nat
      BY <2>4, <3>1, Fewer
    <3>3. Cardinality(DOMAIN perKey') <= MaxTracked BY <3>1, <3>2 DEF PanelBounds
    <3> QED BY <2>4, <2>5, <3>3 DEF TrackedTypes
  <2>7. ASSUME NEW c \in Froms
        PROVE  IF c \in DOMAIN perKey' THEN Windowed(wrong', Own(c)', perKey'[c][1], perKey'[c][2], MaxFailures, aclock)
               ELSE Gone(wrong', Own(c)', MaxFailures, aclock)
    <3>1. CASE c = a
      <4>1. Gone(wrong', Own(a)', MaxFailures, aclock) BY <2>3, <2>5, FS_EmptySet DEF Gone
      <4> QED BY <2>4, <3>1, <4>1
    <3>2. CASE c # a
      <4>1. IF c \in DOMAIN perKey THEN Windowed(wrong', Own(c)', perKey[c][1], perKey[c][2], MaxFailures, aclock)
            ELSE Gone(wrong', Own(c)', MaxFailures, aclock)
        BY <2>3, <2>5, OtherWindow
      <4> QED BY <2>4, <3>2, <4>1
    <3> QED BY <3>1, <3>2
  <2>8. IF allRemote'[1] = 0 THEN Gone(wrong', Others', MaxGlobalFailures, aclock)
        ELSE Windowed(wrong', Others', allRemote'[1], allRemote'[2], MaxGlobalFailures, aclock)
    <3>1. /\ IsFiniteSet(Others) /\ Others \subseteq DOMAIN wrong /\ \A i \in DOMAIN wrong : wrong[i].at \in Nat
      BY WrongFinite
    <3>2. \A i \in Others' : wrong'[i].at = wrong[i].at /\ wrong'[i].at \in Nat BY <2>3, <3>1
    <3>3. CASE allRemote[1] = 0
      <4>1. Gone(wrong, Others, MaxGlobalFailures, aclock) BY <3>3 DEF GuessInv
      <4>2. Gone(wrong', Others', MaxGlobalFailures, aclock)
        BY <2>3, <2>5, <3>1, <3>2, <4>1, GoneStays
      <4> QED BY <2>1, <3>3, <4>2
    <3>4. CASE allRemote[1] # 0
      <4>1. Windowed(wrong, Others, allRemote[1], allRemote[2], MaxGlobalFailures, aclock) BY <3>4 DEF GuessInv
      <4>2. Windowed(wrong', Others', allRemote[1], allRemote[2], MaxGlobalFailures, aclock)
        BY <2>3, <2>5, <3>1, <3>2, <4>1, WindowStays
      <4> QED BY <2>1, <3>4, <4>2
    <3> QED BY <3>3, <3>4
  <2>9. GuessInv' BY <2>5, <2>7, <2>8, Zenon DEF GuessInv
  <2>10. DoorTypes' BY <1>1, <1>2, <1>7, <2>1, <2>2 DEF DoorTypes
  <2> QED BY <1>2, <1>4, <1>6, <2>2, <2>3, <2>6, <2>9, <2>10
<1>9. CASE ~try[t].right
  <2>1. Admin!NoteFailure(a) /\ UNCHANGED <<sessions, tokens>> BY <1>9 DEF Admin!Answer
  <2>2. /\ TrackedTypes' /\ WrongTypes' /\ GuessInv'
        /\ allRemote'[1] \in Nat /\ allRemote'[2] \in 0 .. aclock
    BY <1>1, <1>3, <1>5, <2>1, FailureNoted
  <2>3. SessionTypes' BY <2>1, SessionsSame
  <2>4. DoorTypes' BY <1>1, <1>2, <1>7, <2>1, <2>2 DEF DoorTypes
  <2> QED BY <1>2, <1>4, <1>6, <2>2, <2>3, <2>4
<1> QED BY <1>8, <1>9

LEMMA LogoutStep ==
  ASSUME PanelBounds, PanelInv, NEW s, Admin!Logout(s)
  PROVE  PanelInv'
<1> USE DEF PanelInv
<1>1. /\ sessions' = Admin!Without(sessions, {s}) /\ UNCHANGED Admin!conns
      /\ UNCHANGED <<aclock, perKey, allRemote, try, hashLine, queuedChecks, tokens, wrong, refused>>
  BY DEF Admin!Logout
<1>2. TrackedTypes' /\ WrongTypes' /\ GuessInv' /\ ConnInv' /\ LineInv' /\ HashInv'
  BY <1>1, GuessesSame, ConnsSame, LineSame DEF Sameness
<1>3. DOMAIN sessions' \subseteq DOMAIN sessions /\ \A r \in DOMAIN sessions' : sessions'[r] = sessions[r]
  BY <1>1 DEF Admin!Without
<1>4. IsFiniteSet(DOMAIN sessions') /\ Cardinality(DOMAIN sessions') <= MaxSessions
  <2>1. /\ IsFiniteSet(DOMAIN sessions') /\ Cardinality(DOMAIN sessions') <= Cardinality(DOMAIN sessions)
        /\ Cardinality(DOMAIN sessions') \in Nat /\ Cardinality(DOMAIN sessions) \in Nat
    BY <1>3, Fewer DEF SessionTypes
  <2> QED BY <2>1 DEF SessionTypes, PanelBounds
<1>5. SessionTypes' BY <1>3, <1>4 DEF SessionTypes
<1>6. DoorTypes' BY <1>1 DEF DoorTypes
<1> QED BY <1>2, <1>5, <1>6

(* A tick: windows end, and answers are forgotten that are a window old. *)
LEMMA TickStep ==
  ASSUME PanelBounds, PanelInv, Admin!Tick
  PROVE  PanelInv'
<1> USE DEF PanelInv
<1>1. /\ aclock < MaxTime /\ aclock' = aclock + 1 /\ UNCHANGED Admin!conns
      /\ wrong' = Admin!Without(wrong, {i \in DOMAIN wrong : ~Admin!Recent(wrong[i], aclock + 1)})
      /\ UNCHANGED <<try, hashLine, queuedChecks, perKey, allRemote, sessions, tokens, refused>>
  BY DEF Admin!Tick
<1>2. aclock \in Nat /\ aclock' \in 0 .. MaxTime /\ aclock' \in Nat /\ aclock <= aclock' /\ 0 .. aclock \subseteq 0 .. aclock'
  BY <1>1 DEF DoorTypes, PanelBounds
<1>3. /\ DOMAIN wrong' = {i \in DOMAIN wrong : Admin!Recent(wrong[i], aclock + 1)}
      /\ \A i \in DOMAIN wrong' : wrong'[i] = wrong[i]
  BY <1>1 DEF Admin!Without
<1>4. SessionTypes' /\ ConnInv' BY <1>1, SessionsSame, ConnsSame
<1>5. DoorTypes' BY <1>1, <1>2 DEF DoorTypes
<1>6. TrackedTypes' BY <1>1, <1>2 DEF TrackedTypes
<1>7. WrongTypes'
  <2>1. DOMAIN wrong' \subseteq Nat \ {0} /\ IsFiniteSet(DOMAIN wrong') BY <1>3, FS_Subset DEF WrongTypes
  <2>2. ASSUME NEW i \in DOMAIN wrong'
        PROVE  /\ wrong'[i] \in [from : Froms, at : Nat, own : BOOLEAN]
               /\ wrong'[i].at <= aclock' /\ aclock' < wrong'[i].at + Window
    <3>1. i \in DOMAIN wrong /\ wrong'[i] = wrong[i] /\ Admin!Recent(wrong[i], aclock + 1) BY <1>3
    <3>2. wrong[i] \in [from : Froms, at : Nat, own : BOOLEAN] /\ wrong[i].at <= aclock BY <3>1 DEF WrongTypes
    <3>3. wrong[i].at + Window > aclock + 1 BY <3>1 DEF Admin!Recent
    <3>4. wrong[i].at \in Nat BY <3>2
    <3>5. wrong[i].at <= aclock' /\ aclock' < wrong[i].at + Window BY <1>1, <1>2, <3>2, <3>3, <3>4 DEF PanelBounds
    <3> QED BY <3>1, <3>2, <3>5
  <2> QED BY <2>1, <2>2 DEF WrongTypes
<1>8. /\ \A c \in Froms : Own(c)' \subseteq Own(c)
      /\ Others' \subseteq Others
  BY <1>3 DEF Own, Others
<1>9. /\ IsFiniteSet(Others) /\ Others \subseteq DOMAIN wrong /\ \A i \in DOMAIN wrong : wrong[i].at \in Nat
      /\ \A c \in Froms : IsFiniteSet(Own(c)) /\ Own(c) \subseteq DOMAIN wrong
      /\ \A i \in DOMAIN wrong' : wrong'[i].at = wrong[i].at /\ wrong'[i].at \in Nat
      /\ Others' \subseteq DOMAIN wrong' /\ \A c \in Froms : Own(c)' \subseteq DOMAIN wrong'
  <2>1. \A i \in DOMAIN wrong' : i \in DOMAIN wrong /\ wrong'[i] = wrong[i] BY <1>3
  <2>2. \A i \in DOMAIN wrong : wrong[i].at \in Nat BY WrongFinite
  <2>3. \A i \in DOMAIN wrong' : wrong'[i].at = wrong[i].at /\ wrong'[i].at \in Nat BY <2>1, <2>2
  <2>4. Others' \subseteq DOMAIN wrong' /\ \A c \in Froms : Own(c)' \subseteq DOMAIN wrong' BY DEF Own, Others
  <2> QED BY <2>2, <2>3, <2>4, WrongFinite
<1>10. MaxFailures \in Nat /\ MaxGlobalFailures \in Nat BY DEF PanelBounds
<1>11. ASSUME NEW c \in Froms
       PROVE  IF c \in DOMAIN perKey THEN Windowed(wrong', Own(c)', perKey[c][1], perKey[c][2], MaxFailures, aclock')
              ELSE Gone(wrong', Own(c)', MaxFailures, aclock')
  <2>1. /\ IsFiniteSet(Own(c)) /\ Own(c)' \subseteq Own(c)
        /\ \A i \in Own(c)' : wrong'[i].at = wrong[i].at /\ wrong'[i].at \in Nat
    BY <1>8, <1>9
  <2>2. CASE c \in DOMAIN perKey
    <3>1. Windowed(wrong, Own(c), perKey[c][1], perKey[c][2], MaxFailures, aclock) BY <2>2 DEF GuessInv
    <3> QED BY <1>2, <1>10, <2>1, <2>2, <3>1, WindowStays
  <2>3. CASE c \notin DOMAIN perKey
    <3>1. Gone(wrong, Own(c), MaxFailures, aclock) BY <2>3 DEF GuessInv
    <3> QED BY <1>2, <1>10, <2>1, <2>3, <3>1, GoneStays
  <2> QED BY <2>2, <2>3
<1>12. IF allRemote[1] = 0 THEN Gone(wrong', Others', MaxGlobalFailures, aclock')
       ELSE Windowed(wrong', Others', allRemote[1], allRemote[2], MaxGlobalFailures, aclock')
  <2>1. /\ IsFiniteSet(Others) /\ Others' \subseteq Others
        /\ \A i \in Others' : wrong'[i].at = wrong[i].at /\ wrong'[i].at \in Nat
    BY <1>8, <1>9
  <2>2. CASE allRemote[1] = 0
    <3>1. Gone(wrong, Others, MaxGlobalFailures, aclock) BY <2>2 DEF GuessInv
    <3> QED BY <1>2, <1>10, <2>1, <2>2, <3>1, GoneStays
  <2>3. CASE allRemote[1] # 0
    <3>1. Windowed(wrong, Others, allRemote[1], allRemote[2], MaxGlobalFailures, aclock) BY <2>3 DEF GuessInv
    <3> QED BY <1>2, <1>10, <2>1, <2>3, <3>1, WindowStays
  <2> QED BY <2>2, <2>3
<1>13. GuessInv' BY <1>1, <1>11, <1>12, Zenon DEF GuessInv
<1>14. LineInv' BY <1>1 DEF LineInv, InLine, Busy
<1>15. HashInv'
  <2> SUFFICES ASSUME NEW t \in Tries, try[t].stage = "hashing"
               PROVE  hashLine[1] = t /\ ~Admin!Locked(try[t].from)'
    BY <1>1 DEF HashInv
  <2>1. hashLine[1] = t /\ ~Admin!Locked(try[t].from) BY DEF HashInv
  <2> PICK f : f = try[t].from OBVIOUS
  <2>2. ~Admin!OwnLock(f) /\ (Admin!Remote(f) => ~Admin!GlobalLock) BY <2>1 DEF Admin!Locked
  <2>3. ~Admin!OwnLock(f)' BY <1>1, <1>2, <2>2 DEF Admin!OwnLock, TrackedTypes, PanelBounds
  <2>4. Admin!Remote(f) => ~Admin!GlobalLock' BY <1>1, <1>2, <2>2 DEF Admin!GlobalLock, DoorTypes, PanelBounds
  <2>5. try'[t].from = f BY <1>1
  <2>6. ~Admin!Locked(f)' BY <2>3, <2>4 DEF Admin!Locked, Admin!Remote
  <2> QED BY <2>1, <2>5, <2>6, Zenon DEF Admin!Locked, Admin!OwnLock, Admin!GlobalLock, Admin!Remote
<1> QED BY <1>4, <1>5, <1>6, <1>7, <1>13, <1>14, <1>15

LEMMA ConnStep ==
  ASSUME PanelBounds, PanelInv, NEW a \in Froms, Admin!Accept(a) \/ Admin!Close(a)
  PROVE  PanelInv'
<1> USE DEF PanelInv
<1>1. UNCHANGED <<aclock, perKey, allRemote, sessions, tokens, wrong, try, hashLine, queuedChecks, refused>>
  BY DEF Admin!Accept, Admin!Close, Admin!auth
<1>2. ConnInv' BY Accepted, Closed
<1>3. TrackedTypes' /\ WrongTypes' /\ GuessInv' /\ SessionTypes' /\ LineInv' /\ HashInv'
  BY <1>1, GuessesSame, SessionsSame, LineSame DEF Sameness
<1>4. DoorTypes' BY <1>1 DEF DoorTypes
<1> QED BY <1>2, <1>3, <1>4

LEMMA PanelStays ==
  ASSUME PanelInv, UNCHANGED Admin!vars
  PROVE  PanelInv'
<1> USE DEF PanelInv
<1>1. UNCHANGED <<aclock, perKey, allRemote, sessions, tokens, wrong, try, hashLine, queuedChecks, refused>> /\ UNCHANGED Admin!conns
  BY DEF Admin!vars, Admin!conns
<1>2. TrackedTypes' /\ WrongTypes' /\ GuessInv' /\ SessionTypes' /\ LineInv' /\ HashInv' /\ ConnInv'
  BY <1>1, GuessesSame, SessionsSame, LineSame, ConnsSame DEF Sameness
<1>3. DoorTypes' BY <1>1 DEF DoorTypes
<1> QED BY <1>2, <1>3

LEMMA PanelInitially ==
  ASSUME PanelBounds, Admin!Init
  PROVE  PanelInv
<1> USE DEF Admin!Init
<1>1. DoorTypes
  <2>1. Admin!NoTry \in [stage : Stages, from : Froms, right : BOOLEAN] BY DEF Admin!NoTry, Stages, PanelBounds
  <2> QED BY <2>1 DEF DoorTypes, PanelBounds
<1>2. TrackedTypes
  <2>1. DOMAIN perKey = {} OBVIOUS
  <2> QED BY <2>1, FS_EmptySet DEF TrackedTypes, PanelBounds
<1>3. SessionTypes
  <2>1. DOMAIN sessions = {} OBVIOUS
  <2> QED BY <2>1, FS_EmptySet DEF SessionTypes, PanelBounds
<1>4. DOMAIN wrong = {}
  <2>1. DOMAIN wrong = 1 .. 0 OBVIOUS
  <2> QED BY <2>1
<1>5. WrongTypes BY <1>4, FS_EmptySet DEF WrongTypes
<1>6. GuessInv
  <2>1. Others = {} /\ \A a \in Froms : Own(a) = {} BY <1>4 DEF Own, Others
  <2>2. \A max \in Nat \ {0} : Gone(wrong, {}, max, aclock) BY FS_EmptySet DEF Gone
  <2>3. DOMAIN perKey = {} /\ allRemote[1] = 0 OBVIOUS
  <2> QED BY <2>1, <2>2, <2>3 DEF GuessInv, PanelBounds
<1>7. LineInv
  <2>1. Busy = {} BY DEF Busy, Admin!NoTry
  <2>2. Len(hashLine) = 0 /\ hashLine \in Seq(Tries) OBVIOUS
  <2>3. 1 .. 0 = {} OBVIOUS
  <2> QED BY <2>1, <2>2, <2>3, FS_EmptySet DEF LineInv, InLine
<1>8. HashInv BY DEF HashInv, Admin!NoTry
<1>9. ConnInv
  <2>1. DOMAIN perIpConns = {} OBVIOUS
  <2>2. \A a \in Froms : Admin!HeldBy(a) = 0 BY <2>1 DEF Admin!HeldBy, Admin!Open
  <2>3. Places = {} BY DEF Places
  <2>4. Admin!Taken = 0 BY <2>3, FS_EmptySet, PlacesFinite
  <2> QED BY <2>1, <2>2, <2>4 DEF ConnInv, PanelBounds
<1> QED BY <1>1, <1>2, <1>3, <1>5, <1>6, <1>7, <1>8, <1>9 DEF PanelInv

LEMMA PanelImplies ==
  ASSUME PanelBounds, PanelInv
  PROVE  PanelGuarded
<1> USE DEF PanelInv
<1>1. Admin!TypeOK
  <2>1. Admin!Range(hashLine) \subseteq Tries
    <3>1. DOMAIN hashLine = 1 .. Len(hashLine) /\ \A i \in 1 .. Len(hashLine) : hashLine[i] \in Tries
      BY LenProperties, ElementOfSeq DEF LineInv
    <3> QED BY <3>1 DEF Admin!Range
  <2>2. Admin!Cardinality(DOMAIN perKey) <= MaxTracked /\ Admin!Cardinality(DOMAIN sessions) <= MaxSessions
    BY AdminCardinality DEF TrackedTypes, SessionTypes
  <2>3. \A t \in Tries : try[t].stage \in {"no", "waiting", "hashing"} /\ try[t].from \in Froms
    BY DEF DoorTypes, Stages
  <2> QED BY <2>1, <2>2, <2>3 DEF Admin!TypeOK, DoorTypes, TrackedTypes
<1>2. Admin!GuessesBounded
  <2>1. /\ IsFiniteSet(Others) /\ Others \subseteq DOMAIN wrong /\ \A i \in DOMAIN wrong : wrong[i].at \in Nat
        /\ \A c \in Froms : IsFiniteSet(Own(c)) /\ Own(c) \subseteq DOMAIN wrong
    BY WrongFinite
  <2>2. aclock \in Nat /\ MaxFailures \in Nat \ {0} /\ MaxGlobalFailures \in Nat \ {0} BY DEF DoorTypes, PanelBounds
  <2>3. ASSUME NEW a \in Froms PROVE Cardinality(Own(a)) <= 2 * MaxFailures - 1
    <3>1. \/ Gone(wrong, Own(a), MaxFailures, aclock)
          \/ Windowed(wrong, Own(a), perKey[a][1], perKey[a][2], MaxFailures, aclock)
      BY DEF GuessInv
    <3>2. \A i \in Own(a) : wrong[i].at \in Nat BY <2>1
    <3> QED BY <2>1, <2>2, <3>1, <3>2, WindowBound
  <2>4. Cardinality(Others) <= 2 * MaxGlobalFailures - 1
    <3>1. \/ Gone(wrong, Others, MaxGlobalFailures, aclock)
          \/ Windowed(wrong, Others, allRemote[1], allRemote[2], MaxGlobalFailures, aclock)
      BY DEF GuessInv
    <3>2. \A i \in Others : wrong[i].at \in Nat BY <2>1
    <3> QED BY <2>1, <2>2, <3>1, <3>2, WindowBound
  <2> QED BY <2>3, <2>4, AdminCardinality DEF Admin!GuessesBounded, Own, Others
<1>3. Admin!OperatorGetsIn BY DEF Admin!OperatorGetsIn, DoorTypes
<1>4. Admin!PlacesExact
  <2>1. queuedChecks = Admin!Cardinality({t \in Tries : try[t].stage # "no"})
    BY AdminCardinality DEF LineInv, Busy
  <2>2. \A a \in Froms : acquired[a] = Admin!HeldBy(a) /\ Admin!HeldBy(a) <= MaxConnsPerIp BY DEF ConnInv
  <2>3. \A t \in Tries : try[t].stage = "hashing" => Head(hashLine) = t BY DEF HashInv
  <2> QED BY <2>1, <2>2, <2>3 DEF Admin!PlacesExact, ConnInv
<1>5. Admin!OnlyOwnPagesAct
  BY DEF Admin!OnlyOwnPagesAct, Admin!Reaches, Admin!HostAllowed, Admin!HostHeader, Admin!CrossSite,
         Admin!SecFetchSite, Admin!OriginHost
<1> QED BY <1>1, <1>2, <1>3, <1>4, <1>5 DEF PanelGuarded, Admin!PanelGuarded

(* AdminAccess: for any requests, addresses, limits and windows: however    *)
(* logins overlap, an address answers wrongly at most as often as two       *)
(* neighbouring windows allow, and all remote ones together; the right      *)
(* password from loopback is refused only for wrong ones from there; places *)
(* and connections are counted exactly; and only the panel's pages act.     *)
THEOREM PanelAlwaysGuarded ==
  ASSUME PanelBounds
  PROVE  Admin!Spec => []PanelGuarded
<1>1. Admin!Init => PanelInv BY PanelInitially
<1>2. PanelInv /\ [Admin!Next]_(Admin!vars) => PanelInv'
  BY PanelStays, LoginStep, StartCheckStep, AnswerStep, HangUpStep, LogoutStep, ConnStep, TickStep DEF Admin!Next
<1>3. PanelInv => PanelGuarded BY PanelImplies
<1> QED BY <1>1, <1>2, <1>3, PTL DEF Admin!Spec

(***************************************************************************)
(* Warnings.                                                               *)
(***************************************************************************)
WarnBounds ==
  /\ RingSize \in Nat \ {0} /\ Quiet \in Nat /\ QuietKept \in Nat /\ Quiet <= QuietKept
  /\ MaxTick \in Nat /\ MaxLogged \in Nat /\ MaxRepeats \in Nat

Warnings == [of : Repeaters, at : Nat, suppressed : Nat, missed : Nat]

(* The throttle's entry counts the repeats since the event was last logged, *)
(* unless the cleanup dropped it.                                           *)
SeenGood ==
  /\ seen \in [Repeaters -> [last : {-1} \cup Nat, count : Nat]] /\ raised \in [Repeaters -> Nat]
  /\ \A r \in Repeaters :
       /\ seen[r].last <= wtick /\ (seen[r].last = -1 => seen[r].count = 0)
       /\ seen[r].last # -1 => ~swept[r]
       /\ swept[r] \/ seen[r].count = raised[r]

(* What the ring has of an event is as old as the throttle knows, or, where *)
(* it knows nothing of it, as what the cleanup drops.                       *)
RingGood ==
  /\ ring \in Seq(Warnings) /\ Len(ring) <= RingSize
  /\ \A i \in 1 .. Len(ring) :
       /\ ring[i].suppressed = ring[i].missed
       /\ seen[ring[i].of].last # -1 => ring[i].at <= seen[ring[i].of].last
       /\ seen[ring[i].of].last = -1 => ring[i].at + QuietKept <= wtick
  /\ \A i, j \in 1 .. Len(ring) :
       i < j /\ ring[i].of = ring[j].of => ring[j].at - ring[i].at >= Quiet

WarnInv ==
  /\ wtick \in 0 .. MaxTick /\ total \in Nat /\ Len(ring) <= total /\ total <= MaxLogged
  /\ swept \in [Repeaters -> BOOLEAN] /\ SeenGood /\ RingGood

(* A full ring loses its oldest, then the new one is the last. *)
LEMMA RingPushed ==
  ASSUME RingSize \in Nat \ {0}, ring \in Seq(Warnings), Len(ring) <= RingSize,
         NEW e \in Warnings, NEW r2, r2 = Append(IF Len(ring) = RingSize THEN Tail(ring) ELSE ring, e)
  PROVE  /\ r2 \in Seq(Warnings) /\ Len(r2) <= RingSize /\ Len(r2) <= Len(ring) + 1 /\ Len(r2) \in Nat \ {0}
         /\ r2[Len(r2)] = e
         /\ \E d \in {0, 1} : \A i \in 1 .. Len(r2) :
              i # Len(r2) => i + d \in 1 .. Len(ring) /\ r2[i] = ring[i + d]
<1>1. Len(ring) \in Nat BY LenProperties
<1>2. CASE Len(ring) = RingSize
  <2> DEFINE t == Tail(ring)
  <2>1. ring # <<>> BY <1>2, EmptySeq
  <2>2. t \in Seq(Warnings) /\ Len(t) = Len(ring) - 1 /\ \A i \in 1 .. Len(t) : t[i] = ring[i + 1]
    BY <2>1, HeadTailProperties
  <2>3. r2 = Append(t, e) BY <1>2
  <2> HIDE DEF t
  <2>4. /\ r2 \in Seq(Warnings) /\ Len(r2) = Len(t) + 1 /\ r2[Len(t) + 1] = e
        /\ \A i \in 1 .. Len(t) : r2[i] = t[i]
    BY <2>2, <2>3, AppendProperties
  <2>5. \A i \in 1 .. Len(r2) : i # Len(r2) => i \in 1 .. Len(t) /\ i + 1 \in 1 .. Len(ring)
    BY <1>1, <2>2, <2>4
  <2> QED BY <1>1, <1>2, <2>2, <2>4, <2>5
<1>3. CASE Len(ring) # RingSize
  <2>1. r2 = Append(ring, e) BY <1>3
  <2>2. /\ r2 \in Seq(Warnings) /\ Len(r2) = Len(ring) + 1 /\ r2[Len(ring) + 1] = e
        /\ \A i \in 1 .. Len(ring) : r2[i] = ring[i]
    BY <2>1, AppendProperties
  <2>3. \A i \in 1 .. Len(r2) : i # Len(r2) => i \in 1 .. Len(ring) /\ i + 0 = i BY <1>1, <2>2
  <2> QED BY <1>1, <1>3, <2>2, <2>3
<1> QED BY <1>2, <1>3

LEMMA WarnInitially ==
  ASSUME WarnBounds, Warn!Init
  PROVE  WarnInv
<1>1. Len(ring) = 0 /\ ring \in Seq(Warnings) BY EmptySeq DEF Warn!Init
<1>2. /\ wtick = 0 /\ total = 0 /\ seen = [r \in Repeaters |-> [last |-> -1, count |-> 0]]
      /\ raised = [r \in Repeaters |-> 0]
  BY DEF Warn!Init, Warn!NoEntry
<1>3. swept \in [Repeaters -> BOOLEAN] /\ \A r \in Repeaters : ~swept[r] BY Zenon DEF Warn!Init
<1>4. /\ seen \in [Repeaters -> [last : {-1} \cup Nat, count : Nat]] /\ raised \in [Repeaters -> Nat]
      /\ \A r \in Repeaters :
           seen[r].last <= wtick /\ seen[r].last = -1 /\ seen[r].count = 0 /\ seen[r].count = raised[r]
  BY <1>2
<1>5. SeenGood BY <1>4 DEF SeenGood
<1>6. RingGood BY <1>1 DEF RingGood, WarnBounds
<1>7. wtick \in 0 .. MaxTick /\ total \in Nat /\ Len(ring) <= total /\ total <= MaxLogged
  BY <1>1, <1>2 DEF WarnBounds
<1> QED BY <1>3, <1>5, <1>6, <1>7 DEF WarnInv

LEMMA WarnTicks ==
  ASSUME WarnBounds, WarnInv, Warn!Tick
  PROVE  WarnInv'
<1>1. wtick' = wtick + 1 /\ wtick < MaxTick /\ UNCHANGED <<seen, ring, total, raised, swept>>
  BY DEF Warn!Tick
<1>2. wtick \in Nat /\ wtick' \in 0 .. MaxTick BY <1>1 DEF WarnInv, WarnBounds
<1>3. \A r \in Repeaters : seen[r].last <= wtick => seen[r].last <= wtick + 1
  BY <1>2 DEF WarnInv, SeenGood
<1>4. SeenGood' BY <1>1, <1>3 DEF WarnInv, SeenGood
<1>5. \A i \in 1 .. Len(ring) : ring[i].at + QuietKept <= wtick => ring[i].at + QuietKept <= wtick + 1
  <2> TAKE i \in 1 .. Len(ring)
  <2>1. ring[i] \in Warnings BY ElementOfSeq DEF WarnInv, RingGood
  <2> QED BY <1>2, <2>1 DEF Warnings, WarnBounds
<1>6. RingGood' BY <1>1, <1>5 DEF WarnInv, RingGood
<1> QED BY <1>1, <1>2, <1>4, <1>6 DEF WarnInv

LEMMA WarnEvent ==
  ASSUME WarnBounds, WarnInv, NEW r \in Repeaters, Warn!Event(r)
  PROVE  WarnInv'
<1> DEFINE e == seen[r]
           due == e.last = -1 \/ wtick - e.last >= Quiet
<1>1. /\ wtick' = wtick /\ total < MaxLogged
      /\ seen' = [seen EXCEPT ![r] = IF due THEN [last |-> wtick, count |-> 0] ELSE [e EXCEPT !.count = @ + 1]]
      /\ raised' = [raised EXCEPT ![r] = IF due THEN 0 ELSE @ + 1]
  BY DEF Warn!Event
<1>2. wtick \in Nat /\ total \in Nat /\ swept \in [Repeaters -> BOOLEAN] BY DEF WarnInv, WarnBounds
<1>3. e \in [last : {-1} \cup Nat, count : Nat] /\ raised[r] \in Nat /\ e.last <= wtick
  BY DEF WarnInv, SeenGood
<1>4. CASE due
  <2>1. PICK m : m = (IF swept[r] THEN 0 ELSE raised[r]) OBVIOUS
  <2>2. PICK w : w = [of |-> r, at |-> wtick, suppressed |-> e.count, missed |-> m] OBVIOUS
  <2>3. m \in Nat /\ m = e.count
    <3>1. CASE swept[r]
      <4>1. e.last = -1 BY <3>1, Zenon DEF WarnInv, SeenGood
      <4>2. e.count = 0 BY <4>1 DEF WarnInv, SeenGood
      <4>3. m = 0 BY <2>1, <3>1, Zenon
      <4> QED BY <4>2, <4>3
    <3>2. CASE ~swept[r]
      <4>1. e.count = raised[r] BY <3>2, Zenon DEF WarnInv, SeenGood
      <4>2. m = raised[r] BY <2>1, <3>2, Zenon
      <4> QED BY <1>3, <4>1, <4>2
    <3> QED BY <3>1, <3>2
  <2>4. /\ w \in Warnings /\ w.of = r /\ w.at = wtick /\ w.suppressed = w.missed
    BY <1>2, <1>3, <2>2, <2>3 DEF Warnings
  <2>5. Warn!Push(w) /\ swept' = [swept EXCEPT ![r] = IF due THEN FALSE ELSE @]
    BY <1>4, <2>1, <2>2 DEF Warn!Event
  <2>6. swept' \in [Repeaters -> BOOLEAN] /\ ~swept'[r] /\ \A q \in Repeaters : q # r => swept'[q] = swept[q]
    <3> DEFINE no == FALSE
    <3>1. swept' = [swept EXCEPT ![r] = no] BY <1>4, <2>5, Zenon
    <3>2. no \in BOOLEAN /\ ~no OBVIOUS
    <3> HIDE DEF no
    <3> QED BY <1>2, <3>1, <3>2, Zenon
  <2>7. /\ seen' \in [Repeaters -> [last : {-1} \cup Nat, count : Nat]] /\ raised' \in [Repeaters -> Nat]
        /\ seen'[r].last = wtick /\ seen'[r].count = 0 /\ raised'[r] = 0
        /\ \A q \in Repeaters : q # r => seen'[q] = seen[q] /\ raised'[q] = raised[q]
    <3>1. seen \in [Repeaters -> [last : {-1} \cup Nat, count : Nat]] /\ raised \in [Repeaters -> Nat]
      BY DEF WarnInv, SeenGood
    <3>2. seen' = [seen EXCEPT ![r] = [last |-> wtick, count |-> 0]] /\ raised' = [raised EXCEPT ![r] = 0]
      BY <1>1, <1>4
    <3> QED BY <1>2, <3>1, <3>2
  <2> HIDE DEF due, e
  <2>8. ASSUME NEW q \in Repeaters
        PROVE  /\ seen'[q].last <= wtick' /\ (seen'[q].last = -1 => seen'[q].count = 0)
               /\ seen'[q].last # -1 => ~swept'[q]
               /\ swept'[q] \/ seen'[q].count = raised'[q]
    <3>1. CASE q = r
      <4>1. wtick <= wtick BY <1>2
      <4> QED BY <1>1, <2>6, <2>7, <3>1, <4>1, Zenon
    <3>2. CASE q # r BY <1>1, <2>6, <2>7, <3>2, Zenon DEF WarnInv, SeenGood
    <3> QED BY <3>1, <3>2
  <2>9. SeenGood' BY <2>7, <2>8, Zenon DEF SeenGood
  <2>10. PICK r2 : r2 = ring' OBVIOUS
  <2>11. r2 = Append(IF Len(ring) = RingSize THEN Tail(ring) ELSE ring, w) /\ total' = total + 1
    BY <2>5, <2>10 DEF Warn!Push
  <2>12. ring \in Seq(Warnings) /\ Len(ring) <= RingSize /\ Len(ring) \in Nat
    BY LenProperties DEF WarnInv, RingGood
  <2>13. RingSize \in Nat \ {0} BY DEF WarnBounds
  <2>14. /\ r2 \in Seq(Warnings) /\ Len(r2) <= RingSize /\ Len(r2) <= Len(ring) + 1 /\ Len(r2) \in Nat \ {0}
         /\ r2[Len(r2)] = w
         /\ \E d \in {0, 1} : \A i \in 1 .. Len(r2) :
              i # Len(r2) => i + d \in 1 .. Len(ring) /\ r2[i] = ring[i + d]
    BY <2>4, <2>11, <2>12, <2>13, RingPushed
  <2>15. PICK d \in {0, 1} : \A i \in 1 .. Len(r2) :
            i # Len(r2) => i + d \in 1 .. Len(ring) /\ r2[i] = ring[i + d]
    BY <2>14
  <2>16. \A i \in 1 .. Len(ring) : ring[i] \in Warnings BY <2>12, ElementOfSeq
  <2>17. ASSUME NEW i \in 1 .. Len(ring), ring[i].of = r PROVE ring[i].at + Quiet <= wtick
    <3>1. ring[i].at \in Nat BY <2>16 DEF Warnings
    <3>2. CASE e.last = -1
      <4>1. ring[i].at + QuietKept <= wtick BY <2>17, <3>2 DEF WarnInv, RingGood, e
      <4> QED BY <1>2, <3>1, <4>1 DEF WarnBounds
    <3>3. CASE e.last # -1
      <4>1. ring[i].at <= e.last BY <2>17, <3>3 DEF WarnInv, RingGood, e
      <4>2. wtick - e.last >= Quiet /\ e.last \in Nat BY <1>3, <1>4, <3>3 DEF due
      <4> QED BY <1>2, <3>1, <4>1, <4>2 DEF WarnBounds
    <3> QED BY <3>2, <3>3
  <2>18. Quiet \in Nat /\ QuietKept \in Nat BY DEF WarnBounds
  <2>19. ASSUME NEW i \in 1 .. Len(r2)
         PROVE  /\ r2[i].suppressed = r2[i].missed
                /\ seen'[r2[i].of].last # -1 => r2[i].at <= seen'[r2[i].of].last
                /\ seen'[r2[i].of].last = -1 => r2[i].at + QuietKept <= wtick'
    <3>1. CASE i = Len(r2) BY <1>2, <2>4, <2>7, <2>14, <3>1
    <3>2. CASE i # Len(r2)
      <4>1. PICK k \in 1 .. Len(ring) : r2[i] = ring[k] BY <2>15, <3>2
      <4>2. ring[k] \in Warnings BY <2>16
      <4>3. ring[k].of \in Repeaters /\ ring[k].at \in Nat BY <4>2 DEF Warnings
      <4>4. /\ ring[k].suppressed = ring[k].missed
            /\ seen[ring[k].of].last # -1 => ring[k].at <= seen[ring[k].of].last
            /\ seen[ring[k].of].last = -1 => ring[k].at + QuietKept <= wtick
        BY DEF WarnInv, RingGood
      <4>5. CASE ring[k].of = r
        <5>1. ring[k].at + Quiet <= wtick BY <2>17, <4>5
        <5> QED BY <1>2, <2>7, <2>18, <4>1, <4>3, <4>4, <4>5, <5>1
      <4>6. CASE ring[k].of # r BY <1>1, <2>7, <4>1, <4>3, <4>4, <4>6
      <4> QED BY <4>5, <4>6
    <3> QED BY <3>1, <3>2
  <2>20. ASSUME NEW i \in 1 .. Len(r2), NEW j \in 1 .. Len(r2), i < j, r2[i].of = r2[j].of
         PROVE  r2[j].at - r2[i].at >= Quiet
    <3>1. i # Len(r2) BY <2>14, <2>20
    <3>2. i + d \in 1 .. Len(ring) /\ r2[i] = ring[i + d] BY <2>15, <3>1
    <3>3. CASE j = Len(r2)
      <4>1. ring[i + d].of = r BY <2>4, <2>14, <2>20, <3>2, <3>3
      <4>2. ring[i + d].at + Quiet <= wtick BY <2>17, <3>2, <4>1
      <4>3. ring[i + d].at \in Nat BY <2>16, <3>2 DEF Warnings
      <4>4. r2[j].at = wtick BY <2>4, <2>14, <3>3
      <4> QED BY <1>2, <2>18, <3>2, <4>2, <4>3, <4>4
    <3>4. CASE j # Len(r2)
      <4>1. j + d \in 1 .. Len(ring) /\ r2[j] = ring[j + d] BY <2>15, <3>4
      <4>2. i + d < j + d BY <2>14, <2>20
      <4> QED BY <2>20, <3>2, <4>1, <4>2 DEF WarnInv, RingGood
    <3> QED BY <3>3, <3>4
  <2>21. RingGood' BY <2>10, <2>14, <2>19, <2>20 DEF RingGood
  <2>22. total' \in Nat /\ Len(ring)' <= total' /\ total' <= MaxLogged
    <3>1. Len(ring) <= total /\ MaxLogged \in Nat BY DEF WarnInv, WarnBounds
    <3> QED BY <1>1, <1>2, <2>10, <2>11, <2>12, <2>14, <3>1
  <2>23. wtick' \in 0 .. MaxTick BY <1>1 DEF WarnInv
  <2> QED BY <2>6, <2>9, <2>21, <2>22, <2>23, Zenon DEF WarnInv
<1>5. CASE ~due
  <2>1. /\ ring' = ring /\ total' = total /\ swept' = [swept EXCEPT ![r] = IF due THEN FALSE ELSE @]
    BY <1>5 DEF Warn!Event
  <2>2. swept' = swept BY <1>2, <1>5, <2>1, Zenon
  <2>3. /\ seen' \in [Repeaters -> [last : {-1} \cup Nat, count : Nat]] /\ raised' \in [Repeaters -> Nat]
        /\ seen'[r].last = e.last /\ seen'[r].count = e.count + 1 /\ raised'[r] = raised[r] + 1
        /\ \A q \in Repeaters : q # r => seen'[q] = seen[q] /\ raised'[q] = raised[q]
    <3>1. seen \in [Repeaters -> [last : {-1} \cup Nat, count : Nat]] /\ raised \in [Repeaters -> Nat]
      BY DEF WarnInv, SeenGood
    <3>2. seen' = [seen EXCEPT ![r] = [e EXCEPT !.count = @ + 1]] /\ raised' = [raised EXCEPT ![r] = @ + 1]
      BY <1>1, <1>5
    <3>3. PICK y : y = [e EXCEPT !.count = @ + 1] OBVIOUS
    <3>4. y \in [last : {-1} \cup Nat, count : Nat] /\ y.last = e.last /\ y.count = e.count + 1 BY <1>3, <3>3
    <3>5. seen' = [seen EXCEPT ![r] = y] BY <3>2, <3>3
    <3> HIDE DEF e
    <3> QED BY <1>3, <3>1, <3>2, <3>4, <3>5
  <2>4. e.last # -1 BY <1>5
  <2>5. ~swept[r] /\ e.count = raised[r] BY <2>4, Zenon DEF WarnInv, SeenGood
  <2>6. \A q \in Repeaters : seen'[q].last = seen[q].last BY <2>3
  <2>7. ASSUME NEW q \in Repeaters
        PROVE  /\ seen'[q].last <= wtick' /\ (seen'[q].last = -1 => seen'[q].count = 0)
               /\ seen'[q].last # -1 => ~swept'[q]
               /\ swept'[q] \/ seen'[q].count = raised'[q]
    <3>1. CASE q = r BY <1>1, <1>3, <2>2, <2>3, <2>4, <2>5, <3>1, Zenon
    <3>2. CASE q # r BY <1>1, <2>2, <2>3, <3>2, Zenon DEF WarnInv, SeenGood
    <3> QED BY <3>1, <3>2
  <2>8. SeenGood' BY <2>3, <2>7, Zenon DEF SeenGood
  <2>9. \A i \in 1 .. Len(ring) : ring[i].of \in Repeaters
    <3> TAKE i \in 1 .. Len(ring)
    <3>1. ring[i] \in Warnings BY ElementOfSeq DEF WarnInv, RingGood
    <3> QED BY <3>1 DEF Warnings
  <2>10. RingGood' BY <1>1, <2>1, <2>6, <2>9 DEF WarnInv, RingGood
  <2> QED BY <1>1, <1>2, <2>1, <2>2, <2>8, <2>10 DEF WarnInv
<1> QED BY <1>4, <1>5

LEMMA WarnSweeps ==
  ASSUME WarnBounds, WarnInv, Warn!Sweep
  PROVE  WarnInv'
<1> DEFINE old == {r \in Repeaters : seen[r].last >= 0 /\ wtick - seen[r].last >= QuietKept}
<1>1. /\ seen' = [r \in Repeaters |-> IF r \in old THEN Warn!NoEntry ELSE seen[r]]
      /\ swept' = [r \in Repeaters |-> swept[r] \/ (r \in old /\ seen[r].count > 0)]
      /\ wtick' = wtick /\ ring' = ring /\ total' = total /\ raised' = raised
  BY DEF Warn!Sweep
<1>2. \A r \in Repeaters : seen[r] \in [last : {-1} \cup Nat, count : Nat] BY DEF WarnInv, SeenGood
<1>3. swept \in [Repeaters -> BOOLEAN] BY DEF WarnInv
<1>4. swept' \in [Repeaters -> BOOLEAN] BY <1>1, <1>3, Zenon
<1>5. Warn!NoEntry \in [last : {-1} \cup Nat, count : Nat] /\ Warn!NoEntry.last = -1 /\ Warn!NoEntry.count = 0
  BY DEF Warn!NoEntry
<1>6. wtick \in Nat BY DEF WarnInv, WarnBounds
<1>7. \A r \in old : r \in Repeaters /\ seen[r].last # -1 /\ seen[r].last + QuietKept <= wtick
  BY <1>2, <1>6 DEF WarnBounds
<1> HIDE DEF old
<1>8. \A r \in Repeaters :
        /\ r \in old => seen'[r] = Warn!NoEntry /\ (swept'[r] <=> swept[r] \/ seen[r].count > 0)
        /\ r \notin old => seen'[r] = seen[r] /\ swept'[r] = swept[r]
  BY <1>1, <1>3, Zenon
<1>9. seen' \in [Repeaters -> [last : {-1} \cup Nat, count : Nat]]
  BY <1>1, <1>2, <1>5
<1>10. ASSUME NEW q \in Repeaters
       PROVE  /\ seen'[q].last <= wtick' /\ (seen'[q].last = -1 => seen'[q].count = 0)
              /\ seen'[q].last # -1 => ~swept'[q]
              /\ swept'[q] \/ seen'[q].count = raised'[q]
  <2>1. CASE q \in old
    <3>1. seen'[q].last = -1 /\ seen'[q].count = 0 BY <1>5, <1>8, <2>1
    <3>2. -1 <= wtick BY <1>6
    <3>3. seen[q].last # -1 BY <1>7, <2>1
    <3>4. ~swept[q] /\ seen[q].count = raised[q] BY <3>3, Zenon DEF WarnInv, SeenGood
    <3>5. seen[q].count > 0 \/ seen[q].count = 0 BY <1>2
    <3> QED BY <1>1, <1>8, <2>1, <3>1, <3>2, <3>4, <3>5, Zenon
  <2>2. CASE q \notin old BY <1>1, <1>8, <2>2, Zenon DEF WarnInv, SeenGood
  <2> QED BY <2>1, <2>2
<1>11. SeenGood' BY <1>1, <1>9, <1>10, Zenon DEF WarnInv, SeenGood
<1>12. ASSUME NEW i \in 1 .. Len(ring)
       PROVE  /\ seen'[ring[i].of].last # -1 => ring[i].at <= seen'[ring[i].of].last
              /\ seen'[ring[i].of].last = -1 => ring[i].at + QuietKept <= wtick
  <2>1. ring[i] \in Warnings BY ElementOfSeq DEF WarnInv, RingGood
  <2>2. ring[i].of \in Repeaters /\ ring[i].at \in Nat BY <2>1 DEF Warnings
  <2>3. /\ seen[ring[i].of].last # -1 => ring[i].at <= seen[ring[i].of].last
        /\ seen[ring[i].of].last = -1 => ring[i].at + QuietKept <= wtick
    BY DEF WarnInv, RingGood
  <2>4. CASE ring[i].of \in old
    <3>1. ring[i].at <= seen[ring[i].of].last /\ seen[ring[i].of].last + QuietKept <= wtick
      BY <1>7, <2>3, <2>4
    <3>2. seen'[ring[i].of].last = -1 /\ seen[ring[i].of].last \in {-1} \cup Nat BY <1>2, <1>5, <1>8, <2>2, <2>4
    <3> QED BY <1>6, <2>2, <3>1, <3>2 DEF WarnBounds
  <2>5. CASE ring[i].of \notin old BY <1>8, <2>2, <2>3, <2>5
  <2> QED BY <2>4, <2>5
<1>13. RingGood' BY <1>1, <1>12 DEF WarnInv, RingGood
<1> QED BY <1>1, <1>4, <1>11, <1>13 DEF WarnInv

LEMMA WarnStep ==
  ASSUME WarnBounds, WarnInv, [Warn!Next]_(Warn!vars)
  PROVE  WarnInv'
<1>1. CASE UNCHANGED Warn!vars BY <1>1 DEF Warn!vars, WarnInv, SeenGood, RingGood
<1>2. CASE Warn!Next BY <1>2, WarnTicks, WarnEvent, WarnSweeps DEF Warn!Next
<1> QED BY <1>1, <1>2

LEMMA WarnImplies ==
  ASSUME WarnBounds, WarnInv
  PROVE  Warn!WarningsSound
<1>1. Len(ring) \in Nat /\ DOMAIN ring = 1 .. Len(ring) BY LenProperties DEF WarnInv, RingGood
<1>2. \A r \in Repeaters : seen[r].last \in -1 .. wtick BY DEF WarnInv, SeenGood, WarnBounds
<1>3. total \in Len(ring) .. MaxLogged BY <1>1 DEF WarnInv, WarnBounds
<1>4. Warn!TypeOK BY <1>2, <1>3 DEF Warn!TypeOK, WarnInv, RingGood
<1>5. Warn!RepeatsKeptOut
  <2>1. \A i, j \in DOMAIN ring : i < j /\ ring[i].of = ring[j].of => ring[j].at - ring[i].at >= Quiet
    BY <1>1 DEF WarnInv, RingGood
  <2>2. \A i \in DOMAIN ring : ring[i].suppressed = ring[i].missed BY <1>1 DEF WarnInv, RingGood
  <2>3. \A r \in Repeaters : swept[r] \/ seen[r].count = raised[r] BY Zenon DEF WarnInv, SeenGood
  <2> QED BY <2>1, <2>2, <2>3, Zenon DEF Warn!RepeatsKeptOut
<1> QED BY <1>4, <1>5 DEF Warn!WarningsSound

(* Warnings: however often peers repeat themselves and whenever the cleanup *)
(* runs, two entries of one event in the ring are a window apart and each   *)
(* counts the repeats it stands for, for any peers, ring and windows of     *)
(* which the cleanup's is not the shorter.                                  *)
THEOREM WarningsAlwaysSound ==
  ASSUME WarnBounds
  PROVE  Warn!Spec => []Warn!WarningsSound
<1>1. Warn!Init => WarnInv BY WarnInitially
<1>2. WarnInv /\ [Warn!Next]_(Warn!vars) => WarnInv' BY WarnStep
<1>3. WarnInv => Warn!WarningsSound BY WarnImplies
<1> QED BY <1>1, <1>2, <1>3, PTL DEF Warn!Spec
(* Induction over the numbers, as a fact about a set of them. *)
LEMMA NatSetInduction ==
  ASSUME NEW G, 0 \in G, \A n \in Nat : n \in G => n + 1 \in G
  PROVE  Nat \subseteq G
<1> DEFINE T == Nat \ G
           R == OpToRel(<, Nat)
<1>1. SUFFICES ASSUME T # {} PROVE FALSE
  OBVIOUS
<1>2. IsWellFoundedOn(R, Nat)
  BY NatLessThanWellFounded
<1>3. PICK x \in T : \A y \in T : ~(<<y, x>> \in R)
  <2> HIDE DEF R
  <2> QED BY <1>1, <1>2, WFMin
<1>4. \A y \in T : ~(y < x)
  <2> SUFFICES ASSUME NEW y \in T, y < x PROVE FALSE
    OBVIOUS
  <2>1. <<y, x>> \in R
    BY Zenon DEF OpToRel
  <2> QED BY <2>1, <1>3
<1> HIDE DEF R
<1>5. x # 0 /\ x - 1 \in Nat
  BY SMT
<1>6. x - 1 \notin T
  BY <1>4, <1>5
<1>7. x - 1 \in G BY <1>5, <1>6
<1>8. x \in Nat /\ (x - 1) + 1 = x /\ x \notin G OBVIOUS
<1> QED BY <1>5, <1>7, <1>8


(***************************************************************************)
(* Sums over finite sets, as FoldSet computes them: one element after the  *)
(* other, from a base.                                                     *)
(***************************************************************************)
PickOf(s) == CHOOSE x \in s : TRUE
SumStep(w, b, g, s) == IF s = {} THEN b ELSE g[s \ {PickOf(s)}] + w[PickOf(s)]
SumRun(f, w, b, S) == f = [s \in SUBSET S |-> SumStep(w, b, f, s)]
IsTotal(v, w, b, S) == \E f : SumRun(f, w, b, S) /\ v = f[S]

LEMMA PickIn == ASSUME NEW s, s # {} PROVE PickOf(s) \in s
BY DEF PickOf

LEMMA RestSmaller ==
  ASSUME NEW s, IsFiniteSet(s), NEW x \in s
  PROVE  /\ IsFiniteSet(s \ {x}) /\ Cardinality(s \ {x}) \in Nat /\ Cardinality(s) \in Nat
         /\ Cardinality(s) = Cardinality(s \ {x}) + 1
<1>1. IsFiniteSet(s \ {x}) /\ Cardinality(s \ {x}) = Cardinality(s) - 1 BY FS_RemoveElement
<1>2. Cardinality(s) \in Nat /\ Cardinality(s \ {x}) \in Nat BY <1>1, FS_CardinalityType
<1> QED BY <1>1, <1>2

(* The function of all partial sums exists: those of up to n elements from  *)
(* those of fewer.                                                         *)
LEMMA SumRunExists ==
  ASSUME NEW S, IsFiniteSet(S), NEW w, NEW b
  PROVE  \E f : SumRun(f, w, b, S)
<1> DEFINE D(n) == {s \in SUBSET S : Cardinality(s) <= n}
           Runs(f, n) == f = [s \in D(n) |-> SumStep(w, b, f, s)]
           G == {n \in Nat : \E f : Runs(f, n)}
<1>0. \A s \in SUBSET S : IsFiniteSet(s) /\ Cardinality(s) \in Nat BY FS_Subset, FS_CardinalityType
<1>1. 0 \in G
  <2> DEFINE f == [s \in D(0) |-> b]
  <2>1. \A s \in D(0) : s = {} BY <1>0, FS_EmptySet
  <2>2. \A s \in D(0) : SumStep(w, b, f, s) = b BY <2>1 DEF SumStep
  <2>3. Runs(f, 0) BY <2>2
  <2> QED BY <2>3
<1>2. ASSUME NEW n \in Nat, n \in G PROVE n + 1 \in G
  <2>1. PICK f : Runs(f, n) BY <1>2
  <2> DEFINE g == [s \in D(n + 1) |-> SumStep(w, b, f, s)]
  <2>2. ASSUME NEW s \in D(n + 1), s # {} PROVE s \ {PickOf(s)} \in D(n)
    <3>1. PickOf(s) \in s BY <2>2, PickIn
    <3>2. IsFiniteSet(s) /\ Cardinality(s) \in Nat /\ Cardinality(s) <= n + 1 BY <1>0
    <3>3. Cardinality(s) = Cardinality(s \ {PickOf(s)}) + 1 /\ Cardinality(s \ {PickOf(s)}) \in Nat
      BY <3>1, <3>2, RestSmaller
    <3>4. Cardinality(s \ {PickOf(s)}) <= n BY <3>2, <3>3
    <3> QED BY <3>4
  <2>3. D(n) \subseteq D(n + 1) BY <1>0
  <2>4. \A s \in D(n) : f[s] = SumStep(w, b, f, s) BY <2>1
  <2>5. \A s \in D(n) : g[s] = f[s] BY <2>3, <2>4
  <2>6. ASSUME NEW s \in D(n + 1) PROVE g[s] = SumStep(w, b, g, s)
    <3>1. g[s] = SumStep(w, b, f, s) OBVIOUS
    <3>2. s # {} => g[s \ {PickOf(s)}] = f[s \ {PickOf(s)}] BY <2>2, <2>5
    <3> HIDE DEF g
    <3> QED BY <3>1, <3>2 DEF SumStep
  <2>7. g = [s \in D(n + 1) |-> g[s]] OBVIOUS
  <2> HIDE DEF g
  <2>8. Runs(g, n + 1)
    <3>1. [s \in D(n + 1) |-> g[s]] = [s \in D(n + 1) |-> SumStep(w, b, g, s)] BY <2>6
    <3> QED BY <2>7, <3>1
  <2> QED BY <2>8
<1>3. Cardinality(S) \in Nat BY FS_CardinalityType
<1>4. Cardinality(S) \in G
  <2> HIDE DEF G
  <2> QED BY <1>1, <1>2, <1>3, NatSetInduction
<1>5. PICK f : Runs(f, Cardinality(S)) BY <1>4
<1>6. D(Cardinality(S)) = SUBSET S
  <2>1. \A s \in SUBSET S : Cardinality(s) <= Cardinality(S) BY FS_Subset
  <2> QED BY <2>1
<1>7. SumRun(f, w, b, S) BY <1>5, <1>6 DEF SumRun
<1> QED BY <1>7

(* A property of a finite set that its parts without their picked element   *)
(* hand on holds of all its parts.                                         *)
LEMMA PartInduction ==
  ASSUME NEW S, IsFiniteSet(S), NEW G,
         \A s \in SUBSET S : (\A x \in s : s \ {x} \in G) => s \in G
  PROVE  SUBSET S \subseteq G
<1> DEFINE H == {n \in Nat : \A s \in SUBSET S : Cardinality(s) = n => s \in G}
<1>0. \A s \in SUBSET S : IsFiniteSet(s) /\ Cardinality(s) \in Nat BY FS_Subset, FS_CardinalityType
<1>1. 0 \in H
  <2>1. ASSUME NEW s \in SUBSET S, Cardinality(s) = 0 PROVE s \in G
    <3>1. s = {} BY <1>0, <2>1, FS_EmptySet
    <3> QED BY <3>1
  <2> QED BY <2>1
<1>2. ASSUME NEW n \in Nat, n \in H PROVE n + 1 \in H
  <2>1. ASSUME NEW s \in SUBSET S, Cardinality(s) = n + 1 PROVE s \in G
    <3>1. ASSUME NEW x \in s PROVE s \ {x} \in G
      <4>1. Cardinality(s \ {x}) \in Nat /\ Cardinality(s) = Cardinality(s \ {x}) + 1
        BY <1>0, RestSmaller
      <4>2. Cardinality(s \ {x}) = n BY <2>1, <4>1
      <4> QED BY <1>2, <4>2
    <3> QED BY <3>1
  <2> QED BY <2>1
<1> HIDE DEF H
<1>3. Nat \subseteq H BY <1>1, <1>2, NatSetInduction
<1> QED BY <1>0, <1>3 DEF H

(* Taking out any element takes out what it is worth. *)
SumFacts(f, w, b, S) ==
  /\ f[{}] = b
  /\ \A s \in SUBSET S : f[s] \in Nat /\ \A x \in s : f[s] = f[s \ {x}] + w[x]

LEMMA RunRemoves ==
  ASSUME NEW S, IsFiniteSet(S), NEW w \in [S -> Nat], NEW b \in Nat, NEW f, SumRun(f, w, b, S)
  PROVE  SumFacts(f, w, b, S)
<1>0. \A s \in SUBSET S : f[s] = IF s = {} THEN b ELSE f[s \ {PickOf(s)}] + w[PickOf(s)]
  BY DEF SumRun, SumStep
<1>1. f[{}] = b BY <1>0
<1>2. SUBSET S \subseteq {s \in SUBSET S : f[s] \in Nat}
  <2> DEFINE G == {s \in SUBSET S : f[s] \in Nat}
  <2>1. ASSUME NEW s \in SUBSET S, \A x \in s : s \ {x} \in G PROVE s \in G
    <3>1. CASE s = {} BY <1>1, <3>1
    <3>2. CASE s # {}
      <4>1. PICK p \in s : p = PickOf(s) BY <3>2, PickIn
      <4>2. f[s] = f[s \ {p}] + w[p] BY <1>0, <3>2, <4>1
      <4>3. s \ {p} \in G BY <2>1
      <4>4. f[s \ {p}] \in Nat /\ w[p] \in Nat BY <4>3
      <4> QED BY <4>2, <4>4
    <3> QED BY <3>1, <3>2
  <2> HIDE DEF G
  <2>2. SUBSET S \subseteq G BY <2>1, PartInduction
  <2> QED BY <2>2 DEF G
<1> DEFINE G == {s \in SUBSET S : \A x \in s : f[s] = f[s \ {x}] + w[x]}
<1>3. ASSUME NEW s \in SUBSET S, \A x \in s : s \ {x} \in G PROVE s \in G
  <2>1. ASSUME NEW x \in s PROVE f[s] = f[s \ {x}] + w[x]
    <3>1. PICK p \in s : p = PickOf(s) BY <2>1, PickIn
    <3>2. f[s] = f[s \ {p}] + w[p] BY <1>0, <2>1, <3>1
    <3>3. CASE x = p BY <3>2, <3>3
    <3>4. CASE x # p
      <4>1. s \ {x} \in G /\ s \ {p} \in G /\ p \in s \ {x} /\ x \in s \ {p} BY <1>3, <3>4
      <4>2. f[s \ {p}] = f[(s \ {p}) \ {x}] + w[x] /\ f[s \ {x}] = f[(s \ {x}) \ {p}] + w[p] BY <4>1
      <4>3. (s \ {p}) \ {x} = (s \ {x}) \ {p} /\ (s \ {p}) \ {x} \in SUBSET S OBVIOUS
      <4>4. PICK r \in Nat : r = f[(s \ {p}) \ {x}] BY <1>2, <4>3
      <4>5. PICK a \in Nat : a = f[s \ {p}] BY <1>2
      <4>6. PICK c \in Nat : c = f[s \ {x}] BY <1>2
      <4>7. a = r + w[x] /\ c = r + w[p] /\ f[s] = a + w[p]
        BY <3>2, <4>2, <4>3, <4>4, <4>5, <4>6
      <4>8. w[x] \in Nat /\ w[p] \in Nat OBVIOUS
      <4>9. f[s] = c + w[x] BY <4>7, <4>8
      <4> QED BY <4>6, <4>9
    <3> QED BY <3>3, <3>4
  <2> QED BY <2>1
<1> HIDE DEF G
<1>4. SUBSET S \subseteq G BY <1>3, PartInduction
<1> QED BY <1>1, <1>2, <1>4 DEF G, SumFacts

(* There is one total, a number; of nothing it is the base. *)
LEMMA TotalIs ==
  ASSUME NEW S, IsFiniteSet(S), NEW w \in [S -> Nat], NEW b \in Nat
  PROVE  /\ \E v \in Nat : IsTotal(v, w, b, S)
         /\ S = {} => IsTotal(b, w, b, S)
<1>1. PICK f : SumRun(f, w, b, S) BY SumRunExists
<1>2. f[{}] = b /\ f[S] \in Nat BY <1>1, RunRemoves DEF SumFacts
<1> QED BY <1>1, <1>2 DEF IsTotal

(* The parts of a total. *)
LEMMA TotalRemoves ==
  ASSUME NEW S, IsFiniteSet(S), NEW w \in [S -> Nat], NEW b \in Nat, NEW v, IsTotal(v, w, b, S),
         NEW x \in S
  PROVE  v \in Nat /\ \E r \in Nat : v = r + w[x]
<1>1. PICK f : SumRun(f, w, b, S) /\ v = f[S] BY DEF IsTotal
<1>2. f[S] \in Nat /\ f[S \ {x}] \in Nat /\ f[S] = f[S \ {x}] + w[x] BY <1>1, RunRemoves DEF SumFacts
<1> QED BY <1>1, <1>2

(* Two sums whose elements and bases are apart by what d and e say. *)
LEMMA TotalsApart ==
  ASSUME NEW S, IsFiniteSet(S), NEW w \in [S -> Nat], NEW u \in [S -> Nat], NEW b \in Nat, NEW c \in Nat,
         NEW v, IsTotal(v, w, b, S), NEW t, IsTotal(t, u, c, S),
         NEW x \in S, \A y \in S : y # x => u[y] = w[y]
  PROVE  v \in Nat /\ t \in Nat /\ t - v = (u[x] - w[x]) + (c - b)
<1>1. PICK f : SumRun(f, w, b, S) /\ v = f[S] BY DEF IsTotal
<1>2. PICK g : SumRun(g, u, c, S) /\ t = g[S] BY DEF IsTotal
<1>3. /\ f[{}] = b /\ g[{}] = c
      /\ \A s \in SUBSET S : f[s] \in Nat /\ g[s] \in Nat
      /\ \A s \in SUBSET S : \A y \in s : f[s] = f[s \ {y}] + w[y] /\ g[s] = g[s \ {y}] + u[y]
  <2>1. SumFacts(f, w, b, S) BY <1>1, RunRemoves
  <2>2. SumFacts(g, u, c, S) BY <1>2, RunRemoves
  <2> QED BY <2>1, <2>2 DEF SumFacts
<1> DEFINE G == {s \in SUBSET S : x \notin s => g[s] - f[s] = c - b}
<1>4. ASSUME NEW s \in SUBSET S, \A y \in s : s \ {y} \in G PROVE s \in G
  <2>1. CASE s = {} BY <1>3, <2>1
  <2>2. CASE x \in s BY <2>2
  <2>3. CASE s # {} /\ x \notin s
    <3>1. PICK y : y \in s BY <2>3
    <3>2. g[s \ {y}] - f[s \ {y}] = c - b BY <1>4, <2>3, <3>1
    <3>3. u[y] = w[y] /\ w[y] \in Nat BY <2>3, <3>1
    <3>4. f[s \ {y}] \in Nat /\ g[s \ {y}] \in Nat BY <1>3
    <3>5. f[s] = f[s \ {y}] + w[y] /\ g[s] = g[s \ {y}] + u[y] BY <1>3, <3>1
    <3>6. g[s] - f[s] = c - b BY <3>2, <3>3, <3>4, <3>5
    <3> QED BY <3>6
  <2> QED BY <2>1, <2>2, <2>3
<1>5. S \ {x} \in G
  <2> HIDE DEF G
  <2>1. SUBSET S \subseteq G BY <1>4, PartInduction
  <2> QED BY <2>1
<1>6. g[S \ {x}] - f[S \ {x}] = c - b BY <1>5
<1>7. f[S] = f[S \ {x}] + w[x] /\ g[S] = g[S \ {x}] + u[x] BY <1>3
<1>8. f[S \ {x}] \in Nat /\ g[S \ {x}] \in Nat /\ f[S] \in Nat /\ g[S] \in Nat BY <1>3
<1>9. w[x] \in Nat /\ u[x] \in Nat OBVIOUS
<1>10. g[S] - f[S] = (u[x] - w[x]) + (c - b) BY <1>6, <1>7, <1>8, <1>9
<1> QED BY <1>1, <1>2, <1>8, <1>10

(* A sum of nothings is its base. *)
LEMMA TotalOfZeros ==
  ASSUME NEW S, IsFiniteSet(S), NEW w \in [S -> Nat], NEW b \in Nat, NEW v, IsTotal(v, w, b, S),
         \A y \in S : w[y] = 0
  PROVE  v = b
<1>1. PICK f : SumRun(f, w, b, S) /\ v = f[S] BY DEF IsTotal
<1>2. f[{}] = b /\ \A s \in SUBSET S : f[s] \in Nat /\ \A y \in s : f[s] = f[s \ {y}] + w[y]
  BY <1>1, RunRemoves DEF SumFacts
<1> DEFINE G == {s \in SUBSET S : f[s] = b}
<1>3. ASSUME NEW s \in SUBSET S, \A y \in s : s \ {y} \in G PROVE s \in G
  <2>1. CASE s = {} BY <1>2, <2>1
  <2>2. CASE s # {}
    <3>1. PICK y : y \in s BY <2>2
    <3>2. f[s] = f[s \ {y}] + w[y] /\ f[s \ {y}] = b /\ w[y] = 0 BY <1>2, <1>3, <3>1
    <3> QED BY <3>2
  <2> QED BY <2>1, <2>2
<1>4. S \in G
  <2> HIDE DEF G
  <2> QED BY <1>3, PartInduction
<1> QED BY <1>1, <1>4

-----------------------------------------------------------------------------
(* What the property sums is a total. *)
Requests == [a \in Askers |-> records[a].n]

LEMMA RequestsTotal ==
  ASSUME IsFiniteSet(Askers)
  PROVE  IsTotal(Active!FoldSet(LAMBDA a, n : n + records[a].n, untracked, Askers), Requests, untracked, Askers)
<1> DEFINE f == CHOOSE iter : iter = [s \in SUBSET Askers |->
                  IF s = {} THEN untracked
                  ELSE iter[s \ {CHOOSE x \in s : TRUE}] + records[CHOOSE x \in s : TRUE].n]
<1>1. PICK g : SumRun(g, Requests, untracked, Askers) BY SumRunExists
<1>2. ASSUME NEW s \in SUBSET Askers, s # {} PROVE Requests[PickOf(s)] = records[PickOf(s)].n
  BY <1>2, PickIn DEF Requests
<1>3. g = [s \in SUBSET Askers |->
             IF s = {} THEN untracked
             ELSE g[s \ {CHOOSE x \in s : TRUE}] + records[CHOOSE x \in s : TRUE].n]
  BY <1>1, <1>2 DEF SumRun, SumStep, PickOf
<1>4. f = [s \in SUBSET Askers |->
             IF s = {} THEN untracked
             ELSE f[s \ {CHOOSE x \in s : TRUE}] + records[CHOOSE x \in s : TRUE].n]
  BY <1>3
<1>5. Active!FoldSet(LAMBDA a, n : n + records[a].n, untracked, Askers) = f[Askers]
  BY DEF Active!FoldSet, Active!MapThenFoldSet
<1>6. SumRun(f, Requests, untracked, Askers)
  <2> HIDE DEF f
  <2> QED BY <1>2, <1>4 DEF SumRun, SumStep, PickOf
<1> QED BY <1>5, <1>6 DEF IsTotal

-----------------------------------------------------------------------------
ActBounds ==
  /\ IsFiniteSet(Askers) /\ Askers # {} /\ IsFiniteSet(Handlers) /\ Handlers # {}
  /\ MaxSources \in Nat /\ Minute \in Nat \ {0} /\ MaxMinute \in Nat

ActNotes == {"totalled", "counted", "timed", "insert"}
ActStages == {"idle", "results"} \cup ActNotes
HandlerRecs == [at : ActStages, key : Askers, search : BOOLEAN, ms : Nat]
ActRecords == [n : Nat, searches : Nat, zero : Nat, gaps : Nat, minute : Nat, inMinute : Nat, peak : Nat]

(* A record has a gap for each request but the first, and its busiest       *)
(* minute, like the present one, has no more requests than it has.         *)
RecordGood(r) ==
  /\ r \in ActRecords /\ r.inMinute <= r.n
  /\ IF r.n = 0 THEN r.gaps = 0 /\ r.peak = 0 ELSE r.gaps = r.n - 1 /\ r.peak \in 1 .. r.n

(* The handlers that have yet to record what they counted, to count the     *)
(* hour, that found room, that do anything, that wait for the answer to a   *)
(* source, that have to do with it.                                        *)
ActNoters(hd) == {h \in Handlers : hd[h].at \in ActNotes}
ActTotalled(hd) == {h \in Handlers : hd[h].at = "totalled"}
ActInserters(hd) == {h \in Handlers : hd[h].at = "insert"}
ActBusy(hd) == {h \in Handlers : hd[h].at # "idle"}
ActAnswerers(hd, a) == {h \in Handlers : hd[h].at = "results" /\ hd[h].key = a}
ActAskings(hd, a) == {h \in Handlers : hd[h].at # "idle" /\ hd[h].key = a}
TrackedIn(recs) == {a \in Askers : recs[a].n > 0}
RecordedIn(recs) == CHOOSE v : IsTotal(v, [a \in Askers |-> recs[a].n], 0, Askers)

ActTypes ==
  /\ tick \in Nat /\ tick <= MaxMinute /\ began \in Nat /\ began <= tick
  /\ totals \in Nat /\ byHour \in Nat /\ untracked \in Nat /\ requests \in Nat /\ crossed \in Nat
  /\ resetting \in {"no", "map", "totals", "untracked", "hours"}
  /\ handler \in [Handlers -> HandlerRecs]
  /\ records \in [Askers -> ActRecords] /\ \A a \in Askers : RecordGood(records[a])

(* What the sums owe each other, by how far a reset is: the recorded, the   *)
(* untracked and those to be recorded make up the totals; what a reset has  *)
(* cleared holds no more than it crossed.                                  *)
ActSums(st, R, U, p, T, H, c) ==
  /\ st \in {"no", "map"} => R + U + p <= T + c /\ T <= R + U + p + c /\ H <= T + c /\ T <= H + c
  /\ st = "totals" => R + p <= c
  /\ st = "untracked" => R + p <= c /\ T <= c
  /\ st = "hours" => R + U + p <= c /\ T <= c

(* The empty answers of a source, and those it may yet get. *)
ActZero(st, z, q, m, s, c, U) ==
  IF st \in {"totals", "untracked"} THEN z + m <= s + c ELSE z + q <= s + c + U

ActRoom(t, i) == t + i < MaxSources + Cardinality(Handlers)

ActInv ==
  /\ ActTypes /\ crossed <= requests /\ Cardinality(ActBusy(handler)) <= requests
  /\ ActRoom(Cardinality(TrackedIn(records)), Cardinality(ActInserters(handler)))
  /\ ActSums(resetting, RecordedIn(records), untracked, Cardinality(ActNoters(handler)), totals,
             byHour + Cardinality(ActTotalled(handler)), crossed)
  /\ \A a \in Askers :
       ActZero(resetting, records[a].zero, Cardinality(ActAnswerers(handler, a)),
               Cardinality(ActAskings(handler, a)), records[a].searches, crossed, untracked)

-----------------------------------------------------------------------------
LEMMA ActiveCardinality == \A S : Active!Cardinality(S) = Cardinality(S)
BY DEF Active!Cardinality, Cardinality

(* How the size of a set changes with one member. *)
CountMoved(T, S, h) ==
  /\ Cardinality(T) \in Nat /\ Cardinality(S) \in Nat
  /\ h \in T /\ h \notin S => Cardinality(T) = Cardinality(S) + 1
  /\ h \notin T /\ h \in S => Cardinality(S) = Cardinality(T) + 1
  /\ (h \in T <=> h \in S) => Cardinality(T) = Cardinality(S)

LEMMA OneMoved ==
  ASSUME NEW S, IsFiniteSet(S), NEW T, NEW h, T \ {h} = S \ {h}
  PROVE  CountMoved(T, S, h)
<1>1. IsFiniteSet(T)
  <2>1. T \subseteq S \cup {h} OBVIOUS
  <2> QED BY <2>1, OneMore
<1>2. Cardinality(T) \in Nat /\ Cardinality(S) \in Nat BY <1>1, FS_CardinalityType
<1>3. CASE h \in T /\ h \notin S
  <2>1. S = T \ {h} BY <1>3
  <2>2. Cardinality(T) = Cardinality(S) + 1 BY <1>1, <1>3, <2>1, RestSmaller
  <2> QED BY <1>2, <1>3, <2>2 DEF CountMoved
<1>4. CASE h \notin T /\ h \in S
  <2>1. T = S \ {h} BY <1>4
  <2>2. Cardinality(S) = Cardinality(T) + 1 BY <1>4, <2>1, RestSmaller
  <2> QED BY <1>2, <1>4, <2>2 DEF CountMoved
<1>5. CASE h \in T <=> h \in S
  <2>1. T = S BY <1>5
  <2> QED BY <1>2, <1>5, <2>1 DEF CountMoved
<1> QED BY <1>3, <1>4, <1>5

(* What the sizes do when one handler moves. *)
LEMMA HandlerMoved ==
  ASSUME IsFiniteSet(Handlers), NEW hd \in [Handlers -> HandlerRecs], NEW h \in Handlers,
         NEW x \in HandlerRecs, NEW n, n = [hd EXCEPT ![h] = x], NEW a \in Askers
  PROVE  /\ CountMoved(ActNoters(n), ActNoters(hd), h)
         /\ CountMoved(ActTotalled(n), ActTotalled(hd), h)
         /\ CountMoved(ActInserters(n), ActInserters(hd), h)
         /\ CountMoved(ActBusy(n), ActBusy(hd), h)
         /\ CountMoved(ActAnswerers(n, a), ActAnswerers(hd, a), h)
         /\ CountMoved(ActAskings(n, a), ActAskings(hd, a), h)
<1>1. \A g \in Handlers : g # h => n[g] = hd[g] OBVIOUS
<1>2. \A S \in SUBSET Handlers : IsFiniteSet(S) BY FS_Subset
<1>3. ActNoters(n) \ {h} = ActNoters(hd) \ {h} /\ ActNoters(hd) \in SUBSET Handlers BY <1>1 DEF ActNoters
<1>4. ActInserters(n) \ {h} = ActInserters(hd) \ {h} /\ ActInserters(hd) \in SUBSET Handlers
  BY <1>1 DEF ActInserters
<1>5. ActBusy(n) \ {h} = ActBusy(hd) \ {h} /\ ActBusy(hd) \in SUBSET Handlers BY <1>1 DEF ActBusy
<1>6. ActAnswerers(n, a) \ {h} = ActAnswerers(hd, a) \ {h} /\ ActAnswerers(hd, a) \in SUBSET Handlers
  BY <1>1 DEF ActAnswerers
<1>7. ActAskings(n, a) \ {h} = ActAskings(hd, a) \ {h} /\ ActAskings(hd, a) \in SUBSET Handlers
  BY <1>1 DEF ActAskings
<1>8. ActTotalled(n) \ {h} = ActTotalled(hd) \ {h} /\ ActTotalled(hd) \in SUBSET Handlers
  BY <1>1 DEF ActTotalled
<1> QED BY <1>2, <1>3, <1>4, <1>5, <1>6, <1>7, <1>8, OneMoved

(* Who is in which set. *)
LEMMA HandlerIn ==
  ASSUME NEW hd, NEW h \in Handlers, NEW a
  PROVE  /\ h \in ActNoters(hd) <=> hd[h].at \in ActNotes
         /\ h \in ActTotalled(hd) <=> hd[h].at = "totalled"
         /\ h \in ActInserters(hd) <=> hd[h].at = "insert"
         /\ h \in ActBusy(hd) <=> hd[h].at # "idle"
         /\ h \in ActAnswerers(hd, a) <=> hd[h].at = "results" /\ hd[h].key = a
         /\ h \in ActAskings(hd, a) <=> hd[h].at # "idle" /\ hd[h].key = a
BY DEF ActNoters, ActTotalled, ActInserters, ActBusy, ActAnswerers, ActAskings

(* Sizes are numbers, and parts are smaller. *)
LEMMA HandlerSizes ==
  ASSUME IsFiniteSet(Handlers), NEW hd, NEW a
  PROVE  /\ Cardinality(ActNoters(hd)) \in Nat /\ Cardinality(ActInserters(hd)) \in Nat
         /\ Cardinality(ActBusy(hd)) \in Nat /\ Cardinality(ActAnswerers(hd, a)) \in Nat
         /\ Cardinality(ActAskings(hd, a)) \in Nat /\ Cardinality(Handlers) \in Nat
         /\ Cardinality(ActNoters(hd)) <= Cardinality(ActBusy(hd))
         /\ Cardinality(ActInserters(hd)) <= Cardinality(Handlers)
         /\ Cardinality(ActTotalled(hd)) \in Nat
         /\ Cardinality(ActTotalled(hd)) <= Cardinality(ActNoters(hd))
         /\ Cardinality(ActAnswerers(hd, a)) <= Cardinality(ActAskings(hd, a))
         /\ Cardinality(ActAskings(hd, a)) <= Cardinality(ActBusy(hd))
<1>1. /\ ActNoters(hd) \subseteq Handlers /\ ActInserters(hd) \subseteq Handlers /\ ActBusy(hd) \subseteq Handlers
      /\ ActAnswerers(hd, a) \subseteq Handlers /\ ActAskings(hd, a) \subseteq Handlers
  BY DEF ActNoters, ActInserters, ActBusy, ActAnswerers, ActAskings
<1>2. /\ ActNoters(hd) \subseteq ActBusy(hd) /\ ActAnswerers(hd, a) \subseteq ActAskings(hd, a)
      /\ ActAskings(hd, a) \subseteq ActBusy(hd)
  BY DEF ActNoters, ActNotes, ActBusy, ActAnswerers, ActAskings
<1>3. \A S \in SUBSET Handlers : IsFiniteSet(S) /\ Cardinality(S) \in Nat BY FS_Subset, FS_CardinalityType
<1>4. \A S \in SUBSET Handlers : \A T \in SUBSET S : Cardinality(T) <= Cardinality(S) BY <1>3, FS_Subset
<1>5. Cardinality(Handlers) \in Nat BY FS_CardinalityType
<1>6. ActTotalled(hd) \subseteq ActNoters(hd) /\ ActTotalled(hd) \subseteq Handlers
  BY DEF ActTotalled, ActNoters, ActNotes
<1> QED BY <1>1, <1>2, <1>3, <1>4, <1>5, <1>6

(* The requests that are recorded. *)
LEMMA RecordedIs ==
  ASSUME IsFiniteSet(Askers), NEW recs \in [Askers -> ActRecords]
  PROVE  RecordedIn(recs) \in Nat /\ IsTotal(RecordedIn(recs), [a \in Askers |-> recs[a].n], 0, Askers)
<1>1. PICK w : w = [a \in Askers |-> recs[a].n] OBVIOUS
<1>2. w \in [Askers -> Nat] BY <1>1 DEF ActRecords
<1>3. PICK v \in Nat : IsTotal(v, w, 0, Askers) BY <1>2, TotalIs
<1>4. IsTotal(RecordedIn(recs), w, 0, Askers) BY <1>1, <1>3 DEF RecordedIn
<1>5. RecordedIn(recs) \in Nat
  <2>1. PICK f : SumRun(f, w, 0, Askers) /\ RecordedIn(recs) = f[Askers] BY <1>4 DEF IsTotal
  <2>2. f[Askers] \in Nat BY <1>2, <2>1, RunRemoves DEF SumFacts
  <2> QED BY <2>1, <2>2
<1> QED BY <1>1, <1>4, <1>5

LEMMA RecordedGrows ==
  ASSUME IsFiniteSet(Askers), NEW recs \in [Askers -> ActRecords], NEW n \in [Askers -> ActRecords],
         NEW a \in Askers, \A b \in Askers : b # a => n[b].n = recs[b].n
  PROVE  RecordedIn(n) \in Nat /\ RecordedIn(recs) \in Nat
         /\ RecordedIn(n) - RecordedIn(recs) = n[a].n - recs[a].n
<1>1. PICK w : w = [b \in Askers |-> recs[b].n] OBVIOUS
<1>2. PICK u : u = [b \in Askers |-> n[b].n] OBVIOUS
<1>3. w \in [Askers -> Nat] /\ u \in [Askers -> Nat] BY <1>1, <1>2 DEF ActRecords
<1>4. IsTotal(RecordedIn(recs), w, 0, Askers) BY <1>1, RecordedIs
<1>5. IsTotal(RecordedIn(n), u, 0, Askers) BY <1>2, RecordedIs
<1>6. \A b \in Askers : b # a => u[b] = w[b] BY <1>1, <1>2
<1>7. PICK v : v = RecordedIn(recs) /\ IsTotal(v, w, 0, Askers) BY <1>4
<1>9. PICK t : t = RecordedIn(n) /\ IsTotal(t, u, 0, Askers) BY <1>5
<1>10. v \in Nat /\ t \in Nat /\ t - v = (u[a] - w[a]) + (0 - 0)
  <2>1. IsTotal(v, w, 0, Askers) BY <1>7
  <2>2. IsTotal(t, u, 0, Askers) BY <1>9
  <2> QED BY <1>3, <1>6, <2>1, <2>2, TotalsApart
<1>8. u[a] = n[a].n /\ w[a] = recs[a].n /\ u[a] \in Nat /\ w[a] \in Nat BY <1>1, <1>2, <1>3
<1>11. t - v = u[a] - w[a] BY <1>8, <1>10
<1> QED BY <1>7, <1>8, <1>9, <1>10, <1>11

LEMMA RecordedNone ==
  ASSUME IsFiniteSet(Askers), NEW recs \in [Askers -> ActRecords], \A a \in Askers : recs[a].n = 0
  PROVE  RecordedIn(recs) = 0
<1>1. PICK w : w = [b \in Askers |-> recs[b].n] OBVIOUS
<1>2. w \in [Askers -> Nat] /\ \A a \in Askers : w[a] = 0 BY <1>1 DEF ActRecords
<1>3. IsTotal(RecordedIn(recs), w, 0, Askers) BY <1>1, RecordedIs
<1> QED BY <1>2, <1>3, TotalOfZeros

-----------------------------------------------------------------------------
LEMMA ActIdle ==
  ASSUME ActBounds
  PROVE  Active!Idle \in HandlerRecs /\ Active!Idle.at = "idle"
<1> DEFINE no == FALSE
           k == CHOOSE a \in Askers : TRUE
<1>1. k \in Askers /\ no \in BOOLEAN BY DEF ActBounds
<1>2. Active!Idle = [at |-> "idle", key |-> k, search |-> no, ms |-> 0] BY DEF Active!Idle
<1> HIDE DEF no, k
<1> QED BY <1>1, <1>2 DEF HandlerRecs, ActStages

(* The start. *)
LEMMA ActiveInitially ==
  ASSUME ActBounds, Active!Init
  PROVE  ActInv
<1>1. /\ tick = 0 /\ began = 0 /\ totals = 0 /\ byHour = 0 /\ untracked = 0 /\ requests = 0 /\ crossed = 0
      /\ resetting = "no" /\ records = [a \in Askers |-> Active!NoRec]
      /\ handler = [h \in Handlers |-> Active!Idle]
  BY DEF Active!Init
<1>2. Active!Idle \in HandlerRecs /\ Active!Idle.at = "idle" BY ActIdle
<1>3. Active!NoRec \in ActRecords /\ RecordGood(Active!NoRec) /\ Active!NoRec.n = 0 /\ Active!NoRec.zero = 0
      /\ Active!NoRec.searches = 0
  BY DEF Active!NoRec, ActRecords, RecordGood
<1>4. /\ records \in [Askers -> ActRecords]
      /\ \A a \in Askers : RecordGood(records[a]) /\ records[a].n = 0 /\ records[a].zero = 0 /\ records[a].searches = 0
  BY <1>1, <1>3
<1>5. handler \in [Handlers -> HandlerRecs] /\ \A h \in Handlers : handler[h].at = "idle" BY <1>1, <1>2
<1>6. ActTypes BY <1>1, <1>4, <1>5 DEF ActTypes, ActBounds
<1>7. ActNoters(handler) = {} /\ ActTotalled(handler) = {} /\ ActInserters(handler) = {} /\ ActBusy(handler) = {} /\ TrackedIn(records) = {}
      /\ \A a \in Askers : ActAnswerers(handler, a) = {} /\ ActAskings(handler, a) = {}
  BY <1>4, <1>5 DEF ActNoters, ActNotes, ActTotalled, ActInserters, ActBusy, ActAnswerers, ActAskings,
                        TrackedIn
<1>8. Cardinality({}) = 0 BY FS_EmptySet
<1>9. Cardinality(Handlers) \in Nat /\ Cardinality(Handlers) # 0 BY FS_EmptySet, FS_CardinalityType DEF ActBounds
<1>10. RecordedIn(records) = 0 BY <1>4, RecordedNone DEF ActBounds
<1>11. ActRoom(0, 0) BY <1>9 DEF ActRoom, ActBounds
<1>12. ActSums("no", 0, 0, 0, 0, 0 + 0, 0) BY DEF ActSums
<1>13. ActZero("no", 0, 0, 0, 0, 0, 0) BY DEF ActZero
<1>14. \A a \in Askers : ActZero(resetting, records[a].zero, Cardinality(ActAnswerers(handler, a)),
               Cardinality(ActAskings(handler, a)), records[a].searches, crossed, untracked)
  BY <1>1, <1>4, <1>7, <1>8, <1>13
<1> QED BY <1>1, <1>6, <1>7, <1>8, <1>10, <1>11, <1>12, <1>14 DEF ActInv

-----------------------------------------------------------------------------
(* A handler begins to note: everything is counted once more. *)
LEMMA ActiveCounts ==
  ASSUME ActBounds, ActInv, NEW h \in Handlers, NEW a \in Askers, NEW s \in BOOLEAN, Active!NoteTotals(h, a, s)
  PROVE  ActInv'
<1> DEFINE x == [at |-> "totalled", key |-> a, search |-> s, ms |-> 0]
<1>1. /\ handler[h].at = "idle" /\ requests' = requests + 1 /\ totals' = totals + 1 /\ byHour' = byHour
      /\ handler' = [handler EXCEPT ![h] = x]
      /\ UNCHANGED <<tick, records, untracked, began, resetting>>
  BY DEF Active!NoteTotals
<1>2. crossed' = crossed + IF resetting \in {"no", "map"} THEN 0 ELSE 1 BY DEF Active!NoteTotals
<1>3. x \in HandlerRecs /\ x.at = "totalled" /\ x.key = a BY DEF HandlerRecs, ActStages, ActNotes
<1> HIDE DEF x
<1>4. handler \in [Handlers -> HandlerRecs] /\ IsFiniteSet(Handlers) BY DEF ActInv, ActTypes, ActBounds
<1>5. handler' \in [Handlers -> HandlerRecs] /\ handler'[h] = x BY <1>1, <1>3, <1>4
<1>6. \A b \in Askers :
        /\ CountMoved(ActTotalled(handler'), ActTotalled(handler), h)
        /\ CountMoved(ActNoters(handler'), ActNoters(handler), h)
        /\ CountMoved(ActInserters(handler'), ActInserters(handler), h)
        /\ CountMoved(ActBusy(handler'), ActBusy(handler), h)
        /\ CountMoved(ActAnswerers(handler', b), ActAnswerers(handler, b), h)
        /\ CountMoved(ActAskings(handler', b), ActAskings(handler, b), h)
  BY <1>1, <1>3, <1>4, HandlerMoved
<1>7. /\ h \in ActTotalled(handler') /\ h \notin ActTotalled(handler)
      /\ h \in ActNoters(handler') /\ h \notin ActNoters(handler)
      /\ h \notin ActInserters(handler') /\ h \notin ActInserters(handler)
      /\ h \in ActBusy(handler') /\ h \notin ActBusy(handler)
  BY <1>1, <1>3, <1>5, HandlerIn DEF ActNotes
<1>8. \A b \in Askers : h \notin ActAnswerers(handler', b) /\ h \notin ActAnswerers(handler, b)
                        /\ h \notin ActAskings(handler, b)
  BY <1>1, <1>3, <1>5, HandlerIn
<1>9. PICK p \in Nat, q \in Nat : /\ p = Cardinality(ActNoters(handler)) /\ q = Cardinality(ActNoters(handler'))
                                  /\ q = p + 1
  BY <1>6, <1>7 DEF CountMoved
<1>10. PICK b \in Nat : b = Cardinality(ActBusy(handler)) /\ Cardinality(ActBusy(handler')) = b + 1
  BY <1>6, <1>7 DEF CountMoved
<1>11. Cardinality(ActInserters(handler')) = Cardinality(ActInserters(handler)) BY <1>6, <1>7 DEF CountMoved
<1>12. ActTypes'
  <2>1. crossed' \in Nat BY <1>2 DEF ActInv, ActTypes
  <2> QED BY <1>1, <1>5, <2>1 DEF ActInv, ActTypes
<1>13. crossed' <= requests' /\ Cardinality(ActBusy(handler')) <= requests'
  BY <1>1, <1>2, <1>10 DEF ActInv, ActTypes
<1>14. PICK R \in Nat : R = RecordedIn(records) BY RecordedIs DEF ActInv, ActTypes, ActBounds
<1>15. ActSums(resetting', RecordedIn(records'), untracked', q, totals',
              byHour' + Cardinality(ActTotalled(handler')), crossed')
  <2>0. PICK w \in Nat : w = Cardinality(ActTotalled(handler)) /\ Cardinality(ActTotalled(handler')) = w + 1
    BY <1>6, <1>7 DEF CountMoved
  <2>1. ActSums(resetting, R, untracked, p, totals, byHour + w, crossed) BY <1>9, <1>14, <2>0 DEF ActInv
  <2>2. untracked \in Nat /\ totals \in Nat /\ byHour \in Nat /\ crossed \in Nat BY DEF ActInv, ActTypes
  <2>3. ActSums(resetting, R, untracked, q, totals + 1, byHour + (w + 1), crossed')
    BY <1>2, <1>9, <2>1, <2>2 DEF ActSums
  <2> QED BY <1>1, <1>14, <2>0, <2>3
<1>16. ASSUME NEW c \in Askers
       PROVE  ActZero(resetting', records'[c].zero, Cardinality(ActAnswerers(handler', c)),
               Cardinality(ActAskings(handler', c)), records'[c].searches, crossed', untracked')
  <2>1. PICK i \in Nat : i = Cardinality(ActAnswerers(handler, c)) /\ i = Cardinality(ActAnswerers(handler', c))
    BY <1>6, <1>8 DEF CountMoved
  <2>2. PICK m \in Nat, n \in Nat : /\ m = Cardinality(ActAskings(handler, c)) /\ n = Cardinality(ActAskings(handler', c))
                                    /\ n <= m + 1
    BY <1>6, <1>8 DEF CountMoved
  <2>3. ActZero(resetting, records[c].zero, i, m, records[c].searches, crossed, untracked)
    BY <2>1, <2>2 DEF ActInv
  <2>4. /\ records[c].zero \in Nat /\ records[c].searches \in Nat /\ crossed \in Nat /\ untracked \in Nat
    BY DEF ActInv, ActTypes, ActRecords
  <2>5. ActZero(resetting, records[c].zero, i, n, records[c].searches, crossed', untracked)
    BY <1>2, <2>2, <2>3, <2>4 DEF ActZero
  <2> QED BY <1>1, <2>1, <2>2, <2>5
<1>17. ActRoom(Cardinality(TrackedIn(records')), Cardinality(ActInserters(handler'))) BY <1>1, <1>11 DEF ActInv
<1> QED BY <1>9, <1>12, <1>13, <1>15, <1>16, <1>17 DEF ActInv

-----------------------------------------------------------------------------
(* A handler goes on with what it began. *)
GoesOn(h, x) ==
  /\ handler' = [handler EXCEPT ![h] = x] /\ x \in HandlerRecs
  /\ handler[h].at # "idle" /\ (x.at # "idle" => x.key = handler[h].key) /\ x.at # "totalled"
  /\ IF handler[h].at = "totalled" THEN byHour' = byHour + 1 ELSE byHour' = byHour
  /\ UNCHANGED <<tick, totals, began, requests, resetting, crossed>>

LEMMA GoneOn ==
  ASSUME ActBounds, ActInv, NEW h \in Handlers, NEW x, GoesOn(h, x)
  PROVE  /\ byHour' \in Nat
         /\ byHour' + Cardinality(ActTotalled(handler')) = byHour + Cardinality(ActTotalled(handler))
         /\ handler' \in [Handlers -> HandlerRecs] /\ handler'[h] = x
         /\ Cardinality(ActBusy(handler')) <= requests'
         /\ \A b \in Askers :
              /\ CountMoved(ActNoters(handler'), ActNoters(handler), h)
              /\ CountMoved(ActInserters(handler'), ActInserters(handler), h)
              /\ CountMoved(ActAnswerers(handler', b), ActAnswerers(handler, b), h)
              /\ CountMoved(ActAskings(handler', b), ActAskings(handler, b), h)
              /\ Cardinality(ActAskings(handler', b)) <= Cardinality(ActAskings(handler, b))
<1>1. /\ handler' = [handler EXCEPT ![h] = x] /\ x \in HandlerRecs
      /\ handler[h].at # "idle" /\ (x.at # "idle" => x.key = handler[h].key)
      /\ requests' = requests /\ x.at # "totalled"
      /\ IF handler[h].at = "totalled" THEN byHour' = byHour + 1 ELSE byHour' = byHour
  BY DEF GoesOn
<1>2. handler \in [Handlers -> HandlerRecs] /\ IsFiniteSet(Handlers) /\ Askers # {} /\ requests \in Nat /\ byHour \in Nat
  BY DEF ActInv, ActTypes, ActBounds
<1>3. handler' \in [Handlers -> HandlerRecs] /\ handler'[h] = x BY <1>1, <1>2
<1>4. \A b \in Askers :
        /\ CountMoved(ActTotalled(handler'), ActTotalled(handler), h)
        /\ CountMoved(ActNoters(handler'), ActNoters(handler), h)
        /\ CountMoved(ActInserters(handler'), ActInserters(handler), h)
        /\ CountMoved(ActBusy(handler'), ActBusy(handler), h)
        /\ CountMoved(ActAnswerers(handler', b), ActAnswerers(handler, b), h)
        /\ CountMoved(ActAskings(handler', b), ActAskings(handler, b), h)
  BY <1>1, <1>2, HandlerMoved
<1>5. h \in ActBusy(handler) /\ \A b \in Askers : h \in ActAskings(handler', b) => h \in ActAskings(handler, b)
  <2>1. h \in ActBusy(handler) BY <1>1 DEF ActBusy
  <2>2. ASSUME NEW b \in Askers, h \in ActAskings(handler', b) PROVE h \in ActAskings(handler, b)
    BY <1>1, <1>3, <2>2 DEF ActAskings
  <2> QED BY <2>1, <2>2
<1>6. PICK b \in Nat, n \in Nat : b = Cardinality(ActBusy(handler)) /\ n = Cardinality(ActBusy(handler')) /\ n <= b
  BY <1>2, <1>4, <1>5 DEF CountMoved
<1>7. n <= requests' BY <1>1, <1>2, <1>6 DEF ActInv
<1>8. ASSUME NEW b1 \in Askers
      PROVE  Cardinality(ActAskings(handler', b1)) <= Cardinality(ActAskings(handler, b1))
  <2>1. CountMoved(ActAskings(handler', b1), ActAskings(handler, b1), h) BY <1>4
  <2>2. h \in ActAskings(handler', b1) => h \in ActAskings(handler, b1) BY <1>5
  <2> QED BY <2>1, <2>2 DEF CountMoved
<1>9. byHour' \in Nat
      /\ byHour' + Cardinality(ActTotalled(handler')) = byHour + Cardinality(ActTotalled(handler))
  <2>1. CountMoved(ActTotalled(handler'), ActTotalled(handler), h) BY <1>2, <1>4
  <2>2. h \notin ActTotalled(handler') /\ (h \in ActTotalled(handler) <=> handler[h].at = "totalled")
    BY <1>1, <1>3 DEF ActTotalled
  <2>3. PICK v \in Nat, w \in Nat : v = Cardinality(ActTotalled(handler')) /\ w = Cardinality(ActTotalled(handler))
    BY <2>1 DEF CountMoved
  <2>4. CASE handler[h].at = "totalled"
    <3>1. w = v + 1 BY <2>1, <2>2, <2>3, <2>4 DEF CountMoved
    <3> QED BY <1>1, <1>2, <2>3, <2>4, <3>1
  <2>5. CASE handler[h].at # "totalled"
    <3>1. w = v BY <2>1, <2>2, <2>3, <2>5 DEF CountMoved
    <3> QED BY <1>1, <1>2, <2>3, <2>5, <3>1
  <2> QED BY <2>4, <2>5
<1> QED BY <1>3, <1>4, <1>6, <1>7, <1>8, <1>9

(* What is left to show of a step in which a handler goes on. *)
LEMMA GoneOnGood ==
  ASSUME ActBounds, ActInv, NEW h \in Handlers, NEW x, GoesOn(h, x),
         untracked' \in Nat, records' \in [Askers -> ActRecords], \A a \in Askers : RecordGood(records'[a]),
         ActRoom(Cardinality(TrackedIn(records')), Cardinality(ActInserters(handler'))),
         RecordedIn(records') + untracked' + Cardinality(ActNoters(handler'))
           = RecordedIn(records) + untracked + Cardinality(ActNoters(handler)),
         untracked' >= untracked,
         \A c \in Askers : ActZero(resetting, records'[c].zero, Cardinality(ActAnswerers(handler', c)),
               Cardinality(ActAskings(handler', c)), records'[c].searches, crossed, untracked')
  PROVE  ActInv'
<1>1. /\ handler' \in [Handlers -> HandlerRecs] /\ Cardinality(ActBusy(handler')) <= requests'
      /\ UNCHANGED <<tick, totals, began, requests, resetting, crossed>> /\ byHour' \in Nat
  BY GoneOn DEF GoesOn
<1>2. ActTypes' BY <1>1 DEF ActInv, ActTypes
<1>3. PICK R \in Nat : R = RecordedIn(records) BY RecordedIs DEF ActInv, ActTypes, ActBounds
<1>4. PICK Q \in Nat : Q = RecordedIn(records') BY RecordedIs DEF ActBounds
<1>5. PICK p \in Nat : p = Cardinality(ActNoters(handler)) BY HandlerSizes DEF ActBounds
<1>6. PICK q \in Nat : q = Cardinality(ActNoters(handler')) BY HandlerSizes DEF ActBounds
<1>7. Q + untracked' + q = R + untracked + p BY <1>3, <1>4, <1>5, <1>6
<1>8. untracked \in Nat /\ totals \in Nat /\ byHour \in Nat /\ crossed \in Nat BY DEF ActInv, ActTypes
<1>14. PICK H \in Nat : /\ H = byHour + Cardinality(ActTotalled(handler))
                        /\ H = byHour' + Cardinality(ActTotalled(handler'))
  <2>1. Cardinality(ActTotalled(handler)) \in Nat BY HandlerSizes DEF ActBounds
  <2> QED BY <1>8, <2>1, GoneOn
<1>9. ActSums(resetting, R, untracked, p, totals, H, crossed) BY <1>3, <1>5, <1>14 DEF ActInv
<1>10. ActSums(resetting, Q, untracked', q, totals, H, crossed)
  <2>1. PICK u \in Nat : u = untracked' OBVIOUS
  <2>2. Q + u + q = R + untracked + p /\ u >= untracked BY <1>7, <2>1
  <2>3. ActSums(resetting, Q, u, q, totals, H, crossed)
    BY <1>8, <1>9, <2>2 DEF ActSums
  <2> QED BY <2>1, <2>3
<1>11. ActSums(resetting', RecordedIn(records'), untracked', Cardinality(ActNoters(handler')), totals',
               byHour' + Cardinality(ActTotalled(handler')), crossed')
  BY <1>1, <1>4, <1>6, <1>10, <1>14
<1>12. crossed' <= requests' BY <1>1 DEF ActInv
<1>13. \A c \in Askers : ActZero(resetting', records'[c].zero, Cardinality(ActAnswerers(handler', c)),
               Cardinality(ActAskings(handler', c)), records'[c].searches, crossed', untracked')
  BY <1>1
<1> QED BY <1>1, <1>2, <1>11, <1>12, <1>13 DEF ActInv

(* A handler that goes on counting changes no sum. *)
LEMMA StillCounting ==
  ASSUME ActBounds, ActInv, NEW h \in Handlers, NEW x, GoesOn(h, x), x.at \in {"counted", "timed"},
         handler[h].at \in {"totalled", "counted"}, UNCHANGED <<records, untracked>>
  PROVE  ActInv'
<1>1. x.key = handler[h].key BY DEF GoesOn
<1>2. /\ handler'[h] = x
      /\ \A b \in Askers :
              /\ CountMoved(ActNoters(handler'), ActNoters(handler), h)
              /\ CountMoved(ActInserters(handler'), ActInserters(handler), h)
              /\ CountMoved(ActAnswerers(handler', b), ActAnswerers(handler, b), h)
              /\ CountMoved(ActAskings(handler', b), ActAskings(handler, b), h)
  BY GoneOn
<1>3. handler'[h].at \in {"counted", "timed"} /\ handler'[h].key = handler[h].key BY <1>1, <1>2
<1>4. /\ h \in ActNoters(handler') /\ h \in ActNoters(handler)
      /\ h \notin ActInserters(handler') /\ h \notin ActInserters(handler)
  BY <1>3 DEF ActNotes, ActNoters, ActInserters
<1>5. \A b \in Askers : /\ h \notin ActAnswerers(handler', b) /\ h \notin ActAnswerers(handler, b)
                        /\ (h \in ActAskings(handler', b) <=> h \in ActAskings(handler, b))
  BY <1>3 DEF ActAnswerers, ActAskings
<1>6. Askers # {} BY DEF ActBounds
<1>7. /\ Cardinality(ActNoters(handler')) = Cardinality(ActNoters(handler))
      /\ Cardinality(ActInserters(handler')) = Cardinality(ActInserters(handler))
      /\ \A b \in Askers : /\ Cardinality(ActAnswerers(handler', b)) = Cardinality(ActAnswerers(handler, b))
                           /\ Cardinality(ActAskings(handler', b)) = Cardinality(ActAskings(handler, b))
  BY <1>2, <1>4, <1>5, <1>6 DEF CountMoved
<1>8. untracked' \in Nat /\ untracked' >= untracked BY DEF ActInv, ActTypes
<1>9. records' \in [Askers -> ActRecords] /\ \A a \in Askers : RecordGood(records'[a]) BY DEF ActInv, ActTypes
<1>10. ActRoom(Cardinality(TrackedIn(records')), Cardinality(ActInserters(handler'))) BY <1>7 DEF ActInv
<1>11. RecordedIn(records') + untracked' + Cardinality(ActNoters(handler'))
           = RecordedIn(records) + untracked + Cardinality(ActNoters(handler))
  BY <1>7
<1>12. \A c \in Askers : ActZero(resetting, records'[c].zero, Cardinality(ActAnswerers(handler', c)),
               Cardinality(ActAskings(handler', c)), records'[c].searches, crossed, untracked')
  BY <1>7 DEF ActInv
<1> QED BY <1>8, <1>9, <1>10, <1>11, <1>12, GoneOnGood

(* The hour is counted. *)
LEMMA ActiveHour ==
  ASSUME ActBounds, ActInv, NEW h \in Handlers, Active!NoteHour(h)
  PROVE  ActInv'
<1> DEFINE x == [handler[h] EXCEPT !.at = "counted"]
<1>1. handler \in [Handlers -> HandlerRecs] BY DEF ActInv, ActTypes
<1>2. /\ handler[h].at = "totalled" /\ byHour' = byHour + 1 /\ handler' = [handler EXCEPT ![h].at = "counted"]
      /\ UNCHANGED <<tick, records, totals, untracked, began, requests, resetting, crossed>>
  BY DEF Active!NoteHour, Active!Go
<1>3. [handler EXCEPT ![h].at = "counted"] = [handler EXCEPT ![h] = x] BY <1>1, Zenon DEF HandlerRecs
<1>4. x \in HandlerRecs /\ x.at = "counted" /\ x.key = handler[h].key
  <2>1. "counted" \in ActStages BY DEF ActStages, ActNotes
  <2> QED BY <1>1, <2>1, Zenon DEF HandlerRecs
<1>5. handler' = [handler EXCEPT ![h] = x] BY <1>2, <1>3
<1> HIDE DEF x
<1>6. GoesOn(h, x) BY <1>2, <1>4, <1>5 DEF GoesOn
<1> QED BY <1>2, <1>4, <1>6, StillCounting

(* The time since the period began is taken. *)
LEMMA ActiveTimes ==
  ASSUME ActBounds, ActInv, NEW h \in Handlers, Active!NoteTime(h)
  PROVE  ActInv'
<1> DEFINE x == [handler[h] EXCEPT !.at = "timed", !.ms = tick - began]
<1>1. handler \in [Handlers -> HandlerRecs] /\ tick - began \in Nat BY DEF ActInv, ActTypes
<1>2. /\ handler[h].at = "counted"
      /\ handler' = [handler EXCEPT ![h].at = "timed", ![h].ms = tick - began]
      /\ UNCHANGED <<tick, records, totals, byHour, untracked, began, requests, resetting, crossed>>
  BY DEF Active!NoteTime
<1>3. [handler EXCEPT ![h].at = "timed", ![h].ms = tick - began] = [handler EXCEPT ![h] = x]
  BY <1>1, Zenon DEF HandlerRecs
<1>4. x \in HandlerRecs /\ x.at = "timed" /\ x.key = handler[h].key
  <2>1. PICK t \in Nat : t = tick - began BY <1>1
  <2>2. "timed" \in ActStages BY DEF ActStages, ActNotes
  <2> QED BY <1>1, <2>1, <2>2, Zenon DEF HandlerRecs
<1>5. handler' = [handler EXCEPT ![h] = x] BY <1>2, <1>3
<1> HIDE DEF x
<1>6. GoesOn(h, x) BY <1>2, <1>4, <1>5 DEF GoesOn
<1> QED BY <1>2, <1>4, <1>6, StillCounting

-----------------------------------------------------------------------------
LEMMA LargerOf ==
  ASSUME NEW x \in Nat, NEW y \in Nat
  PROVE  Active!Max({x, y}) \in {x, y} /\ Active!Max({x, y}) >= x /\ Active!Max({x, y}) >= y
<1>1. \E m \in {x, y} : \A z \in {x, y} : m >= z
  <2>1. CASE x >= y BY <2>1
  <2>2. CASE y >= x BY <2>2
  <2> QED BY <2>1, <2>2
<1>2. Active!Max({x, y}) \in {x, y} /\ \A z \in {x, y} : Active!Max({x, y}) >= z
  BY <1>1 DEF Active!Max
<1> QED BY <1>2

(* One request more in a record. *)
GrownBy(n, r, d) ==
  RecordGood(n) /\ n.n = r.n + 1 /\ n.zero = r.zero /\ n.searches = r.searches + d

LEMMA AddedGood ==
  ASSUME ActBounds, NEW r, RecordGood(r), NEW s \in BOOLEAN, NEW ms \in Nat,
         NEW d, d = IF s THEN 1 ELSE 0
  PROVE  GrownBy(Active!Added(r, s, ms), r, d)
<1>1. r \in ActRecords /\ r.inMinute <= r.n BY DEF RecordGood
<1>2. PICK m \in Nat : m = ms \div Minute BY DEF ActBounds
<1>3. PICK i \in Nat : i = (IF m = r.minute THEN r.inMinute + 1 ELSE 1) /\ i >= 1 /\ i <= r.n + 1
  BY <1>1 DEF ActRecords
<1>4. PICK g \in Nat : g = IF r.n > 0 THEN 1 ELSE 0 OBVIOUS
<1>5. PICK k \in Nat : k = Active!Max({r.peak, i}) /\ k \in {r.peak, i} /\ k >= i
  BY <1>1, LargerOf DEF ActRecords
<1>6. d \in Nat OBVIOUS
<1>7. Active!Added(r, s, ms) =
        [r EXCEPT !.n = @ + 1, !.searches = @ + d, !.gaps = @ + g, !.minute = m, !.inMinute = i, !.peak = k]
  BY <1>2, <1>3, <1>4, <1>5 DEF Active!Added
<1>8. PICK n : n = Active!Added(r, s, ms) OBVIOUS
<1>9. /\ n.n = r.n + 1 /\ n.searches = r.searches + d /\ n.gaps = r.gaps + g /\ n.minute = m /\ n.inMinute = i
      /\ n.peak = k /\ n.zero = r.zero /\ n \in ActRecords
  <2>1. PICK a \in Nat : a = r.n + 1 BY <1>1 DEF ActRecords
  <2>2. PICK b \in Nat : b = r.searches + d BY <1>1, <1>6 DEF ActRecords
  <2>3. PICK c \in Nat : c = r.gaps + g BY <1>1, <1>4 DEF ActRecords
  <2>4. n = [r EXCEPT !.n = a, !.searches = b, !.gaps = c, !.minute = m, !.inMinute = i, !.peak = k]
    BY <1>7, <1>8, <2>1, <2>2, <2>3
  <2>5. n = [n |-> a, searches |-> b, zero |-> r.zero, gaps |-> c, minute |-> m, inMinute |-> i, peak |-> k]
    BY <1>1, <2>4 DEF ActRecords
  <2> QED BY <1>1, <1>2, <1>3, <1>5, <2>1, <2>2, <2>3, <2>5 DEF ActRecords
<1>10. r.n \in Nat /\ r.gaps \in Nat /\ r.peak \in Nat BY <1>1 DEF ActRecords
<1>11. IF n.n = 0 THEN n.gaps = 0 /\ n.peak = 0 ELSE n.gaps = n.n - 1 /\ n.peak \in 1 .. n.n
  <2>1. IF r.n = 0 THEN r.gaps = 0 /\ r.peak = 0 ELSE r.gaps = r.n - 1 /\ r.peak \in 1 .. r.n BY DEF RecordGood
  <2> QED BY <1>3, <1>4, <1>5, <1>9, <1>10, <2>1
<1>12. n.inMinute <= n.n BY <1>3, <1>9
<1> QED BY <1>8, <1>9, <1>11, <1>12 DEF GrownBy, RecordGood

-----------------------------------------------------------------------------
(* What a handler turns to when it is through with the counting. *)
DoneNoting(h) == IF handler[h].search THEN [handler[h] EXCEPT !.at = "results"] ELSE Active!Idle

LEMMA NotingDone ==
  ASSUME ActBounds, ActInv, NEW h \in Handlers
  PROVE  /\ DoneNoting(h) \in HandlerRecs /\ DoneNoting(h).at \in {"idle", "results"}
         /\ DoneNoting(h).at = "results" <=> handler[h].search
         /\ DoneNoting(h).at # "idle" => DoneNoting(h).key = handler[h].key
<1>1. Active!Idle \in HandlerRecs /\ Active!Idle.at = "idle" BY ActIdle
<1>2. handler[h] \in HandlerRecs BY DEF ActInv, ActTypes
<1>3. CASE handler[h].search
  <2>1. DoneNoting(h) = [handler[h] EXCEPT !.at = "results"] BY <1>3 DEF DoneNoting
  <2>2. PICK r : r = handler[h] OBVIOUS
  <2>3. PICK y : y = [r EXCEPT !.at = "results"] OBVIOUS
  <2>4. "results" \in ActStages BY DEF ActStages
  <2>5. y \in HandlerRecs /\ y.at = "results" /\ y.key = r.key
    BY <1>2, <2>2, <2>3, <2>4, Zenon DEF HandlerRecs
  <2> QED BY <1>3, <2>1, <2>2, <2>3, <2>5
<1>4. CASE ~ handler[h].search
  <2>1. DoneNoting(h) = Active!Idle BY <1>4 DEF DoneNoting
  <2> QED BY <1>1, <1>4, <2>1
<1> QED BY <1>3, <1>4

(* The sets a handler that is through with the counting is in. *)
LEMMA NotedMoves ==
  ASSUME ActBounds, ActInv, NEW h \in Handlers, GoesOn(h, DoneNoting(h)), handler[h].at \in {"timed", "insert"},
         NEW d, d = IF handler[h].search THEN 1 ELSE 0
  PROVE  /\ Cardinality(ActNoters(handler)) = Cardinality(ActNoters(handler')) + 1
         /\ Cardinality(ActNoters(handler')) \in Nat
         /\ handler[h].at = "insert" => Cardinality(ActInserters(handler)) = Cardinality(ActInserters(handler')) + 1
         /\ handler[h].at = "timed" => Cardinality(ActInserters(handler')) = Cardinality(ActInserters(handler))
         /\ Cardinality(ActInserters(handler')) \in Nat
         /\ \A b \in Askers : Cardinality(ActAnswerers(handler', b))
                               = Cardinality(ActAnswerers(handler, b)) + (IF b = handler[h].key THEN d ELSE 0)
<1> DEFINE x == DoneNoting(h)
<1>1. x \in HandlerRecs /\ x.at \in {"idle", "results"} /\ (x.at = "results" <=> handler[h].search)
      /\ (x.at # "idle" => x.key = handler[h].key)
  BY NotingDone
<1> HIDE DEF x
<1>2. /\ handler'[h] = x
      /\ \A b \in Askers :
              /\ CountMoved(ActNoters(handler'), ActNoters(handler), h)
              /\ CountMoved(ActInserters(handler'), ActInserters(handler), h)
              /\ CountMoved(ActAnswerers(handler', b), ActAnswerers(handler, b), h)
  BY GoneOn DEF x
<1>3. /\ h \in ActNoters(handler) /\ h \notin ActNoters(handler') /\ h \notin ActInserters(handler')
      /\ (h \in ActInserters(handler) <=> handler[h].at = "insert")
  BY <1>1, <1>2 DEF ActNoters, ActNotes, ActInserters
<1>4. Askers # {} BY DEF ActBounds
<1>5. Cardinality(ActNoters(handler)) = Cardinality(ActNoters(handler')) + 1 /\ Cardinality(ActNoters(handler')) \in Nat
  BY <1>2, <1>3, <1>4 DEF CountMoved
<1>6. /\ handler[h].at = "insert" => Cardinality(ActInserters(handler)) = Cardinality(ActInserters(handler')) + 1
      /\ handler[h].at = "timed" => Cardinality(ActInserters(handler')) = Cardinality(ActInserters(handler))
      /\ Cardinality(ActInserters(handler')) \in Nat
  BY <1>2, <1>3, <1>4 DEF CountMoved
<1>7. ASSUME NEW b \in Askers
      PROVE  Cardinality(ActAnswerers(handler', b))
               = Cardinality(ActAnswerers(handler, b)) + (IF b = handler[h].key THEN d ELSE 0)
  <2>1. CountMoved(ActAnswerers(handler', b), ActAnswerers(handler, b), h) BY <1>2
  <2>2. h \notin ActAnswerers(handler, b) BY DEF ActAnswerers
  <2>3. CASE b = handler[h].key /\ handler[h].search
    <3>1. h \in ActAnswerers(handler', b) BY <1>1, <1>2, <2>3 DEF ActAnswerers
    <3>2. d = 1 BY <2>3
    <3> QED BY <2>1, <2>2, <2>3, <3>1, <3>2 DEF CountMoved
  <2>4. CASE ~ (b = handler[h].key /\ handler[h].search)
    <3>1. h \notin ActAnswerers(handler', b) BY <1>1, <1>2, <2>4 DEF ActAnswerers
    <3>2. PICK e : e = (IF b = handler[h].key THEN d ELSE 0) OBVIOUS
    <3>3. e = 0 BY <2>4, <3>2
    <3> QED BY <2>1, <2>2, <3>1, <3>2, <3>3 DEF CountMoved
  <2> QED BY <2>3, <2>4
<1> QED BY <1>5, <1>6, <1>7

-----------------------------------------------------------------------------
(* A handler notes its request in the record of the source. *)
LEMMA ActiveRecords ==
  ASSUME ActBounds, ActInv, NEW h \in Handlers, Active!Record(h), handler[h].at \in {"timed", "insert"},
         handler[h].at = "timed" => handler[h].key \in TrackedIn(records)
  PROVE  ActInv'
<1>1. PICK a : a = handler[h].key OBVIOUS
<1>2. PICK new : new = Active!Added(records[a], handler[h].search, handler[h].ms) OBVIOUS
<1>3. /\ records' = [records EXCEPT ![a] = new]
      /\ handler' = [handler EXCEPT ![h] = DoneNoting(h)]
      /\ UNCHANGED <<tick, totals, byHour, untracked, began, requests, resetting, crossed>>
  BY <1>1, <1>2 DEF Active!Record, DoneNoting
<1>4. /\ handler[h] \in HandlerRecs /\ records \in [Askers -> ActRecords] /\ a \in Askers /\ RecordGood(records[a])
      /\ \A b \in Askers : RecordGood(records[b])
  BY <1>1 DEF ActInv, ActTypes, HandlerRecs
<1>5. PICK d : d = IF handler[h].search THEN 1 ELSE 0 OBVIOUS
<1>6. d \in Nat BY <1>5
<1>7. GrownBy(new, records[a], d)
  <2>1. handler[h].search \in BOOLEAN /\ handler[h].ms \in Nat BY <1>4 DEF HandlerRecs
  <2> QED BY <1>2, <1>4, <1>5, <2>1, AddedGood
<1>8. GoesOn(h, DoneNoting(h)) BY <1>3, NotingDone DEF GoesOn
<1>9. /\ Cardinality(ActNoters(handler)) = Cardinality(ActNoters(handler')) + 1
      /\ Cardinality(ActNoters(handler')) \in Nat
      /\ handler[h].at = "insert" => Cardinality(ActInserters(handler)) = Cardinality(ActInserters(handler')) + 1
      /\ handler[h].at = "timed" => Cardinality(ActInserters(handler')) = Cardinality(ActInserters(handler))
      /\ Cardinality(ActInserters(handler')) \in Nat
      /\ \A b \in Askers : Cardinality(ActAnswerers(handler', b))
                            = Cardinality(ActAnswerers(handler, b)) + (IF b = a THEN d ELSE 0)
  BY <1>1, <1>5, <1>8, NotedMoves
<1>10. /\ records' \in [Askers -> ActRecords] /\ records'[a] = new
       /\ \A b \in Askers : b # a => records'[b] = records[b]
  BY <1>3, <1>4, <1>7 DEF GrownBy, RecordGood
<1>11. \A b \in Askers : RecordGood(records'[b]) BY <1>4, <1>7, <1>10 DEF GrownBy
<1>12. RecordedIn(records') \in Nat /\ RecordedIn(records) \in Nat /\ RecordedIn(records') = RecordedIn(records) + 1
  <2>1. /\ RecordedIn(records') \in Nat /\ RecordedIn(records) \in Nat
        /\ RecordedIn(records') - RecordedIn(records) = records'[a].n - records[a].n
    BY <1>4, <1>10, RecordedGrows DEF ActBounds
  <2>2. records'[a].n = records[a].n + 1 /\ records[a].n \in Nat BY <1>4, <1>7, <1>10 DEF GrownBy, ActRecords
  <2> QED BY <2>1, <2>2
<1>13. untracked' = untracked /\ untracked \in Nat /\ untracked' \in Nat BY <1>3 DEF ActInv, ActTypes
<1>14. RecordedIn(records') + untracked' + Cardinality(ActNoters(handler'))
         = RecordedIn(records) + untracked + Cardinality(ActNoters(handler))
  BY <1>9, <1>12, <1>13
<1>15. ActRoom(Cardinality(TrackedIn(records')), Cardinality(ActInserters(handler')))
  <2>1. CountMoved(TrackedIn(records'), TrackedIn(records), a)
    <3>1. TrackedIn(records') \ {a} = TrackedIn(records) \ {a} BY <1>10 DEF TrackedIn
    <3>2. IsFiniteSet(TrackedIn(records)) BY FS_Subset DEF TrackedIn, ActBounds
    <3> QED BY <3>1, <3>2, OneMoved
  <2>2. a \in TrackedIn(records')
    BY <1>4, <1>7, <1>10 DEF GrownBy, TrackedIn, ActRecords
  <2>3. PICK t \in Nat, u \in Nat : t = Cardinality(TrackedIn(records)) /\ u = Cardinality(TrackedIn(records'))
    BY <2>1 DEF CountMoved
  <2>4. PICK i \in Nat : i = Cardinality(ActInserters(handler')) BY <1>9
  <2>5. PICK j \in Nat : j = Cardinality(ActInserters(handler)) BY HandlerSizes DEF ActBounds
  <2>6. ActRoom(t, j) BY <2>3, <2>5 DEF ActInv
  <2>7. u + i <= t + j
    <3>1. CASE handler[h].at = "insert"
      <4>1. j = i + 1 BY <1>9, <2>4, <2>5, <3>1
      <4>2. u <= t + 1 BY <2>1, <2>2, <2>3 DEF CountMoved
      <4> QED BY <4>1, <4>2
    <3>2. CASE handler[h].at = "timed"
      <4>1. i = j BY <1>9, <2>4, <2>5, <3>2
      <4>2. a \in TrackedIn(records) BY <1>1, <3>2
      <4>3. u = t BY <2>1, <2>2, <2>3, <4>2 DEF CountMoved
      <4> QED BY <4>1, <4>3
    <3> QED BY <3>1, <3>2
  <2>8. Cardinality(Handlers) \in Nat /\ MaxSources \in Nat BY FS_CardinalityType DEF ActBounds
  <2>9. ActRoom(u, i) BY <2>6, <2>7, <2>8 DEF ActRoom
  <2> QED BY <2>3, <2>4, <2>9
<1>16. ASSUME NEW b \in Askers
       PROVE  ActZero(resetting, records'[b].zero, Cardinality(ActAnswerers(handler', b)),
               Cardinality(ActAskings(handler', b)), records'[b].searches, crossed, untracked')
  <2>1. PICK e \in Nat : e = IF b = a THEN d ELSE 0 BY <1>6
  <2>2. records'[b].zero = records[b].zero /\ records'[b].searches = records[b].searches + e
    <3>1. CASE b = a BY <1>7, <1>10, <2>1, <3>1 DEF GrownBy
    <3>2. CASE b # a
      <4>1. records'[b] = records[b] /\ e = 0 BY <1>10, <2>1, <3>2
      <4>2. records[b].searches \in Nat BY <1>4 DEF ActRecords
      <4> QED BY <4>1, <4>2
    <3> QED BY <3>1, <3>2
  <2>3. PICK z \in Nat, s \in Nat : z = records[b].zero /\ s = records[b].searches BY <1>4 DEF ActRecords
  <2>4. PICK q \in Nat, m \in Nat : q = Cardinality(ActAnswerers(handler, b)) /\ m = Cardinality(ActAskings(handler, b))
    BY HandlerSizes DEF ActBounds
  <2>5. PICK k \in Nat, n \in Nat : /\ k = Cardinality(ActAnswerers(handler', b))
                                    /\ n = Cardinality(ActAskings(handler', b)) /\ k = q + e /\ n <= m
    <3>1. PICK k \in Nat, n \in Nat : k = Cardinality(ActAnswerers(handler', b)) /\ n = Cardinality(ActAskings(handler', b))
      BY HandlerSizes DEF ActBounds
    <3>2. Cardinality(ActAskings(handler', b)) <= Cardinality(ActAskings(handler, b)) BY <1>8, GoneOn
    <3>3. k = q + e BY <1>9, <2>1, <2>4, <3>1
    <3> QED BY <2>4, <3>1, <3>2, <3>3
  <2>6. crossed \in Nat BY DEF ActInv, ActTypes
  <2>7. ActZero(resetting, z, q, m, s, crossed, untracked) BY <2>3, <2>4 DEF ActInv
  <2>8. ActZero(resetting, z, k, n, s + e, crossed, untracked)
    BY <1>13, <2>5, <2>6, <2>7 DEF ActZero
  <2> QED BY <1>13, <2>2, <2>3, <2>5, <2>8
<1>17. untracked' >= untracked BY <1>13
<1> QED BY <1>8, <1>10, <1>11, <1>13, <1>14, <1>15, <1>16, <1>17, GoneOnGood

(* A new source that finds no room is counted apart; one that finds room    *)
(* is about to be entered.                                                 *)
LEMMA ActiveRoom ==
  ASSUME ActBounds, ActInv, NEW h \in Handlers, Active!NoteRoom(h)
  PROVE  ActInv'
<1>1. PICK tracked : tracked = TrackedIn(records) OBVIOUS
<1>2. /\ handler[h].at = "timed"
      /\ UNCHANGED <<tick, records, totals, byHour, began, requests, resetting, crossed>>
  BY DEF Active!NoteRoom
<1>3. IF Cardinality(TrackedIn(records)) >= MaxSources
      THEN untracked' = untracked + 1 /\ handler' = [handler EXCEPT ![h] = DoneNoting(h)]
      ELSE /\ handler' = [handler EXCEPT ![h].at = "insert"] /\ untracked' = untracked
  <2>1. Active!Cardinality(Active!Tracked) = Cardinality(TrackedIn(records))
    BY ActiveCardinality DEF Active!Tracked, TrackedIn
  <2>2. IF Active!Cardinality(Active!Tracked) >= MaxSources
        THEN untracked' = untracked + 1 /\ handler' = [handler EXCEPT ![h] = DoneNoting(h)]
        ELSE /\ handler' = [handler EXCEPT ![h].at = "insert"] /\ untracked' = untracked
    BY DEF Active!NoteRoom, Active!Go, DoneNoting
  <2> QED BY <2>1, <2>2
<1>4. /\ handler \in [Handlers -> HandlerRecs] /\ handler[h] \in HandlerRecs /\ untracked \in Nat
      /\ records' \in [Askers -> ActRecords] /\ \A b \in Askers : RecordGood(records'[b])
  BY <1>2 DEF ActInv, ActTypes
<1>5. PICK R \in Nat : R = RecordedIn(records) /\ R = RecordedIn(records')
  BY <1>2, <1>4, RecordedIs DEF ActBounds
<1>6. \A b \in Askers : records[b].zero \in Nat /\ records[b].searches \in Nat BY <1>2, <1>4 DEF ActRecords
<1>7. PICK t \in Nat : t = Cardinality(TrackedIn(records)) /\ t = Cardinality(TrackedIn(records'))
  <2>1. IsFiniteSet(TrackedIn(records)) BY FS_Subset DEF TrackedIn, ActBounds
  <2> QED BY <1>2, <2>1, FS_CardinalityType
<1>8. Cardinality(Handlers) \in Nat /\ MaxSources \in Nat BY FS_CardinalityType DEF ActBounds
<1>9. CASE Cardinality(TrackedIn(records)) >= MaxSources
  <2>1. GoesOn(h, DoneNoting(h)) BY <1>2, <1>3, <1>9, NotingDone DEF GoesOn
  <2>2. PICK d : d = IF handler[h].search THEN 1 ELSE 0 OBVIOUS
  <2>3. d \in {0, 1} BY <2>2
  <2>4. /\ Cardinality(ActNoters(handler)) = Cardinality(ActNoters(handler')) + 1
        /\ Cardinality(ActNoters(handler')) \in Nat
        /\ Cardinality(ActInserters(handler')) = Cardinality(ActInserters(handler))
        /\ \A b \in Askers : Cardinality(ActAnswerers(handler', b))
                              = Cardinality(ActAnswerers(handler, b)) + (IF b = handler[h].key THEN d ELSE 0)
    BY <1>2, <2>1, <2>2, NotedMoves
  <2>5. PICK u \in Nat : u = untracked' /\ u = untracked + 1 BY <1>3, <1>4, <1>9
  <2>6. R + u + Cardinality(ActNoters(handler')) = R + untracked + Cardinality(ActNoters(handler))
    BY <1>4, <2>4, <2>5
  <2>7. ActRoom(Cardinality(TrackedIn(records')), Cardinality(ActInserters(handler'))) BY <1>2, <2>4 DEF ActInv
  <2>8. ASSUME NEW b \in Askers
        PROVE  ActZero(resetting, records'[b].zero, Cardinality(ActAnswerers(handler', b)),
               Cardinality(ActAskings(handler', b)), records'[b].searches, crossed, untracked')
    <3>1. PICK q \in Nat, m \in Nat : q = Cardinality(ActAnswerers(handler, b)) /\ m = Cardinality(ActAskings(handler, b))
      BY HandlerSizes DEF ActBounds
    <3>2. PICK k \in Nat, n \in Nat : k = Cardinality(ActAnswerers(handler', b)) /\ n = Cardinality(ActAskings(handler', b))
      BY HandlerSizes DEF ActBounds
    <3>3. PICK e : e = IF b = handler[h].key THEN d ELSE 0 OBVIOUS
    <3>4. e \in {0, 1} /\ k = q + e BY <2>3, <2>4, <3>1, <3>2, <3>3
    <3>5. n <= m
      <4>1. Cardinality(ActAskings(handler', b)) <= Cardinality(ActAskings(handler, b)) BY <2>1, GoneOn
      <4> QED BY <3>1, <3>2, <4>1
    <3>6. PICK z \in Nat, s \in Nat : z = records[b].zero /\ s = records[b].searches BY <1>6
    <3>7. crossed \in Nat BY DEF ActInv, ActTypes
    <3>8. ActZero(resetting, z, q, m, s, crossed, untracked) BY <3>1, <3>6 DEF ActInv
    <3>9. ActZero(resetting, z, k, n, s, crossed, u)
      BY <1>4, <2>5, <3>4, <3>5, <3>7, <3>8 DEF ActZero
    <3> QED BY <1>2, <2>5, <3>2, <3>6, <3>9
  <2>9. untracked' \in Nat /\ untracked' >= untracked BY <1>4, <2>5
  <2>10. RecordedIn(records') + untracked' + Cardinality(ActNoters(handler'))
           = RecordedIn(records) + untracked + Cardinality(ActNoters(handler))
    BY <1>5, <2>5, <2>6
  <2> QED BY <1>4, <2>1, <2>7, <2>8, <2>9, <2>10, GoneOnGood
<1>10. CASE ~ Cardinality(TrackedIn(records)) >= MaxSources
  <2> DEFINE x == [handler[h] EXCEPT !.at = "insert"]
  <2>1. handler' = [handler EXCEPT ![h] = x] /\ untracked' = untracked BY <1>3, <1>4, <1>10
  <2>2. x \in HandlerRecs /\ x.at = "insert" /\ x.key = handler[h].key
    <3>1. "insert" \in ActStages BY DEF ActStages, ActNotes
    <3> QED BY <1>4, <3>1, Zenon DEF HandlerRecs
  <2> HIDE DEF x
  <2>3. GoesOn(h, x) BY <1>2, <2>1, <2>2 DEF GoesOn
  <2>4. /\ handler'[h] = x
        /\ \A b \in Askers :
              /\ CountMoved(ActNoters(handler'), ActNoters(handler), h)
              /\ CountMoved(ActInserters(handler'), ActInserters(handler), h)
              /\ CountMoved(ActAnswerers(handler', b), ActAnswerers(handler, b), h)
              /\ CountMoved(ActAskings(handler', b), ActAskings(handler, b), h)
    BY <2>3, GoneOn
  <2>5. handler'[h].at = "insert" /\ handler'[h].key = handler[h].key BY <2>2, <2>4
  <2>6. Askers # {} BY DEF ActBounds
  <2>7. Cardinality(ActNoters(handler')) = Cardinality(ActNoters(handler))
    <3>1. h \in ActNoters(handler) /\ h \in ActNoters(handler') BY <1>2, <2>5 DEF ActNoters, ActNotes
    <3> QED BY <2>4, <2>6, <3>1 DEF CountMoved
  <2>8. PICK i \in Nat, j \in Nat : /\ j = Cardinality(ActInserters(handler)) /\ i = Cardinality(ActInserters(handler'))
                                    /\ i = j + 1
    <3>1. h \in ActInserters(handler') /\ h \notin ActInserters(handler) BY <1>2, <2>5 DEF ActInserters
    <3> QED BY <2>4, <2>6, <3>1 DEF CountMoved
  <2>9. ASSUME NEW b \in Askers
        PROVE  /\ Cardinality(ActAnswerers(handler', b)) = Cardinality(ActAnswerers(handler, b))
               /\ Cardinality(ActAskings(handler', b)) = Cardinality(ActAskings(handler, b))
    <3>1. h \notin ActAnswerers(handler', b) /\ h \notin ActAnswerers(handler, b) BY <1>2, <2>5 DEF ActAnswerers
    <3>2. h \in ActAskings(handler', b) <=> h \in ActAskings(handler, b) BY <1>2, <2>5 DEF ActAskings
    <3> QED BY <2>4, <3>1, <3>2 DEF CountMoved
  <2>10. ActRoom(Cardinality(TrackedIn(records')), Cardinality(ActInserters(handler')))
    <3>1. i <= Cardinality(Handlers) BY <2>8, HandlerSizes DEF ActBounds
    <3>2. t < MaxSources
      <4>1. ~ t >= MaxSources BY <1>7, <1>10
      <4> QED BY <1>8, <4>1
    <3>3. ActRoom(t, i) BY <1>8, <2>8, <3>1, <3>2 DEF ActRoom
    <3> QED BY <1>7, <2>8, <3>3
  <2>11. RecordedIn(records') + untracked' + Cardinality(ActNoters(handler'))
           = RecordedIn(records) + untracked + Cardinality(ActNoters(handler))
    BY <1>2, <2>1, <2>7
  <2>12. \A b \in Askers : ActZero(resetting, records'[b].zero, Cardinality(ActAnswerers(handler', b)),
               Cardinality(ActAskings(handler', b)), records'[b].searches, crossed, untracked')
    BY <1>2, <2>1, <2>9 DEF ActInv
  <2>13. untracked' \in Nat /\ untracked' >= untracked BY <1>4, <2>1
  <2> QED BY <1>4, <2>3, <2>10, <2>11, <2>12, <2>13, GoneOnGood
<1> QED BY <1>9, <1>10

-----------------------------------------------------------------------------
(* The answer to a source is noted. *)
LEMMA ActiveAnswers ==
  ASSUME ActBounds, ActInv, NEW h \in Handlers, Active!NoteResults(h)
  PROVE  ActInv'
<1>1. PICK a : a = handler[h].key OBVIOUS
<1>2. PICK d \in {0, 1} : records' = [records EXCEPT ![a].zero = @ + d]
  <2>1. PICK none \in BOOLEAN :
          records' = [records EXCEPT ![a].zero = @ + IF none /\ a \in Active!Tracked THEN 1 ELSE 0]
    BY <1>1 DEF Active!NoteResults
  <2>2. PICK d : d = IF none /\ a \in Active!Tracked THEN 1 ELSE 0 OBVIOUS
  <2>3. d \in {0, 1} BY <2>2
  <2> QED BY <2>1, <2>2, <2>3
<1>3. /\ handler[h].at = "results" /\ handler' = [handler EXCEPT ![h] = Active!Idle]
      /\ UNCHANGED <<tick, totals, byHour, untracked, began, requests, resetting, crossed>>
  BY DEF Active!NoteResults
<1>4. /\ handler[h] \in HandlerRecs /\ records \in [Askers -> ActRecords] /\ a \in Askers
      /\ untracked \in Nat /\ \A b \in Askers : RecordGood(records[b])
  BY <1>1 DEF ActInv, ActTypes, HandlerRecs
<1>5. Active!Idle \in HandlerRecs /\ Active!Idle.at = "idle" BY ActIdle
<1>6. GoesOn(h, Active!Idle) BY <1>3, <1>5 DEF GoesOn
<1>7. /\ handler'[h] = Active!Idle
      /\ \A b \in Askers :
              /\ CountMoved(ActNoters(handler'), ActNoters(handler), h)
              /\ CountMoved(ActInserters(handler'), ActInserters(handler), h)
              /\ CountMoved(ActAnswerers(handler', b), ActAnswerers(handler, b), h)
              /\ CountMoved(ActAskings(handler', b), ActAskings(handler, b), h)
  BY <1>6, GoneOn
<1>8. Cardinality(ActNoters(handler')) = Cardinality(ActNoters(handler))
      /\ Cardinality(ActInserters(handler')) = Cardinality(ActInserters(handler))
  <2>1. /\ h \notin ActNoters(handler) /\ h \notin ActNoters(handler')
        /\ h \notin ActInserters(handler) /\ h \notin ActInserters(handler')
    BY <1>3, <1>5, <1>7 DEF ActNoters, ActNotes, ActInserters
  <2> QED BY <1>4, <1>7, <2>1 DEF CountMoved
<1>9. PICK r \in ActRecords : r = records[a] /\ RecordGood(r) BY <1>4
<1>10. PICK new : new = [r EXCEPT !.zero = @ + d] OBVIOUS
<1>11. /\ new \in ActRecords /\ new.n = r.n /\ new.searches = r.searches /\ new.zero = r.zero + d
       /\ RecordGood(new)
  <2>1. PICK z \in Nat : z = r.zero + d BY <1>9, <1>2 DEF ActRecords
  <2>2. new = [r EXCEPT !.zero = z] BY <1>10, <2>1
  <2>3. /\ new \in ActRecords /\ new.n = r.n /\ new.searches = r.searches /\ new.zero = z
        /\ new.gaps = r.gaps /\ new.peak = r.peak /\ new.inMinute = r.inMinute
    BY <1>9, <2>1, <2>2 DEF ActRecords
  <2> QED BY <1>9, <2>1, <2>3 DEF RecordGood
<1>12. /\ records' \in [Askers -> ActRecords] /\ records'[a] = new
       /\ \A b \in Askers : b # a => records'[b] = records[b]
  <2>1. records' = [records EXCEPT ![a] = new] BY <1>2, <1>4, <1>9, <1>10
  <2> QED BY <1>4, <1>11, <2>1
<1>13. \A b \in Askers : RecordGood(records'[b]) /\ records'[b].n = records[b].n
  BY <1>4, <1>9, <1>11, <1>12
<1>14. RecordedIn(records') = RecordedIn(records) /\ RecordedIn(records) \in Nat
  <2>1. /\ RecordedIn(records') \in Nat /\ RecordedIn(records) \in Nat
        /\ RecordedIn(records') - RecordedIn(records) = records'[a].n - records[a].n
    BY <1>4, <1>12, RecordedGrows DEF ActBounds
  <2>2. records'[a].n = records[a].n /\ records[a].n \in Nat BY <1>4, <1>13 DEF ActRecords
  <2> QED BY <2>1, <2>2
<1>15. TrackedIn(records') = TrackedIn(records) BY <1>13 DEF TrackedIn
<1>16. untracked' \in Nat /\ untracked' >= untracked /\ untracked' = untracked BY <1>3, <1>4
<1>17. ActRoom(Cardinality(TrackedIn(records')), Cardinality(ActInserters(handler')))
  BY <1>8, <1>15 DEF ActInv
<1>18. RecordedIn(records') + untracked' + Cardinality(ActNoters(handler'))
         = RecordedIn(records) + untracked + Cardinality(ActNoters(handler))
  BY <1>8, <1>14, <1>16
<1>19. ASSUME NEW b \in Askers
       PROVE  ActZero(resetting, records'[b].zero, Cardinality(ActAnswerers(handler', b)),
               Cardinality(ActAskings(handler', b)), records'[b].searches, crossed, untracked')
  <2>1. PICK e \in {0, 1} : e = IF b = a THEN 1 ELSE 0 OBVIOUS
  <2>2. PICK z \in Nat, s \in Nat : z = records[b].zero /\ s = records[b].searches BY <1>4 DEF ActRecords
  <2>3. records'[b].searches = s /\ \E y \in Nat : y = records'[b].zero /\ y <= z + e
    <3>1. CASE b = a BY <1>2, <1>9, <1>11, <1>12, <2>1, <2>2, <3>1
    <3>2. CASE b # a BY <1>12, <2>1, <2>2, <3>2
    <3> QED BY <3>1, <3>2
  <2>4. PICK y \in Nat : y = records'[b].zero /\ y <= z + e BY <2>3
  <2>5. /\ h \notin ActAnswerers(handler', b) /\ h \notin ActAskings(handler', b)
        /\ (h \in ActAnswerers(handler, b) <=> b = a) /\ (h \in ActAskings(handler, b) <=> b = a)
    BY <1>1, <1>3, <1>5, <1>7 DEF ActAnswerers, ActAskings
  <2>6. PICK q \in Nat, k \in Nat : /\ q = Cardinality(ActAnswerers(handler, b))
                                    /\ k = Cardinality(ActAnswerers(handler', b)) /\ q = k + e
    <3>1. CountMoved(ActAnswerers(handler', b), ActAnswerers(handler, b), h) BY <1>7
    <3> QED BY <2>1, <2>5, <3>1 DEF CountMoved
  <2>7. PICK m \in Nat, n \in Nat : /\ m = Cardinality(ActAskings(handler, b))
                                    /\ n = Cardinality(ActAskings(handler', b)) /\ m = n + e
    <3>1. CountMoved(ActAskings(handler', b), ActAskings(handler, b), h) BY <1>7
    <3> QED BY <2>1, <2>5, <3>1 DEF CountMoved
  <2>8. crossed \in Nat BY DEF ActInv, ActTypes
  <2>9. ActZero(resetting, z, q, m, s, crossed, untracked) BY <2>2, <2>6, <2>7 DEF ActInv
  <2>10. ActZero(resetting, y, k, n, s, crossed, untracked)
    BY <1>4, <2>1, <2>4, <2>6, <2>7, <2>8, <2>9 DEF ActZero
  <2> QED BY <1>16, <2>3, <2>4, <2>6, <2>7, <2>10
<1> QED BY <1>6, <1>12, <1>13, <1>16, <1>17, <1>18, <1>19, GoneOnGood

-----------------------------------------------------------------------------
(* Time passes, and a reset begins. *)
LEMMA ActiveWaits ==
  ASSUME ActBounds, ActInv, Active!Tick \/ Active!ResetStart
  PROVE  ActInv'
<1>1. /\ UNCHANGED <<records, totals, byHour, untracked, handler, requests, crossed>>
      /\ \/ tick < MaxMinute /\ tick' = tick + 1 /\ UNCHANGED <<began, resetting>>
         \/ resetting = "no" /\ resetting' = "map" /\ began' = tick /\ tick' = tick
  BY DEF Active!Tick, Active!ResetStart
<1>2. ActTypes' BY <1>1 DEF ActInv, ActTypes, ActBounds
<1>3. ActSums(resetting', RecordedIn(records'), untracked', Cardinality(ActNoters(handler')), totals',
              byHour' + Cardinality(ActTotalled(handler')), crossed')
  <2>1. PICK H : H = byHour + Cardinality(ActTotalled(handler)) OBVIOUS
  <2>2. ActSums(resetting, RecordedIn(records), untracked, Cardinality(ActNoters(handler)), totals, H, crossed)
    BY <2>1 DEF ActInv
  <2>3. ActSums(resetting', RecordedIn(records), untracked, Cardinality(ActNoters(handler)), totals, H, crossed)
    BY <1>1, <2>2 DEF ActSums
  <2> QED BY <1>1, <2>1, <2>3
<1>4. \A a \in Askers :
       ActZero(resetting', records'[a].zero, Cardinality(ActAnswerers(handler', a)),
               Cardinality(ActAskings(handler', a)), records'[a].searches, crossed', untracked')
  BY <1>1 DEF ActInv, ActZero
<1> QED BY <1>1, <1>2, <1>3, <1>4 DEF ActInv

(* The records go; what crosses the reset are the handlers at work. *)
LEMMA ActiveResetMap ==
  ASSUME ActBounds, ActInv, Active!ResetMap
  PROVE  ActInv'
<1>1. /\ resetting' = "totals" /\ records' = [a \in Askers |-> Active!NoRec]
      /\ UNCHANGED <<tick, totals, byHour, untracked, handler, began, requests>>
  BY DEF Active!ResetMap
<1>2. PICK c \in Nat : c = crossed' /\ c = Cardinality(ActBusy(handler))
  <2>1. crossed' = Active!Cardinality(ActBusy(handler)) BY DEF Active!ResetMap, ActBusy
  <2> QED BY <2>1, ActiveCardinality, HandlerSizes DEF ActBounds
<1>3. /\ Active!NoRec \in ActRecords /\ RecordGood(Active!NoRec) /\ Active!NoRec.n = 0 /\ Active!NoRec.zero = 0
      /\ Active!NoRec.searches = 0
  BY DEF Active!NoRec, ActRecords, RecordGood
<1>4. /\ records' \in [Askers -> ActRecords]
      /\ \A a \in Askers : RecordGood(records'[a]) /\ records'[a].n = 0 /\ records'[a].zero = 0 /\ records'[a].searches = 0
  BY <1>1, <1>3
<1>5. ActTypes' BY <1>1, <1>2, <1>4 DEF ActInv, ActTypes
<1>6. crossed' <= requests' /\ Cardinality(ActBusy(handler')) <= requests' BY <1>1, <1>2 DEF ActInv
<1>7. RecordedIn(records') = 0 BY <1>4, RecordedNone DEF ActBounds
<1>8. PICK p \in Nat : p = Cardinality(ActNoters(handler)) /\ p <= c BY <1>2, HandlerSizes DEF ActBounds
<1>9. ActSums("totals", 0, untracked, p, totals, byHour + Cardinality(ActTotalled(handler)), c)
  BY <1>8 DEF ActSums
<1>10. ActSums(resetting', RecordedIn(records'), untracked', Cardinality(ActNoters(handler')), totals',
               byHour' + Cardinality(ActTotalled(handler')), crossed')
  BY <1>1, <1>2, <1>7, <1>8, <1>9
<1>11. ActRoom(Cardinality(TrackedIn(records')), Cardinality(ActInserters(handler')))
  <2>1. TrackedIn(records') = {} BY <1>4 DEF TrackedIn
  <2>2. Cardinality(TrackedIn(records')) = 0 BY <2>1, FS_EmptySet
  <2>3. PICK t \in Nat : t = Cardinality(TrackedIn(records))
    <3>1. IsFiniteSet(TrackedIn(records)) BY FS_Subset DEF TrackedIn, ActBounds
    <3> QED BY <3>1, FS_CardinalityType
  <2>4. PICK i \in Nat : i = Cardinality(ActInserters(handler)) BY HandlerSizes DEF ActBounds
  <2>5. ActRoom(t, i) BY <2>3, <2>4 DEF ActInv
  <2>6. Cardinality(Handlers) \in Nat /\ MaxSources \in Nat BY FS_CardinalityType DEF ActBounds
  <2>7. ActRoom(0, i) BY <2>5, <2>6 DEF ActRoom
  <2> QED BY <1>1, <2>2, <2>4, <2>7
<1>12. ASSUME NEW a \in Askers
       PROVE  ActZero(resetting', records'[a].zero, Cardinality(ActAnswerers(handler', a)),
               Cardinality(ActAskings(handler', a)), records'[a].searches, crossed', untracked')
  <2>1. PICK m \in Nat : m = Cardinality(ActAskings(handler, a)) /\ m <= c BY <1>2, HandlerSizes DEF ActBounds
  <2>2. ActZero("totals", 0, Cardinality(ActAnswerers(handler, a)), m, 0, c, untracked) BY <2>1 DEF ActZero
  <2> QED BY <1>1, <1>2, <1>4, <2>1, <2>2
<1> QED BY <1>5, <1>6, <1>10, <1>11, <1>12 DEF ActInv

(* The totals go, then the untracked, then the hours. *)
LEMMA ActiveResets ==
  ASSUME ActBounds, ActInv, Active!ResetTotals \/ Active!ResetUntracked \/ Active!ResetHours
  PROVE  ActInv'
<1>1. /\ UNCHANGED <<tick, records, handler, began, requests, crossed>>
      /\ \/ /\ resetting = "totals" /\ resetting' = "untracked" /\ totals' = 0 /\ byHour' = byHour
            /\ untracked' = untracked
         \/ /\ resetting = "untracked" /\ resetting' = "hours" /\ untracked' = 0 /\ byHour' = byHour
            /\ totals' = totals
         \/ /\ resetting = "hours" /\ resetting' = "no" /\ byHour' = 0 /\ untracked' = untracked
            /\ totals' = totals
  BY DEF Active!ResetTotals, Active!ResetUntracked, Active!ResetHours
<1>2. ActTypes' BY <1>1 DEF ActInv, ActTypes
<1>3. PICK R \in Nat : R = RecordedIn(records) /\ R = RecordedIn(records')
  BY <1>1, RecordedIs DEF ActInv, ActTypes, ActBounds
<1>4. PICK p \in Nat, w \in Nat : /\ p = Cardinality(ActNoters(handler))
                                  /\ w = Cardinality(ActTotalled(handler)) /\ w <= p
  BY HandlerSizes DEF ActBounds
<1>5. untracked \in Nat /\ totals \in Nat /\ byHour \in Nat /\ crossed \in Nat BY DEF ActInv, ActTypes
<1>6. ActSums(resetting, R, untracked, p, totals, byHour + w, crossed) BY <1>3, <1>4 DEF ActInv
<1>7. ActSums(resetting', R, untracked', p, totals', byHour' + w, crossed)
  BY <1>1, <1>4, <1>5, <1>6 DEF ActSums
<1>8. ActSums(resetting', RecordedIn(records'), untracked', Cardinality(ActNoters(handler')), totals',
              byHour' + Cardinality(ActTotalled(handler')), crossed')
  BY <1>1, <1>3, <1>4, <1>7
<1>9. ASSUME NEW a \in Askers
      PROVE  ActZero(resetting', records'[a].zero, Cardinality(ActAnswerers(handler', a)),
               Cardinality(ActAskings(handler', a)), records'[a].searches, crossed', untracked')
  <2>1. PICK z \in Nat, s \in Nat : z = records[a].zero /\ s = records[a].searches
    BY DEF ActInv, ActTypes, ActRecords
  <2>2. PICK q \in Nat, m \in Nat : /\ q = Cardinality(ActAnswerers(handler, a))
                                    /\ m = Cardinality(ActAskings(handler, a)) /\ q <= m
    BY HandlerSizes DEF ActBounds
  <2>3. ActZero(resetting, z, q, m, s, crossed, untracked) BY <2>1, <2>2 DEF ActInv
  <2>4. ActZero(resetting', z, q, m, s, crossed, untracked')
    BY <1>1, <1>5, <2>2, <2>3 DEF ActZero
  <2> QED BY <1>1, <2>1, <2>2, <2>4
<1> QED BY <1>1, <1>2, <1>8, <1>9 DEF ActInv

-----------------------------------------------------------------------------
LEMMA ActiveStep ==
  ASSUME ActBounds, ActInv, [Active!Next]_(Active!vars)
  PROVE  ActInv'
<1>1. CASE UNCHANGED Active!vars
  <2>1. UNCHANGED <<tick, records, totals, byHour, untracked, handler, began, requests, resetting, crossed>>
    BY <1>1 DEF Active!vars
  <2>2. ActTypes' BY <2>1 DEF ActInv, ActTypes
  <2> QED BY <2>1, <2>2 DEF ActInv
<1>2. ASSUME NEW h \in Handlers, Active!NoteKnown(h) PROVE ActInv'
  <2>1. handler[h].at = "timed" /\ handler[h].key \in TrackedIn(records) /\ Active!Record(h)
    BY <1>2 DEF Active!NoteKnown, Active!Tracked, TrackedIn
  <2> QED BY <2>1, ActiveRecords
<1>3. ASSUME NEW h \in Handlers, Active!NoteInsert(h) PROVE ActInv'
  <2>1. handler[h].at = "insert" /\ Active!Record(h) BY <1>3 DEF Active!NoteInsert
  <2> QED BY <2>1, ActiveRecords
<1>4. CASE Active!Next
  <2>1. CASE Active!Tick \/ Active!ResetStart BY <2>1, ActiveWaits
  <2>2. CASE Active!ResetMap BY <2>2, ActiveResetMap
  <2>3. CASE Active!ResetTotals \/ Active!ResetUntracked \/ Active!ResetHours BY <2>3, ActiveResets
  <2>4. CASE \E h \in Handlers :
               \/ \E a \in Askers, s \in BOOLEAN : Active!NoteTotals(h, a, s)
               \/ Active!NoteHour(h) \/ Active!NoteTime(h) \/ Active!NoteKnown(h) \/ Active!NoteRoom(h) \/ Active!NoteInsert(h)
               \/ Active!NoteResults(h)
    BY <1>2, <1>3, <2>4, ActiveCounts, ActiveHour, ActiveTimes, ActiveRoom, ActiveAnswers
  <2> QED BY <1>4, <2>1, <2>2, <2>3, <2>4 DEF Active!Next
<1> QED BY <1>1, <1>4

(* What the property sums up is what is recorded and what is not tracked. *)
LEMMA SummedUp ==
  ASSUME ActBounds, ActInv
  PROVE  Active!FoldSet(LAMBDA a, n : n + records[a].n, untracked, Askers) = RecordedIn(records) + untracked
<1>1. PICK w : w = Requests OBVIOUS
<1>2. records \in [Askers -> ActRecords] /\ untracked \in Nat BY DEF ActInv, ActTypes
<1>3. w = [a \in Askers |-> records[a].n] /\ w \in [Askers -> Nat] BY <1>1, <1>2 DEF Requests, ActRecords
<1>4. PICK t : /\ t = Active!FoldSet(LAMBDA a, n : n + records[a].n, untracked, Askers)
               /\ IsTotal(t, w, untracked, Askers)
  BY <1>1, RequestsTotal DEF ActBounds
<1>5. PICK v : v = RecordedIn(records) /\ IsTotal(v, w, 0, Askers) BY <1>2, <1>3, RecordedIs DEF ActBounds
<1>6. PICK x \in Askers : TRUE BY DEF ActBounds
<1>7. v \in Nat /\ t \in Nat /\ t - v = (w[x] - w[x]) + (untracked - 0)
  <2>1. IsTotal(t, w, untracked, Askers) BY <1>4
  <2>2. IsTotal(v, w, 0, Askers) BY <1>5
  <2>3. w \in [Askers -> Nat] /\ untracked \in Nat /\ IsFiniteSet(Askers) BY <1>2, <1>3 DEF ActBounds
  <2> QED BY <2>1, <2>2, <2>3, TotalsApart
<1>8. w[x] \in Nat BY <1>3
<1>9. t = v + untracked BY <1>2, <1>7, <1>8
<1> QED BY <1>4, <1>5, <1>9

LEMMA ActiveImplies ==
  ASSUME ActBounds, ActInv
  PROVE  Active!ActivitySound
<1>1. PICK R \in Nat : R = RecordedIn(records) BY RecordedIs DEF ActInv, ActTypes, ActBounds
<1>2. PICK p \in Nat, w \in Nat : /\ p = Cardinality(ActNoters(handler))
                                  /\ w = Cardinality(ActTotalled(handler)) /\ w <= p
  BY HandlerSizes DEF ActBounds
<1>3. PICK i \in Nat : i = Cardinality(ActInserters(handler)) BY HandlerSizes DEF ActBounds
<1>4. untracked \in Nat /\ totals \in Nat /\ byHour \in Nat /\ crossed \in Nat BY DEF ActInv, ActTypes
<1>5. Active!TypeOK
  <2>1. tick \in began .. MaxMinute /\ crossed <= requests BY DEF ActInv, ActTypes, ActBounds
  <2>2. \A h \in Handlers : handler[h].at \in {"idle", "totalled", "counted", "timed", "insert", "results"}
    BY DEF ActInv, ActTypes, HandlerRecs, ActStages, ActNotes
  <2> QED BY <2>1, <2>2 DEF Active!TypeOK
<1>6. Active!FoldSet(LAMBDA a, n : n + records[a].n, untracked, Askers) = R + untracked BY <1>1, SummedUp
<1>7. Active!Cardinality({h \in Handlers : handler[h].at \in {"totalled", "counted", "timed", "insert"}}) = p
  BY <1>2, ActiveCardinality DEF ActNoters, ActNotes
<1>8. ActSums(resetting, R, untracked, p, totals, byHour + w, crossed) BY <1>1, <1>2 DEF ActInv
<1>9. resetting = "no" =>
        /\ byHour - totals <= crossed /\ totals - byHour <= crossed + p
        /\ (R + untracked) - totals <= crossed /\ totals - (R + untracked) <= crossed + p
  BY <1>2, <1>4, <1>8 DEF ActSums
<1>10. Active!Cardinality(Active!Tracked) < MaxSources + Active!Cardinality(Handlers)
  <2>1. Active!Cardinality(Active!Tracked) = Cardinality(TrackedIn(records))
    BY ActiveCardinality DEF Active!Tracked, TrackedIn
  <2>2. PICK t \in Nat : t = Cardinality(TrackedIn(records))
    <3>1. IsFiniteSet(TrackedIn(records)) BY FS_Subset DEF TrackedIn, ActBounds
    <3> QED BY <3>1, FS_CardinalityType
  <2>3. Cardinality(Handlers) \in Nat /\ MaxSources \in Nat BY FS_CardinalityType DEF ActBounds
  <2>4. ActRoom(t, i) BY <1>3, <2>2 DEF ActInv
  <2>5. t < MaxSources + Cardinality(Handlers) BY <2>3, <2>4 DEF ActRoom
  <2> QED BY <2>1, <2>2, <2>5, ActiveCardinality
<1>11. ASSUME NEW a \in Active!Tracked
       PROVE  /\ records[a].gaps = records[a].n - 1 /\ records[a].peak \in 1 .. records[a].n
              /\ records[a].zero <= records[a].searches + crossed + untracked
  <2>1. a \in Askers /\ records[a].n > 0 BY <1>11 DEF Active!Tracked
  <2>2. RecordGood(records[a]) /\ records[a] \in ActRecords BY <2>1 DEF ActInv, ActTypes
  <2>3. records[a].gaps = records[a].n - 1 /\ records[a].peak \in 1 .. records[a].n
    <3>1. records[a].n # 0 BY <2>1, <2>2 DEF ActRecords
    <3> QED BY <2>2, <3>1 DEF RecordGood
  <2>4. PICK z \in Nat, s \in Nat : z = records[a].zero /\ s = records[a].searches BY <2>2 DEF ActRecords
  <2>5. PICK q \in Nat, m \in Nat : q = Cardinality(ActAnswerers(handler, a)) /\ m = Cardinality(ActAskings(handler, a))
    BY HandlerSizes DEF ActBounds
  <2>6. ActZero(resetting, z, q, m, s, crossed, untracked) BY <2>1, <2>4, <2>5 DEF ActInv
  <2>7. z <= s + crossed + untracked BY <1>4, <2>6 DEF ActZero
  <2> QED BY <2>3, <2>4, <2>7
<1>12. Active!ActivityAdds BY <1>6, <1>7, <1>9, <1>10, <1>11 DEF Active!ActivityAdds
<1> QED BY <1>5, <1>12 DEF Active!ActivitySound

(* Activity: whichever handlers note at once and however often the operator *)
(* resets the figures between two of their steps, once a reset is through   *)
(* the records, the untracked and the hours differ from the totals by no    *)
(* more than the notes in progress and those it crossed, a record has a gap *)
(* for every request but its first, and the table exceeds its bound by less *)
(* than the handlers there are, for any sources, handlers and bounds.       *)
THEOREM ActivityAlwaysSound ==
  ASSUME ActBounds
  PROVE  Active!Spec => []Active!ActivitySound
<1>1. Active!Init => ActInv BY ActiveInitially
<1>2. ActInv /\ [Active!Next]_(Active!vars) => ActInv' BY ActiveStep
<1>3. ActInv => Active!ActivitySound BY ActiveImplies
<1> QED BY <1>1, <1>2, <1>3, PTL DEF Active!Spec
=============================================================================
