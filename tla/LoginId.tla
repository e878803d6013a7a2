------------------------------- MODULE LoginId --------------------------------
(***************************************************************************)
(* The id a login is given: the connect probe, the hairpin probe, the      *)
(* wrong-hash marks of the background identity checks, the ceiling all the *)
(* probes share, and the LowID counter with its wrap and its parity.       *)
(*                                                                         *)
(* What a probe finds is the client's network's business and a choice      *)
(* here.  Ids below LowTop are LowIDs (2^24 in the code).                  *)
(***************************************************************************)
EXTENDS Naturals, FiniteSets

CONSTANTS
  Users,
  HighOf,       \* the id a user's address makes (below LowTop: it ends in .0)
  V6, Lan,      \* users who come over IPv6; from a private address
  ThisIp,       \* the id this_ip makes
  Odd,          \* users who set Lugdunum's bit
  LowTop,       \* 0x00FFFFFF
  MaxProbes,    \* admission.max_probe_jobs
  MaxChecks,    \* HighIdObserve::MAX_CONCURRENT
  MaxMarks,     \* HighIdObserve::MAX_MARKS
  Downgrade,    \* network.highid_downgrade_on_wrong_hash
  Observe,      \* network.highid_verify_observe
  MaxAssigned   \* bound: logins

VARIABLES
  nextLow,      \* next_low_id
  step,         \* where a user's login is
  given,        \* the id and whether it is a HighID
  checks,       \* background checks that run, by user
  marks,        \* wrong_hash_marks
  permits,      \* admission.probes: free
  checkPermits, \* HighIdObserve.permits: free
  assigned

vars == <<nextLow, step, given, checks, marks, permits, checkPermits, assigned>>

NoIdYet == [id |-> 0, high |-> FALSE]

TypeOK ==
  /\ nextLow \in 1 .. LowTop
  /\ step \in [Users -> {"out", "probe", "hairpin", "plain", "in"}]
  /\ \A u \in Users : given[u].id \in Nat /\ given[u].high \in BOOLEAN
  /\ checks \in [Users -> 0 .. MaxChecks] /\ marks \subseteq Users
  /\ permits \in 0 .. MaxProbes /\ checkPermits \in 0 .. MaxChecks

Init ==
  /\ nextLow = 1 /\ step = [u \in Users |-> "out"] /\ given = [u \in Users |-> NoIdYet]
  /\ checks = [u \in Users |-> 0] /\ marks = {}
  /\ permits = MaxProbes /\ checkPermits = MaxChecks /\ assigned = 0

-----------------------------------------------------------------------------
(* Mutant: the id at the top of the range is given out. *)
TakesTop(n) == IF n >= LowTop THEN <<n, 1>> ELSE <<n, n + 1>>

(* allocate_low_id: the id and the next counter. *)
AllocateLowId(n) == IF n >= LowTop THEN <<1, 1>> ELSE <<n, n + 1>>

(* allocate_low_id_for: until the parity fits. *)
LowIdFor(u) ==
  LET tries[k \in 1 .. 4] == AllocateLowId(IF k = 1 THEN nextLow ELSE tries[k - 1][2])
      fits == {k \in 1 .. 4 : tries[k][1] % 2 = IF u \in Odd THEN 1 ELSE 0}
  IN tries[CHOOSE k \in fits : \A j \in fits : k <= j]

Low(u) ==
  /\ given' = [given EXCEPT ![u] = [id |-> LowIdFor(u)[1], high |-> FALSE]]
  /\ nextLow' = LowIdFor(u)[2]
  /\ step' = [step EXCEPT ![u] = "in"]

HighOrLowId(u, id) ==
  IF id > LowTop THEN /\ given' = [given EXCEPT ![u] = [id |-> id, high |-> TRUE]]
                      /\ step' = [step EXCEPT ![u] = "in"] /\ UNCHANGED nextLow
  ELSE Low(u)

-----------------------------------------------------------------------------
NeedsNoProbe(u) == u \in V6 \/ (u \notin Lan /\ HighOf[u] <= LowTop)

AssignStart(u) ==
  /\ step[u] = "out" /\ assigned < MaxAssigned /\ assigned' = assigned + 1
  /\ IF NeedsNoProbe(u) \/ permits = 0 THEN Low(u) /\ UNCHANGED permits
     ELSE /\ permits' = permits - 1 /\ step' = [step EXCEPT ![u] = "probe"]
          /\ UNCHANGED <<nextLow, given>>
  /\ UNCHANGED <<checks, marks, checkPermits>>

(* spawn_highid_check, with the login's own probe permit still held. *)
SpawnCheck(u) ==
  IF (Downgrade \/ Observe) /\ checkPermits > 0 /\ permits > 0
  THEN /\ checks' = [checks EXCEPT ![u] = @ + 1] /\ checkPermits' = checkPermits - 1
       /\ UNCHANGED permits             \* the check's is taken, the login's given back
  ELSE permits' = permits + 1 /\ UNCHANGED <<checks, checkPermits>>

(* The port took the connection.  The mark is read before the re-check. *)
PortOpen(u) ==
  /\ step[u] = "probe" /\ u \notin Lan
  /\ IF u \in marks /\ Downgrade THEN Low(u) ELSE HighOrLowId(u, HighOf[u])
  /\ SpawnCheck(u)
  /\ UNCHANGED <<marks, assigned>>

(* It did not, or a private address is not probed at all. *)
PortClosed(u) ==
  /\ step[u] = "probe"
  /\ IF u \in Lan THEN step' = [step EXCEPT ![u] = "hairpin"] /\ UNCHANGED <<nextLow, given, permits>>
     ELSE Low(u) /\ permits' = permits + 1
  /\ UNCHANGED <<checks, marks, checkPermits, assigned>>

(* The hairpin probe at this_ip: obfuscated, then once in the clear. *)
HairpinCryptRefused(u) ==
  /\ step[u] = "hairpin" /\ step' = [step EXCEPT ![u] = "plain"]
  /\ UNCHANGED <<nextLow, given, checks, marks, permits, checkPermits, assigned>>

HairpinAnswer(u, same) ==
  /\ step[u] \in {"hairpin", "plain"}
  /\ IF same THEN HighOrLowId(u, ThisIp) ELSE Low(u)
  /\ permits' = permits + 1
  /\ UNCHANGED <<checks, marks, checkPermits, assigned>>

(* Mutant: a check that found nothing keeps its permit. *)
LeaksPermit(u, found) ==
  /\ checks[u] > 0 /\ checks' = [checks EXCEPT ![u] = @ - 1]
  /\ permits' = permits + 1
  /\ checkPermits' = IF found = "nothing" THEN checkPermits ELSE checkPermits + 1
  /\ marks' = IF found = "wrong" THEN marks \cup {u} ELSE marks \ {u}
  /\ UNCHANGED <<nextLow, step, given, assigned>>

(* record_highid_outcome, apply_highid_mark. *)
CheckDone(u, found) ==
  /\ checks[u] > 0 /\ checks' = [checks EXCEPT ![u] = @ - 1]
  /\ permits' = permits + 1 /\ checkPermits' = checkPermits + 1
  /\ marks' = IF ~Downgrade \/ found = "nothing" THEN marks
              ELSE IF found = "same" THEN marks \ {u}
              ELSE IF u \in marks \/ Cardinality(marks) < MaxMarks THEN marks \cup {u}
              ELSE marks
  /\ UNCHANGED <<nextLow, step, given, assigned>>

MarkEnds(u) ==
  /\ u \in marks /\ marks' = marks \ {u}
  /\ UNCHANGED <<nextLow, step, given, checks, permits, checkPermits, assigned>>

Leave(u) ==
  /\ step[u] = "in" /\ step' = [step EXCEPT ![u] = "out"]
  /\ given' = [given EXCEPT ![u] = NoIdYet]
  /\ UNCHANGED <<nextLow, checks, marks, permits, checkPermits, assigned>>

Next ==
  \E u \in Users :
    \/ AssignStart(u) \/ PortOpen(u) \/ PortClosed(u) \/ HairpinCryptRefused(u)
    \/ \E same \in BOOLEAN : HairpinAnswer(u, same)
    \/ \E found \in {"same", "wrong", "nothing"} : CheckDone(u, found)
    \/ MarkEnds(u) \/ Leave(u)

Spec == Init /\ [][Next]_vars

-----------------------------------------------------------------------------
(* An id says whether its holder can be reached: a HighID is above the LowID *)
(* range, a LowID inside it and of the parity its flags ask for, also where  *)
(* the counter wraps and for addresses that end in .0 ("Never a LowID-range  *)
(* id flagged as HighID").                                                   *)
IdsProper ==
  \A u \in Users : step[u] = "in" =>
    IF given[u].high THEN given[u].id > LowTop
    ELSE given[u].id \in 1 .. LowTop - 1 /\ (given[u].id % 2 = 1 <=> u \in Odd)

(* Every probe, of a login or in the background, gives its permits back on   *)
(* every path; what is free and what runs make up the ceilings.              *)
PermitsKept ==
  LET running == Cardinality({c \in Users \X (1 .. MaxChecks) : c[2] <= checks[c[1]]})
      logins == Cardinality({u \in Users : step[u] \in {"probe", "hairpin", "plain"}})
  IN permits + running + logins = MaxProbes /\ checkPermits + running = MaxChecks

(* Ids mean what they say and no path of a login keeps a probe's permit.   *)
IdsGiven == TypeOK /\ IdsProper /\ PermitsKept
=============================================================================
