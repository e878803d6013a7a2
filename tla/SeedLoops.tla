------------------------------ MODULE SeedLoops -------------------------------
(***************************************************************************)
(* The gossip supervisor: which seed loops run, give up and are started    *)
(* again as server.seed_servers is reloaded.                               *)
(***************************************************************************)
EXTENDS Naturals, FiniteSets

CONSTANTS
  Seeds,
  MaxFailures,   \* MAX_CONSECUTIVE_FAILURES
  MaxReloads     \* bound: changes of the configuration

VARIABLES
  configured,    \* live_cfg.server.seed_servers
  prevDesired, givenUp,
  loop,          \* running: a seed's task
  failures,      \* in a row, of a seed's task
  reloads

vars == <<configured, prevDesired, givenUp, loop, failures, reloads>>

TypeOK ==
  /\ configured \subseteq Seeds /\ prevDesired \subseteq Seeds /\ givenUp \subseteq Seeds
  /\ loop \in [Seeds -> {"none", "runs", "ended"}]
  /\ failures \in [Seeds -> 0 .. MaxFailures]
  /\ reloads \in 0 .. MaxReloads

Init ==
  /\ configured = Seeds /\ prevDesired = {} /\ givenUp = {}
  /\ loop = [s \in Seeds |-> "none"] /\ failures = [s \in Seeds |-> 0]
  /\ reloads = 0

Reload(S) ==
  /\ reloads < MaxReloads /\ reloads' = reloads + 1
  /\ S # configured /\ configured' = S
  /\ UNCHANGED <<prevDesired, givenUp, loop, failures>>

(* seed_loop: a handshake succeeds, or fails once more. *)
HandshakeOk(s) ==
  /\ loop[s] = "runs" /\ failures' = [failures EXCEPT ![s] = 0]
  /\ UNCHANGED <<configured, prevDesired, givenUp, loop, reloads>>

(* Mutant: gives up one failure late.                                      *)
FailsOnceMore(s) ==
  /\ loop[s] = "runs"
  /\ failures' = [failures EXCEPT ![s] = @ + 1]
  /\ loop' = [loop EXCEPT ![s] = IF failures'[s] > MaxFailures THEN "ended" ELSE @]
  /\ UNCHANGED <<configured, prevDesired, givenUp, reloads>>

HandshakeFails(s) ==
  /\ loop[s] = "runs"
  /\ failures' = [failures EXCEPT ![s] = @ + 1]
  /\ loop' = [loop EXCEPT ![s] = IF failures'[s] >= MaxFailures THEN "ended" ELSE @]
  /\ UNCHANGED <<configured, prevDesired, givenUp, reloads>>

(* Mutant: who gave up is never tried again. *)
Keeps == givenUp

Cleared == IF configured # prevDesired THEN {} ELSE givenUp

(* The minute tick: clear, then retain, then start. *)
Supervise ==
  LET gaveUp == Cleared \cup {s \in configured : loop[s] = "ended"}
      starts == {s \in configured \ gaveUp : loop[s] # "runs"}
  IN /\ prevDesired' = configured
     /\ givenUp' = gaveUp
     /\ loop' = [s \in Seeds |-> IF s \notin configured \/ s \in gaveUp THEN "none" ELSE "runs"]
     /\ failures' = [s \in Seeds |-> IF loop'[s] = "none" \/ s \in starts THEN 0 ELSE failures[s]]
     /\ UNCHANGED <<configured, reloads>>

Next ==
  \/ \E S \in SUBSET Seeds : Reload(S)
  \/ \E s \in Seeds : HandshakeOk(s) \/ HandshakeFails(s)
  \/ Supervise

Spec == Init /\ [][Next]_vars

-----------------------------------------------------------------------------
(* A seed that is listed anew is started, also one that gave up before it    *)
(* was taken off the list, and the loop of one no longer listed is stopped.  *)
SeedsFollowConfig ==
  [][\A s \in Seeds :
       /\ s \in prevDesired' \ prevDesired => loop'[s] = "runs"
       /\ s \in prevDesired \ prevDesired' => loop'[s] = "none"]_vars

(* A seed that gave up before the supervisor saw the list change is tried    *)
(* again ("every listed seed deserves a fresh attempt").                     *)
ChangeRetriesAll ==
  [][configured # prevDesired /\ prevDesired' = configured
       => \A s \in configured : loop'[s] = "runs"]_vars
=============================================================================
