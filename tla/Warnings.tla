------------------------------- MODULE Warnings -------------------------------
(***************************************************************************)
(* The warnings the panel shows without a log file: a ring of the last of  *)
(* them, and the throttle that keeps one peer's repeats out of it.         *)
(***************************************************************************)
EXTENDS Integers, Sequences

CONSTANTS
  Repeaters,      \* (peer, kind of event)
  Quiet,          \* SUPPRESS_WINDOW
  QuietKept,      \* the age at which the cleanup drops an entry
  RingSize,       \* CAPACITY
  MaxTick, MaxLogged, MaxRepeats

VARIABLES
  tick,
  seen,           \* LogThrottle.seen: [last, count]; last = -1 if there is none
  ring, total,    \* LogRing: what was logged, oldest first, and how many ever
  raised,         \* ghost: how often each event happened since it was last logged
  swept           \* ghost: the cleanup forgot repeats of the event

vars == <<tick, seen, ring, total, raised, swept>>

NoEntry == [last |-> -1, count |-> 0]

TypeOK ==
  /\ tick \in 0..MaxTick /\ Len(ring) <= RingSize /\ total \in Len(ring)..MaxLogged
  /\ \A r \in Repeaters : seen[r].last \in -1..tick

Init ==
  /\ tick = 0 /\ seen = [r \in Repeaters |-> NoEntry] /\ ring = <<>> /\ total = 0
  /\ raised = [r \in Repeaters |-> 0] /\ swept = [r \in Repeaters |-> FALSE]

Tick ==
  /\ tick < MaxTick /\ tick' = tick + 1
  /\ UNCHANGED <<seen, ring, total, raised, swept>>

(* LogRing::push: the oldest entry makes room. *)
Push(e) ==
  /\ ring' = Append(IF Len(ring) = RingSize THEN Tail(ring) ELSE ring, e)
  /\ total' = total + 1

(* LogThrottle::allow, and the event logged with what was suppressed. *)
Event(r) ==
  LET e == seen[r]
      first == e.last = -1
      due == first \/ tick - e.last >= Quiet
  IN /\ seen' = [seen EXCEPT ![r] = IF due THEN [last |-> tick, count |-> 0] ELSE [e EXCEPT !.count = @ + 1]]
     /\ raised' = [raised EXCEPT ![r] = IF due THEN 0 ELSE @ + 1]
     /\ swept' = [swept EXCEPT ![r] = IF due THEN FALSE ELSE @]
     /\ IF due THEN Push([of |-> r, at |-> tick, suppressed |-> e.count,
                          missed |-> IF swept[r] THEN 0 ELSE raised[r]])
        ELSE UNCHANGED <<ring, total>>
     /\ total < MaxLogged /\ raised[r] < MaxRepeats
     /\ UNCHANGED tick

(* A cleanup that forgets whom it has just heard, to show that the         *)
(* property notices.                                                        *)
SweepEager ==
  LET old == {r \in Repeaters : seen[r].last >= 0 /\ tick - seen[r].last >= Quiet - 1}
  IN /\ old # {}
     /\ seen' = [r \in Repeaters |-> IF r \in old THEN NoEntry ELSE seen[r]]
     /\ swept' = [r \in Repeaters |-> swept[r] \/ (r \in old /\ seen[r].count > 0)]
     /\ UNCHANGED <<tick, ring, total, raised>>

(* The periodic cleanup. *)
Sweep ==
  LET old == {r \in Repeaters : seen[r].last >= 0 /\ tick - seen[r].last >= QuietKept}
  IN /\ old # {}
     /\ seen' = [r \in Repeaters |-> IF r \in old THEN NoEntry ELSE seen[r]]
     /\ swept' = [r \in Repeaters |-> swept[r] \/ (r \in old /\ seen[r].count > 0)]
     /\ UNCHANGED <<tick, ring, total, raised>>

Next ==
  \/ Tick \/ Sweep
  \/ \E r \in Repeaters : Event(r)

Spec == Init /\ [][Next]_vars

-----------------------------------------------------------------------------
(* "the 118th copy does not" matter: however often a peer repeats itself,  *)
(* and whatever the cleanup drops, two entries of one event in the ring    *)
(* are a window apart, and each says how many it stands for: every repeat  *)
(* since the last, unless the entry was dropped in between.                *)
RepeatsKeptOut ==
  /\ \A i, j \in DOMAIN ring :
       i < j /\ ring[i].of = ring[j].of => ring[j].at - ring[i].at >= Quiet
  /\ \A i \in DOMAIN ring : ring[i].suppressed = ring[i].missed
  /\ \A r \in Repeaters : swept[r] \/ seen[r].count = raised[r]

(* The ring is for what happened, not for who is loudest. *)
WarningsSound == TypeOK /\ RepeatsKeptOut
=============================================================================
