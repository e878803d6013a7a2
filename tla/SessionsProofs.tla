---------------------------- MODULE SessionsProofs ----------------------------
(***************************************************************************)
(* Proofs about Sessions on the runtime with one thread, the default: for  *)
(* any connections, users, addresses, cap and takeover policy.             *)
(*                                                                         *)
(* The argument: between two awaits one task runs, so what its steps read  *)
(* stays true until they use it.  Each part of the invariant says what a   *)
(* connection's place in its life implies for one of the registries.       *)
(***************************************************************************)
EXTENDS Sessions, FiniteSetTheorems, TLAPS

-----------------------------------------------------------------------------
(* The places of a session's life. *)
Early == {"closed", "probe", "reserve", "force", "try"}
Reserved == {"assign", "recheck", "refused", "index", "tables", "insert"}
Serving == {"list", "ready", "offer", "paced", "job", "jobDone"}
Served == {"list", "ready", "paced", "job", "jobDone"}   \* those that await
InMap == {"account"} \cup Serving \cup {"endSlot", "endEntry"}
Unmapped == {"endTables", "endIndex", "endSources"}

(* One task at a time is between two awaits. *)
OneRuns == \A c, d \in Conns : pc[c] \notin AwaitPcs /\ pc[d] \notin AwaitPcs => c = d

(* A connection that is open has a user and an address, and an id once       *)
(* handle_login has given it one.                                            *)
Identified ==
  \A c \in Conns :
    /\ pc[c] # "closed" => user[c] \in Users /\ addr[c] \in Addrs
    /\ pc[c] \notin Early \cup {"assign"} => id[c] \in Ids

(* What the client map holds under a user is a session of that user; a task  *)
(* that has removed its entry finds none until it ends.                      *)
MapSound ==
  /\ \A u \in Users : clients[u] # NoConn =>
       user[clients[u]] = u /\ pc[clients[u]] \in InMap
  /\ \A c \in Conns : pc[c] = "account" => clients[user[c]] = c
  /\ \A c \in Conns : pc[c] \in Unmapped => clients[user[c]] = NoConn
  /\ \A c \in Conns : pc[c] = "force" => clients[user[c]] # NoConn

(* The session a login has just replaced. *)
ReplacedSound ==
  \A c \in Conns : pc[c] = "account" /\ prev[c] # NoConn =>
    pc[prev[c]] \in Served /\ user[prev[c]] = user[c]

BeingReleased(c) == \E d \in Conns : pc[d] = "account" /\ prev[d] = c

(* Who holds a slot. *)
SlotsSound ==
  \A c \in Conns : c \in slots <=>
    \/ pc[c] \in Reserved \cup {"account"}
    \/ pc[c] \in Serving \cup {"endSlot"} /\ (Current(c) \/ BeingReleased(c))

(* The users that hold slots are within the cap. *)
Holders == {user[c] : c \in slots}
CapSound == MaxClients # 0 => Cardinality(Holders) <= MaxClients

(* The side tables are those of the session in the map, but for a login or   *)
(* an end between the two.                                                   *)
TablesSound ==
  /\ \A u \in Users : tables[u] = clients[u] \/
       \E c \in Conns : user[c] = u /\ pc[c] \in {"insert", "endTables"}
  /\ \A c \in Conns : pc[c] = "insert" => tables[user[c]] = c

LowUsers == {u \in Users : Low(clients[u]) = 1}
LowSound == lowid = Cardinality(LowUsers)

(* The id of the session in the map resolves to its user, and that of a      *)
(* login about to enter it.                                                  *)
IndexSound ==
  /\ \A u \in Users : clients[u] # NoConn /\ clients[u] \notin shadowed =>
       index[id[clients[u]]] = u
  /\ \A c \in Conns : pc[c] \in {"tables", "insert"} => index[id[c]] = user[c]
  /\ \A c \in Conns : pc[c] = "endStale" =>
       clients[user[c]] # NoConn /\ id[clients[user[c]]] # id[c]

(* A login past the recheck may replace the session it finds. *)
ContestSound ==
  \A c \in Conns : pc[c] \in {"index", "tables", "insert"} => ~Contested(user[c], addr[c])

SessionsIInv ==
  /\ TypeOK /\ OneRuns /\ Identified /\ MapSound /\ ReplacedSound
  /\ SlotsSound /\ CapSound /\ TablesSound /\ LowSound /\ IndexSound /\ ContestSound

(* What the theorems assume of the constants besides SessionsAssumption. *)
OneThread == ~Parallel

-----------------------------------------------------------------------------
(* A task that goes on finds the others waiting, and only it moves. *)
LEMMA Alone ==
  ASSUME OneThread, TypeOK, NEW c \in Conns, NEW p, NEW q, Goto(c, p, q)
  PROVE  /\ pc[c] = p /\ pc'[c] = q
         /\ \A d \in Conns : d # c => pc[d] \in AwaitPcs /\ pc'[d] = pc[d]
BY DEF OneThread, TypeOK, Goto, Runs

(* Nothing is connected at the start. *)
LEMMA SessionsInit ==
  ASSUME Init
  PROVE  SessionsIInv
<1>1. TypeOK BY DEF Init, TypeOK, Pcs, AwaitPcs
<1>2. OneRuns /\ Identified /\ ReplacedSound /\ ContestSound
  BY DEF Init, OneRuns, Identified, ReplacedSound, ContestSound, AwaitPcs, Early
<1>3. MapSound BY DEF Init, MapSound, Unmapped
<1>4. SlotsSound
  BY DEF Init, SlotsSound, Reserved, Serving
<1>5. CapSound
  <2>1. Holders = {} BY DEF Init, Holders
  <2> QED BY <2>1, FS_EmptySet, SessionsAssumption DEF CapSound
<1>6. TablesSound BY DEF Init, TablesSound
<1>7. LowSound
  <2>1. LowUsers = {} BY DEF Init, LowUsers, Low
  <2> QED BY <2>1, FS_EmptySet DEF LowSound, Init
<1>8. IndexSound BY DEF Init, IndexSound
<1> QED BY <1>1, <1>2, <1>3, <1>4, <1>5, <1>6, <1>7, <1>8 DEF SessionsIInv

-----------------------------------------------------------------------------
(* Moves from one await to another, or within one step, that write no       *)
(* registry: the class of the place stays, and what the new place requires  *)
(* has been seen to hold.                                                   *)
SameClass(p, q) ==
  \/ p \in Early \ {"closed"} /\ q \in Early \ {"closed"}
  \/ p \in Reserved \ {"assign", "tables", "insert"} /\ q \in Reserved \ {"assign", "tables", "insert"}
  \/ p \in Serving /\ q \in Serving \cup {"endSlot"}
  \/ p = "endEntry" /\ q \in {"endStale", "endTask"}

QuietMove(c, p, q) ==
  /\ pc[c] = p /\ pc' = [pc EXCEPT ![c] = q] /\ q \in Pcs
  /\ Runs(c) \/ (p = "job" /\ q = "jobDone")
  /\ SameClass(p, q)
  /\ q = "force" => clients[user[c]] # NoConn
  /\ q = "index" => ~Contested(user[c], addr[c])
  /\ p = "endEntry" => clients[user[c]] # c
  /\ q = "endStale" => clients[user[c]] # NoConn /\ id[clients[user[c]]] # id[c]
  /\ prev' \in [Conns -> Conns \cup {NoConn}] /\ \A d \in Conns \ {c} : prev'[d] = prev[d]
  /\ UNCHANGED <<user, addr, id, registry, slots>>

LEMMA QuietMoveKeeps ==
  ASSUME OneThread, SessionsIInv, NEW c \in Conns, NEW p, NEW q, QuietMove(c, p, q),
         sources' \in [Users -> SUBSET Conns],
         probing' \in [Users -> {"none", "running", "cooling"}],
         lost' \subseteq Users \X Addrs
  PROVE  SessionsIInv'
<1>1. /\ pc[c] = p /\ pc'[c] = q
      /\ \A d \in Conns : d # c => pc'[d] = pc[d]
      /\ (p = "job" /\ q = "jobDone") \/ \A d \in Conns : d # c => pc[d] \in AwaitPcs
  BY DEF QuietMove, SessionsIInv, TypeOK, OneThread, Runs
<1>2. /\ UNCHANGED <<user, addr, id, clients, index, tables, lowid, shadowed, slots>>
      /\ \A d \in Conns : d # c => prev'[d] = prev[d]
  BY DEF QuietMove, registry
<1>3. SameClass(p, q) BY DEF QuietMove
<1>4. TypeOK' BY <1>2 DEF QuietMove, SessionsIInv, TypeOK
<1>5. OneRuns' BY <1>1 DEF SessionsIInv, OneRuns, AwaitPcs
<1>6. Identified'
  BY <1>1, <1>2, <1>3 DEF SessionsIInv, Identified, SameClass, Early, Reserved, Serving
<1>7. MapSound'
  BY <1>1, <1>2, <1>3
  DEF SessionsIInv, TypeOK, MapSound, QuietMove, SameClass, Early, Reserved, Serving, InMap,
      Unmapped
<1>8. ReplacedSound'
  BY <1>1, <1>2, <1>3
  DEF SessionsIInv, TypeOK, ReplacedSound, SameClass, Early, Reserved, Serving, Served, AwaitPcs
<1>9. SlotsSound'
  <2>1. \A d \in Conns : BeingReleased(d)' <=> BeingReleased(d)
    BY <1>1, <1>2, <1>3 DEF BeingReleased, SameClass, Early, Reserved, Serving
  <2>2. \A d \in Conns : Current(d)' <=> Current(d) BY <1>2 DEF Current
  <2> QED
    BY <1>1, <1>2, <1>3, <2>1, <2>2
    DEF SessionsIInv, SlotsSound, SameClass, Early, Reserved, Serving
<1>10. CapSound' BY <1>2 DEF SessionsIInv, CapSound, Holders
<1>11. TablesSound'
  BY <1>1, <1>2, <1>3 DEF SessionsIInv, TablesSound, SameClass, Early, Reserved, Serving
<1>12. LowSound' BY <1>2 DEF SessionsIInv, LowSound, LowUsers, Low, LowId
<1>13. IndexSound'
  BY <1>1, <1>2, <1>3
  DEF SessionsIInv, TypeOK, IndexSound, QuietMove, SameClass, Early, Reserved, Serving
<1>14. ContestSound'
  <2>1. \A d \in Conns : IsAlive(d)' <=> IsAlive(d)
    BY <1>1, <1>3 DEF IsAlive, SameClass, Early, Reserved, Serving
  <2>2. \A d \in Conns : user[d] \in Users =>
          (Contested(user[d], addr[d])' <=> Contested(user[d], addr[d]))
    BY <1>2, <2>1 DEF Contested, MayReplace, SessionsIInv, TypeOK
  <2>3. \A d \in Conns : pc[d] # "closed" => user[d] \in Users
    BY DEF SessionsIInv, Identified
  <2> QED
    BY <1>1, <1>2, <1>3, <2>2, <2>3
    DEF SessionsIInv, ContestSound, QuietMove, SameClass, Early, Reserved, Serving
<1> QED
  BY <1>4, <1>5, <1>6, <1>7, <1>8, <1>9, <1>10, <1>11, <1>12, <1>13, <1>14 DEF SessionsIInv

(* The steps that are quiet moves. *)
QuietStep(c) ==
  \/ ProbeGone(c) \/ ReserveSlot(c) \/ Recheck(c) \/ RecheckRefused(c) \/ Welcome(c)
  \/ FrameFenced(c) \/ OfferFrame(c) \/ OfferStep(c) \/ Disconnect(c) \/ ReplacedIdle(c)
  \/ EndNotOurs(c)

LEMMA SourcesAdded ==
  ASSUME SessionsIInv, NEW c \in Conns, AddSources(c)
  PROVE  sources' \in [Users -> SUBSET Conns]
BY DEF SessionsIInv, TypeOK, AddSources

LEMMA QuietSteps ==
  ASSUME OneThread, SessionsIInv, NEW c \in Conns, QuietStep(c)
  PROVE  SessionsIInv'
<1> DEFINE Data == /\ sources' \in [Users -> SUBSET Conns]
                   /\ probing' \in [Users -> {"none", "running", "cooling"}]
                   /\ lost' \subseteq Users \X Addrs
<1>1. SUFFICES \E p, q : QuietMove(c, p, q) /\ Data
  BY QuietMoveKeeps
<1>2. TypeOK BY DEF SessionsIInv
<1>3. UNCHANGED <<sources, contest>> => Data BY <1>2 DEF TypeOK, contest
<1>4. UNCHANGED login => /\ UNCHANGED <<user, addr, id>>
                         /\ prev' \in [Conns -> Conns \cup {NoConn}]
                         /\ \A d \in Conns \ {c} : prev'[d] = prev[d]
  BY <1>2 DEF TypeOK, login
<1>0. ASSUME NEW p, NEW q, Goto(c, p, q), UNCHANGED <<login, registry, slots>>, q \in Pcs,
             SameClass(p, q),
             q = "force" => clients[user[c]] # NoConn,
             q = "index" => ~Contested(user[c], addr[c]),
             p = "endEntry" => clients[user[c]] # c,
             q = "endStale" => clients[user[c]] # NoConn /\ id[clients[user[c]]] # id[c]
      PROVE  QuietMove(c, p, q)
  BY <1>0, <1>4 DEF QuietMove, Goto, login, registry
<1> USE DEF SameClass, Early, Reserved, Serving, Pcs, AwaitPcs, LoginPcs, EndPcs
<1>5. CASE ProbeGone(c)
  <2>1. QuietMove(c, "probe", "reserve") BY <1>2, <1>5 DEF ProbeGone, TypeOK, QuietMove, Goto, registry
  <2>2. Data BY <1>2, <1>5 DEF ProbeGone, TypeOK
  <2> QED BY <2>1, <2>2
<1>6. CASE ReserveSlot(c)
  <2> DEFINE q == IF clients[user[c]] # NoConn THEN "force" ELSE "try"
  <2>1. QuietMove(c, "reserve", q) BY <1>0, <1>6 DEF ReserveSlot
  <2> QED BY <1>3, <1>6, <2>1 DEF ReserveSlot
<1>7. CASE Recheck(c)
  <2>1. QuietMove(c, "recheck", "index") BY <1>0, <1>7 DEF Recheck
  <2> QED BY <1>3, <1>7, <2>1 DEF Recheck
<1>8. CASE RecheckRefused(c)
  <2>1. QuietMove(c, "recheck", "refused") BY <1>0, <1>8 DEF RecheckRefused
  <2> QED BY <1>3, <1>8, <2>1 DEF RecheckRefused
<1>9. CASE Welcome(c)
  <2>1. QuietMove(c, "list", "ready") BY <1>0, <1>9 DEF Welcome
  <2> QED BY <1>3, <1>9, <2>1 DEF Welcome
<1>10. CASE FrameFenced(c) \/ ReplacedIdle(c)
  <2>1. QuietMove(c, "ready", "endSlot") BY <1>0, <1>10 DEF FrameFenced, ReplacedIdle
  <2> QED BY <1>3, <1>10, <2>1 DEF FrameFenced, ReplacedIdle
<1>11. CASE OfferFrame(c)
  <2>1. QuietMove(c, "ready", "offer") \/ QuietMove(c, "ready", "paced")
    BY <1>0, <1>11 DEF OfferFrame
  <2> QED BY <1>3, <1>11, <2>1 DEF OfferFrame
<1>12. CASE PacedResume(c)
  <2>1. QuietMove(c, "paced", IF Current(c) THEN "offer" ELSE "ready")
    BY <1>0, <1>12 DEF PacedResume
  <2> QED BY <1>3, <1>12, <2>1 DEF PacedResume
<1>13. CASE OfferInline(c)
  <2>1. QuietMove(c, "offer", "ready") BY <1>0, <1>13 DEF OfferInline
  <2>2. Data BY <1>2, <1>13, SourcesAdded DEF OfferInline, TypeOK, contest
  <2> QED BY <2>1, <2>2
<1>14. CASE OfferSpawn(c)
  <2>1. QuietMove(c, "offer", "job") BY <1>0, <1>14 DEF OfferSpawn
  <2> QED BY <1>3, <1>14, <2>1 DEF OfferSpawn
<1>15. CASE OfferJob(c)
  <2>1. QuietMove(c, "job", "jobDone") BY <1>4, <1>15 DEF OfferJob, QuietMove
  <2>2. Data BY <1>2, <1>15, SourcesAdded DEF OfferJob, TypeOK, contest
  <2> QED BY <2>1, <2>2
<1>16. CASE OfferDone(c)
  <2>1. QuietMove(c, "jobDone", "ready") BY <1>0, <1>16 DEF OfferDone
  <2> QED BY <1>3, <1>16, <2>1 DEF OfferDone
<1>17. CASE Disconnect(c)
  <2>1. QuietMove(c, "ready", "endSlot") \/ QuietMove(c, "paced", "endSlot")
    BY <1>0, <1>17 DEF Disconnect
  <2> QED BY <1>3, <1>17, <2>1 DEF Disconnect
<1>18. CASE EndNotOurs(c)
  <2> DEFINE q == IF clients[user[c]] # NoConn /\ id[clients[user[c]]] # id[c]
                  THEN "endStale" ELSE "endTask"
  <2>1. QuietMove(c, "endEntry", q) BY <1>0, <1>18 DEF EndNotOurs, Current
  <2> QED BY <1>3, <1>18, <2>1 DEF EndNotOurs
<1> QED
  BY <1>5, <1>6, <1>7, <1>8, <1>9, <1>10, <1>11, <1>12, <1>13, <1>14, <1>15, <1>16, <1>17, <1>18
  DEF QuietStep, OfferStep

(* Probes, cooldowns and the memory of contenders are no part of it. *)
LEMMA ContestKeeps ==
  ASSUME SessionsIInv, UNCHANGED <<pc, login, registry, slots, sources>>,
         probing' \in [Users -> {"none", "running", "cooling"}], lost' \subseteq Users \X Addrs
  PROVE  SessionsIInv'
<1> USE DEF login, registry
<1>1. TypeOK' BY DEF SessionsIInv, TypeOK
<1>2. /\ OneRuns' /\ Identified' /\ MapSound' /\ ReplacedSound' /\ CapSound' /\ TablesSound'
  BY DEF SessionsIInv, OneRuns, Identified, MapSound, ReplacedSound, CapSound, Holders,
         TablesSound
<1>3. SlotsSound' BY DEF SessionsIInv, SlotsSound, Current, BeingReleased
<1>4. LowSound' BY DEF SessionsIInv, LowSound, LowUsers, Low, LowId
<1>5. IndexSound' BY DEF SessionsIInv, IndexSound
<1>6. ContestSound' BY DEF SessionsIInv, ContestSound, Contested, MayReplace, IsAlive
<1> QED BY <1>1, <1>2, <1>3, <1>4, <1>5, <1>6 DEF SessionsIInv

-----------------------------------------------------------------------------
(* A login begins on a connection that nothing speaks of. *)
LEMMA LoginBegins ==
  ASSUME OneThread, SessionsIInv, NEW c \in Conns, NEW u \in Users, NEW a \in Addrs,
         NEW q \in {"reserve", "probe"}, Goto(c, "closed", q), Begin(c, u, a),
         prev' \in [Conns -> Conns \cup {NoConn}], \A d \in Conns \ {c} : prev'[d] = prev[d],
         probing' \in [Users -> {"none", "running", "cooling"}],
         UNCHANGED <<id, registry, slots, sources, lost>>
  PROVE  SessionsIInv'
<1>1. /\ pc[c] = "closed" /\ pc'[c] = q
      /\ \A d \in Conns : d # c => pc[d] \in AwaitPcs /\ pc'[d] = pc[d]
  BY Alone DEF SessionsIInv
<1>2. /\ user'[c] = u /\ addr'[c] = a
      /\ \A d \in Conns : d # c => user'[d] = user[d] /\ addr'[d] = addr[d]
      /\ UNCHANGED <<id, clients, index, tables, lowid, shadowed, slots>>
  BY DEF Begin, SessionsIInv, TypeOK, registry
<1>3. \A v \in Users : clients[v] # c
  BY <1>1, SessionsAssumption DEF SessionsIInv, MapSound, InMap, Serving
<1>4. TypeOK'
  BY <1>2 DEF SessionsIInv, TypeOK, Goto, Begin, Pcs, LoginPcs
<1>5. OneRuns' BY <1>1 DEF OneRuns, AwaitPcs
<1>6. Identified'
  BY <1>1, <1>2 DEF SessionsIInv, Identified, Early
<1>7. MapSound'
  BY <1>1, <1>2, <1>3
  DEF SessionsIInv, TypeOK, MapSound, Unmapped, InMap, Serving, AwaitPcs
<1>8. ReplacedSound' BY <1>1 DEF ReplacedSound, AwaitPcs
<1>9. SlotsSound'
  <2>1. \A d \in Conns : BeingReleased(d)' <=> BeingReleased(d)
    BY <1>1 DEF BeingReleased, AwaitPcs
  <2>2. \A d \in Conns : d # c => (Current(d)' <=> Current(d)) BY <1>2 DEF Current
  <2> QED
    BY <1>1, <1>2, <2>1, <2>2 DEF SessionsIInv, SlotsSound, Reserved, Serving
<1>10. CapSound'
  <2>1. c \notin slots BY <1>1 DEF SessionsIInv, SlotsSound, Reserved, Serving
  <2>2. Holders' = Holders BY <1>2, <2>1 DEF Holders, SessionsIInv, TypeOK
  <2> QED BY <2>2 DEF SessionsIInv, CapSound
<1>11. TablesSound' BY <1>1, <1>2 DEF SessionsIInv, TablesSound, AwaitPcs
<1>12. LowSound' BY <1>2 DEF SessionsIInv, LowSound, LowUsers, Low, LowId
<1>13. IndexSound' BY <1>1, <1>2 DEF SessionsIInv, TypeOK, IndexSound, AwaitPcs
<1>14. ContestSound' BY <1>1 DEF ContestSound, AwaitPcs
<1> QED
  BY <1>4, <1>5, <1>6, <1>7, <1>8, <1>9, <1>10, <1>11, <1>12, <1>13, <1>14 DEF SessionsIInv

LEMMA LoginStarts ==
  ASSUME OneThread, SessionsIInv, NEW c \in Conns, NEW u \in Users, NEW a \in Addrs,
         LoginUncontested(c, u, a) \/ LoginProbes(c, u, a)
  PROVE  SessionsIInv'
<1>1. TypeOK BY DEF SessionsIInv
<1>2. CASE LoginUncontested(c, u, a)
  BY <1>1, <1>2, LoginBegins DEF LoginUncontested, TypeOK, contest
<1>3. CASE LoginProbes(c, u, a)
  <2>1. prev' \in [Conns -> Conns \cup {NoConn}] /\ \A d \in Conns \ {c} : prev'[d] = prev[d]
    BY <1>1, <1>3 DEF LoginProbes, TypeOK
  <2>2. probing' \in [Users -> {"none", "running", "cooling"}]
    BY <1>1, <1>3 DEF LoginProbes, TypeOK
  <2> QED BY <1>3, <2>1, <2>2, LoginBegins DEF LoginProbes
<1> QED BY <1>2, <1>3

-----------------------------------------------------------------------------
(* The users that hold slots are finitely many, and no more than the slots.  *)
LEMMA HoldersFinite ==
  ASSUME TypeOK
  PROVE  /\ IsFiniteSet(slots) /\ Cardinality(slots) \in Nat
         /\ IsFiniteSet(Holders) /\ Cardinality(Holders) \in Nat
         /\ Cardinality(Holders) <= Cardinality(slots)
<1> DEFINE f == [c \in slots |-> user[c]]
<1>1. IsFiniteSet(slots) BY SessionsAssumption, FS_Subset DEF TypeOK
<1>2. f \in Surjection(slots, Holders) BY DEF Surjection, Holders
<1> HIDE DEF f
<1>3. IsFiniteSet(Holders) /\ Cardinality(Holders) <= Cardinality(slots)
  BY <1>1, <1>2, FS_Surjection
<1> QED BY <1>1, <1>3, FS_CardinalityType

LEMMA FewerHolders ==
  ASSUME TypeOK, CapSound, Holders' \subseteq Holders
  PROVE  CapSound'
<1>1. IsFiniteSet(Holders) /\ Cardinality(Holders) \in Nat BY HoldersFinite
<1>2. IsFiniteSet(Holders') /\ Cardinality(Holders') <= Cardinality(Holders)
  BY <1>1, FS_Subset
<1>3. Cardinality(Holders') \in Nat BY <1>2, FS_CardinalityType
<1>4. MaxClients \in Nat BY SessionsAssumption
<1> QED BY <1>1, <1>2, <1>3, <1>4 DEF CapSound

-----------------------------------------------------------------------------
(* A task ends: a login that was refused, or a session that has left the map. *)
LEMMA CloseKeeps ==
  ASSUME OneThread, SessionsIInv, NEW c \in Conns,
         NEW p \in {"probe", "try", "refused", "endTask"}, Close(c, p),
         slots' = slots \ {c}, lost' \subseteq Users \X Addrs,
         UNCHANGED <<clients, index, tables, lowid, sources, probing>>
  PROVE  SessionsIInv'
<1>1. /\ pc[c] = p /\ pc'[c] = "closed"
      /\ \A d \in Conns : d # c => pc[d] \in AwaitPcs /\ pc'[d] = pc[d]
  BY Alone DEF SessionsIInv, Close
<1>2. /\ \A d \in Conns : d # c => user'[d] = user[d] /\ addr'[d] = addr[d] /\ id'[d] = id[d]
      /\ shadowed' = shadowed \ {c}
  BY DEF Close, SessionsIInv, TypeOK
<1>3. \A v \in Users : clients[v] # c
  BY <1>1, SessionsAssumption DEF SessionsIInv, MapSound, InMap, Serving
<1>4. TypeOK' BY DEF SessionsIInv, TypeOK, Close, Goto, Pcs, AwaitPcs
<1>5. OneRuns' BY <1>1 DEF OneRuns, AwaitPcs
<1>6. Identified' BY <1>1, <1>2 DEF SessionsIInv, Identified, Early
<1>7. MapSound'
  BY <1>1, <1>2, <1>3
  DEF SessionsIInv, TypeOK, MapSound, Unmapped, InMap, Serving, AwaitPcs
<1>8. ReplacedSound' BY <1>1 DEF ReplacedSound, AwaitPcs
<1>9. SlotsSound'
  <2>1. \A d \in Conns : ~BeingReleased(d)' /\ ~BeingReleased(d)
    BY <1>1 DEF BeingReleased, AwaitPcs
  <2>2. \A d \in Conns : d # c => (Current(d)' <=> Current(d)) BY <1>2 DEF Current
  <2> QED
    BY <1>1, <1>2, <2>1, <2>2 DEF SessionsIInv, SlotsSound, Reserved, Serving
<1>10. CapSound'
  <2>1. Holders' \subseteq Holders BY <1>2 DEF Holders, SessionsIInv, TypeOK
  <2> QED BY <2>1, FewerHolders DEF SessionsIInv
<1>11. TablesSound' BY <1>1, <1>2 DEF SessionsIInv, TablesSound, AwaitPcs
<1>12. LowSound'
  <2>1. \A v \in Users : Low(clients[v])' = Low(clients[v])
    BY <1>2, <1>3 DEF Low, LowId, SessionsIInv, TypeOK
  <2> QED BY <2>1 DEF SessionsIInv, LowSound, LowUsers
<1>13. IndexSound'
  BY <1>1, <1>2, <1>3 DEF SessionsIInv, TypeOK, IndexSound, AwaitPcs
<1>14. ContestSound' BY <1>1 DEF ContestSound, AwaitPcs
<1> QED
  BY <1>4, <1>5, <1>6, <1>7, <1>8, <1>9, <1>10, <1>11, <1>12, <1>13, <1>14 DEF SessionsIInv

LEMMA Closes ==
  ASSUME OneThread, SessionsIInv, NEW c \in Conns,
         ProbeAlive(c) \/ ServerFull(c) \/ RefusalSent(c) \/ EndTask(c)
  PROVE  SessionsIInv'
<1>1. pc[c] \in Early \cup {"endTask"} => slots = slots \ {c}
  BY DEF SessionsIInv, SlotsSound, Early, Reserved, Serving
<1>2. CASE ProbeAlive(c)
  <2>1. /\ pc[c] = "probe" /\ Close(c, "probe")
        /\ UNCHANGED <<clients, index, tables, lowid, slots, sources, probing>>
    BY <1>2 DEF ProbeAlive
  <2>2. user[c] \in Users /\ addr[c] \in Addrs BY <2>1 DEF SessionsIInv, Identified
  <2>3. lost' \subseteq Users \X Addrs
    BY <1>2, <2>2 DEF ProbeAlive, SessionsIInv, TypeOK
  <2> QED BY <1>1, <2>1, <2>3, CloseKeeps DEF Early
<1>3. CASE ServerFull(c)
  <2>1. /\ pc[c] = "try" /\ Close(c, "try")
        /\ UNCHANGED <<clients, index, tables, lowid, slots, sources, contest>>
    BY <1>3 DEF ServerFull, Close, Goto
  <2> QED BY <1>1, <2>1, CloseKeeps DEF Early, contest, SessionsIInv, TypeOK
<1>4. CASE RefusalSent(c)
  BY <1>4, CloseKeeps DEF RefusalSent, contest, SessionsIInv, TypeOK
<1>5. CASE EndTask(c)
  <2>1. /\ pc[c] = "endTask" /\ Close(c, "endTask")
        /\ UNCHANGED <<clients, index, tables, lowid, slots, sources, contest>>
    BY <1>5 DEF EndTask, Close, Goto
  <2> QED BY <1>1, <2>1, CloseKeeps DEF contest, SessionsIInv, TypeOK
<1> QED BY <1>2, <1>3, <1>4, <1>5

-----------------------------------------------------------------------------
(* A slot is reserved: there is room, or the user holds one already.         *)
LEMMA ReserveKeeps ==
  ASSUME OneThread, SessionsIInv, NEW c \in Conns, ForceReserve(c) \/ TryReserve(c)
  PROVE  SessionsIInv'
<1>1. /\ pc[c] \in {"force", "try"} /\ pc'[c] = "assign" /\ pc' = [pc EXCEPT ![c] = "assign"]
      /\ pc[c] = "try" => HasRoom
      /\ \A d \in Conns : d # c => pc[d] \in AwaitPcs /\ pc'[d] = pc[d]
  BY Alone DEF SessionsIInv, ForceReserve, TryReserve, Goto
<1>2. /\ slots' = slots \cup {c}
      /\ UNCHANGED <<user, addr, id, prev, clients, index, tables, lowid, shadowed, sources,
                     probing, lost>>
  BY DEF ForceReserve, TryReserve, login, registry, contest
<1>3. TypeOK' BY <1>1, <1>2 DEF SessionsIInv, TypeOK, Pcs, AwaitPcs
<1>4. OneRuns' BY <1>1 DEF OneRuns, AwaitPcs
<1>5. Identified' BY <1>1, <1>2 DEF SessionsIInv, Identified, Early
<1>6. MapSound'
  BY <1>1, <1>2
  DEF SessionsIInv, TypeOK, MapSound, Unmapped, InMap, Serving, AwaitPcs
<1>7. ReplacedSound' BY <1>1 DEF ReplacedSound, AwaitPcs
<1>8. SlotsSound'
  <2>1. \A d \in Conns : ~BeingReleased(d)' /\ ~BeingReleased(d)
    BY <1>1 DEF BeingReleased, AwaitPcs
  <2>2. \A d \in Conns : Current(d)' <=> Current(d) BY <1>2 DEF Current
  <2> QED
    BY <1>1, <1>2, <2>1, <2>2 DEF SessionsIInv, SlotsSound, Reserved, Serving
<1>9. CapSound'
  <2>1. Holders' = Holders \cup {user[c]} BY <1>2 DEF Holders
  <2>2. CASE pc[c] = "force"
    <3> DEFINE d == clients[user[c]]
    <3>1. user[c] \in Users /\ d # NoConn
      BY <2>2 DEF SessionsIInv, Identified, MapSound
    <3>2. d \in Conns /\ user[d] = user[c] /\ pc[d] \in InMap
      BY <3>1 DEF SessionsIInv, TypeOK, MapSound
    <3>3. pc[d] \in Serving
      BY <3>2, <1>1, <2>2 DEF InMap, Serving, AwaitPcs
    <3>4. d \in slots BY <3>2, <3>3 DEF SessionsIInv, SlotsSound, Current
    <3>5. Holders' = Holders BY <2>1, <3>2, <3>4 DEF Holders
    <3> QED BY <3>5 DEF SessionsIInv, CapSound
  <2>3. CASE pc[c] = "try"
    <3>1. /\ IsFiniteSet(Holders) /\ Cardinality(Holders) \in Nat /\ Cardinality(slots) \in Nat
          /\ Cardinality(Holders) <= Cardinality(slots)
      BY HoldersFinite DEF SessionsIInv
    <3>2. Cardinality(Holders') \in Nat /\ Cardinality(Holders') <= Cardinality(Holders) + 1
      <4>1. /\ IsFiniteSet(Holders \cup {user[c]})
            /\ Cardinality(Holders \cup {user[c]}) =
                 IF user[c] \in Holders THEN Cardinality(Holders) ELSE Cardinality(Holders) + 1
        BY <3>1, FS_AddElement
      <4> QED BY <2>1, <3>1, <4>1
    <3>3. MaxClients \in Nat BY SessionsAssumption
    <3> QED BY <1>1, <2>3, <3>1, <3>2, <3>3 DEF HasRoom, CapSound
  <2> QED BY <1>1, <2>2, <2>3
<1>10. TablesSound' BY <1>1, <1>2 DEF SessionsIInv, TablesSound, AwaitPcs
<1>11. LowSound' BY <1>2 DEF SessionsIInv, LowSound, LowUsers, Low, LowId
<1>12. IndexSound' BY <1>1, <1>2 DEF SessionsIInv, TypeOK, IndexSound, AwaitPcs
<1>13. ContestSound' BY <1>1 DEF ContestSound, AwaitPcs
<1> QED
  BY <1>3, <1>4, <1>5, <1>6, <1>7, <1>8, <1>9, <1>10, <1>11, <1>12, <1>13 DEF SessionsIInv

(* handle_login gives the id; the session is not in the map yet.             *)
LEMMA AssignKeeps ==
  ASSUME OneThread, SessionsIInv, NEW c \in Conns, AssignId(c)
  PROVE  SessionsIInv'
<1>1. /\ pc[c] = "assign" /\ pc'[c] = "recheck" /\ pc' = [pc EXCEPT ![c] = "recheck"]
      /\ \A d \in Conns : d # c => pc[d] \in AwaitPcs /\ pc'[d] = pc[d]
  BY Alone DEF SessionsIInv, AssignId, Goto
<1>2. addr[c] \in Addrs BY <1>1 DEF SessionsIInv, Identified
<1>3. /\ id' \in [Conns -> Ids \cup {NoId}] /\ id'[c] \in Ids
      /\ \A d \in Conns : d # c => id'[d] = id[d]
  BY <1>2 DEF AssignId, SessionsIInv, TypeOK, Ids
<1>4. UNCHANGED <<user, addr, prev, clients, index, tables, lowid, shadowed, slots, sources,
                  probing, lost>>
  BY DEF AssignId, registry, contest
<1>5. \A v \in Users : clients[v] # c
  BY <1>1, SessionsAssumption DEF SessionsIInv, MapSound, InMap, Serving
<1>6. TypeOK' BY <1>1, <1>3, <1>4 DEF SessionsIInv, TypeOK, Pcs, LoginPcs
<1>7. OneRuns' BY <1>1 DEF OneRuns, AwaitPcs
<1>8. Identified' BY <1>1, <1>3, <1>4 DEF SessionsIInv, Identified, Early
<1>9. MapSound'
  BY <1>1, <1>4
  DEF SessionsIInv, TypeOK, MapSound, Unmapped, InMap, Serving, AwaitPcs
<1>10. ReplacedSound' BY <1>1 DEF ReplacedSound, AwaitPcs
<1>11. SlotsSound'
  <2>1. \A d \in Conns : ~BeingReleased(d)' /\ ~BeingReleased(d)
    BY <1>1 DEF BeingReleased, AwaitPcs
  <2>2. \A d \in Conns : Current(d)' <=> Current(d) BY <1>4 DEF Current
  <2> QED
    BY <1>1, <1>4, <2>1, <2>2 DEF SessionsIInv, SlotsSound, Reserved, Serving
<1>12. CapSound' BY <1>4 DEF SessionsIInv, CapSound, Holders
<1>13. TablesSound' BY <1>1, <1>4 DEF SessionsIInv, TablesSound, AwaitPcs
<1>14. LowSound'
  <2>1. \A v \in Users : Low(clients[v])' = Low(clients[v])
    BY <1>3, <1>4, <1>5 DEF Low, LowId, SessionsIInv, TypeOK
  <2> QED BY <1>4, <2>1 DEF SessionsIInv, LowSound, LowUsers
<1>15. IndexSound'
  BY <1>1, <1>3, <1>4, <1>5 DEF SessionsIInv, TypeOK, IndexSound, AwaitPcs
<1>16. ContestSound' BY <1>1 DEF ContestSound, AwaitPcs
<1> QED
  BY <1>6, <1>7, <1>8, <1>9, <1>10, <1>11, <1>12, <1>13, <1>14, <1>15, <1>16 DEF SessionsIInv

-----------------------------------------------------------------------------
(* Registration.  The id first: a session of another user that had it is no  *)
(* longer reachable by it, and the history says so.                          *)
LEMMA IndexKeeps ==
  ASSUME OneThread, SessionsIInv, NEW c \in Conns, IndexClientId(c)
  PROVE  SessionsIInv'
<1>1. /\ pc[c] = "index" /\ pc'[c] = "tables" /\ pc' = [pc EXCEPT ![c] = "tables"]
      /\ \A d \in Conns : d # c => pc[d] \in AwaitPcs /\ pc'[d] = pc[d]
  BY Alone DEF SessionsIInv, IndexClientId, Goto
<1>2. /\ index' = [index EXCEPT ![id[c]] = user[c]]
      /\ shadowed' = shadowed \cup {d \in Conns : id[d] = id[c] /\ user[d] # user[c]}
      /\ UNCHANGED <<user, addr, id, prev, clients, tables, lowid, slots, sources, probing, lost>>
  BY DEF IndexClientId, login, contest
<1>3. user[c] \in Users /\ id[c] \in Ids
  BY <1>1 DEF SessionsIInv, Identified, Early
<1>4. TypeOK' BY <1>1, <1>2, <1>3 DEF SessionsIInv, TypeOK, Pcs, LoginPcs
<1>5. OneRuns' BY <1>1 DEF OneRuns, AwaitPcs
<1>6. Identified' BY <1>1, <1>2 DEF SessionsIInv, Identified, Early
<1>7. MapSound'
  BY <1>1, <1>2
  DEF SessionsIInv, TypeOK, MapSound, Unmapped, InMap, Serving, AwaitPcs
<1>8. ReplacedSound' BY <1>1 DEF ReplacedSound, AwaitPcs
<1>9. SlotsSound'
  <2>1. \A d \in Conns : ~BeingReleased(d)' /\ ~BeingReleased(d)
    BY <1>1 DEF BeingReleased, AwaitPcs
  <2>2. \A d \in Conns : Current(d)' <=> Current(d) BY <1>2 DEF Current
  <2> QED
    BY <1>1, <1>2, <2>1, <2>2 DEF SessionsIInv, SlotsSound, Reserved, Serving
<1>10. CapSound' BY <1>2 DEF SessionsIInv, CapSound, Holders
<1>11. TablesSound' BY <1>1, <1>2 DEF SessionsIInv, TablesSound, AwaitPcs
<1>12. LowSound' BY <1>2 DEF SessionsIInv, LowSound, LowUsers, Low, LowId
<1>13. IndexSound'
  <2>1. index'[id[c]] = user[c] /\ \A i \in Ids : i # id[c] => index'[i] = index[i]
    BY <1>2, <1>3 DEF SessionsIInv, TypeOK
  <2>2. \A v \in Users : clients[v] # NoConn /\ clients[v] \notin shadowed' =>
          index'[id[clients[v]]] = v
    <3> SUFFICES ASSUME NEW v \in Users, clients[v] # NoConn, clients[v] \notin shadowed'
                 PROVE  index'[id[clients[v]]] = v
      OBVIOUS
    <3>1. clients[v] \in Conns /\ user[clients[v]] = v /\ pc[clients[v]] \in InMap
      BY DEF SessionsIInv, TypeOK, MapSound
    <3>2. id[clients[v]] \in Ids
      BY <3>1 DEF SessionsIInv, Identified, InMap, Serving, Early
    <3>3. CASE id[clients[v]] = id[c] BY <1>2, <2>1, <3>1, <3>3
    <3>4. CASE id[clients[v]] # id[c]
      BY <1>2, <2>1, <3>2, <3>4 DEF SessionsIInv, IndexSound
    <3> QED BY <3>3, <3>4
  <2> QED BY <1>1, <1>2, <2>1, <2>2 DEF IndexSound, AwaitPcs
<1>14. ContestSound'
  <2>1. \A d \in Conns : IsAlive(d)' <=> IsAlive(d) BY <1>1 DEF IsAlive
  <2>2. Contested(user[c], addr[c])' <=> Contested(user[c], addr[c])
    BY <1>2, <1>3, <2>1 DEF Contested, MayReplace, SessionsIInv, TypeOK
  <2> QED BY <1>1, <1>2, <2>2 DEF SessionsIInv, ContestSound, AwaitPcs
<1> QED
  BY <1>4, <1>5, <1>6, <1>7, <1>8, <1>9, <1>10, <1>11, <1>12, <1>13, <1>14 DEF SessionsIInv

(* Then the side tables. *)
LEMMA TablesKeeps ==
  ASSUME OneThread, SessionsIInv, NEW c \in Conns, WriteTables(c)
  PROVE  SessionsIInv'
<1>1. /\ pc[c] = "tables" /\ pc'[c] = "insert" /\ pc' = [pc EXCEPT ![c] = "insert"]
      /\ \A d \in Conns : d # c => pc[d] \in AwaitPcs /\ pc'[d] = pc[d]
  BY Alone DEF SessionsIInv, WriteTables, Goto
<1>2. /\ tables' = [tables EXCEPT ![user[c]] = c]
      /\ UNCHANGED <<user, addr, id, prev, clients, index, lowid, shadowed, slots, sources,
                     probing, lost>>
  BY DEF WriteTables, login, contest
<1>3. user[c] \in Users BY <1>1 DEF SessionsIInv, Identified
<1>4. TypeOK' BY <1>1, <1>2, <1>3 DEF SessionsIInv, TypeOK, Pcs, LoginPcs
<1>5. OneRuns' BY <1>1 DEF OneRuns, AwaitPcs
<1>6. Identified' BY <1>1, <1>2 DEF SessionsIInv, Identified, Early
<1>7. MapSound'
  BY <1>1, <1>2
  DEF SessionsIInv, TypeOK, MapSound, Unmapped, InMap, Serving, AwaitPcs
<1>8. ReplacedSound' BY <1>1 DEF ReplacedSound, AwaitPcs
<1>9. SlotsSound'
  <2>1. \A d \in Conns : ~BeingReleased(d)' /\ ~BeingReleased(d)
    BY <1>1 DEF BeingReleased, AwaitPcs
  <2>2. \A d \in Conns : Current(d)' <=> Current(d) BY <1>2 DEF Current
  <2> QED
    BY <1>1, <1>2, <2>1, <2>2 DEF SessionsIInv, SlotsSound, Reserved, Serving
<1>10. CapSound' BY <1>2 DEF SessionsIInv, CapSound, Holders
<1>11. TablesSound'
  BY <1>1, <1>2, <1>3 DEF SessionsIInv, TypeOK, TablesSound, AwaitPcs
<1>12. LowSound' BY <1>2 DEF SessionsIInv, LowSound, LowUsers, Low, LowId
<1>13. IndexSound' BY <1>1, <1>2 DEF SessionsIInv, IndexSound, AwaitPcs
<1>14. ContestSound'
  <2>1. \A d \in Conns : IsAlive(d)' <=> IsAlive(d) BY <1>1 DEF IsAlive
  <2>2. Contested(user[c], addr[c])' <=> Contested(user[c], addr[c])
    BY <1>2, <1>3, <2>1 DEF Contested, MayReplace, SessionsIInv, TypeOK
  <2> QED BY <1>1, <1>2, <2>2 DEF SessionsIInv, ContestSound, AwaitPcs
<1> QED
  BY <1>4, <1>5, <1>6, <1>7, <1>8, <1>9, <1>10, <1>11, <1>12, <1>13, <1>14 DEF SessionsIInv

-----------------------------------------------------------------------------
(* The LowID users are finitely many, and the count follows one of them.     *)
LEMMA LowUsersFinite ==
  ASSUME TypeOK, MapSound
  PROVE  IsFiniteSet(LowUsers)
<1> DEFINE f == [c \in Conns |-> user[c]]
           T == {user[c] : c \in Conns}
<1>1. f \in Surjection(Conns, T) BY DEF Surjection
<1>2. LowUsers \subseteq T
  <2> SUFFICES ASSUME NEW u \in LowUsers PROVE u \in T OBVIOUS
  <2>1. u \in Users /\ clients[u] # NoConn BY DEF LowUsers, Low
  <2>2. clients[u] \in Conns /\ user[clients[u]] = u BY <2>1 DEF TypeOK, MapSound
  <2> QED BY <2>2
<1> HIDE DEF f, T
<1>3. IsFiniteSet(T) BY <1>1, FS_Surjection, SessionsAssumption
<1> QED BY <1>2, <1>3, FS_Subset

LEMMA LowMoves ==
  ASSUME SessionsIInv, NEW u \in Users,
         \A v \in Users \ {u} : Low(clients[v])' = Low(clients[v]),
         lowid' = lowid - Low(clients[u]) + Low(clients[u])'
  PROVE  LowSound' /\ lowid' \in Nat
<1> DEFINE Rest == LowUsers \ {u}
<1>1. /\ Low(clients[u]) \in {0, 1} /\ Low(clients[u])' \in {0, 1} BY DEF Low
<1>2. LowUsers = IF Low(clients[u]) = 1 THEN Rest \cup {u} ELSE Rest BY DEF LowUsers
<1>3. LowUsers' = IF Low(clients[u])' = 1 THEN Rest \cup {u} ELSE Rest BY DEF LowUsers
<1>4. IsFiniteSet(LowUsers) BY LowUsersFinite DEF SessionsIInv
<1>5. u \notin Rest OBVIOUS
<1> HIDE DEF Rest
<1>6. IsFiniteSet(Rest) BY <1>2, <1>4, FS_Subset
<1>7. Cardinality(Rest) \in Nat /\ Cardinality(Rest \cup {u}) = Cardinality(Rest) + 1
  BY <1>5, <1>6, FS_AddElement, FS_CardinalityType
<1>8. lowid = Cardinality(Rest) + Low(clients[u])
  BY <1>1, <1>2, <1>7 DEF SessionsIInv, LowSound
<1>9. Cardinality(LowUsers') = Cardinality(Rest) + Low(clients[u])'
  BY <1>1, <1>3, <1>7
<1> QED BY <1>1, <1>7, <1>8, <1>9 DEF LowSound

-----------------------------------------------------------------------------
(* The session enters the map and takes the place of the one it found. *)
LEMMA InsertKeeps ==
  ASSUME OneThread, SessionsIInv, NEW c \in Conns, InsertClient(c)
  PROVE  SessionsIInv'
<1> DEFINE u == user[c]
           p == clients[u]
<1>1. /\ pc[c] = "insert" /\ pc'[c] = "account" /\ pc' = [pc EXCEPT ![c] = "account"]
      /\ \A d \in Conns : d # c => pc[d] \in AwaitPcs /\ pc'[d] = pc[d]
  BY Alone DEF SessionsIInv, InsertClient, Goto
<1>2. /\ clients' = [clients EXCEPT ![u] = c] /\ prev' = [prev EXCEPT ![c] = p]
      /\ lowid' = lowid - Low(p) + Low(c)
      /\ UNCHANGED <<user, addr, id, index, tables, shadowed, slots, sources, probing, lost>>
  BY DEF InsertClient, contest
<1>3. u \in Users BY <1>1 DEF SessionsIInv, Identified
<1>4. /\ clients'[u] = c /\ \A v \in Users : v # u => clients'[v] = clients[v]
      /\ prev'[c] = p /\ \A d \in Conns : d # c => prev'[d] = prev[d]
  BY <1>2, <1>3 DEF SessionsIInv, TypeOK
<1>5. p # NoConn => p \in Conns /\ user[p] = u /\ pc[p] \in Served /\ p # c
  BY <1>1, <1>3 DEF SessionsIInv, TypeOK, MapSound, InMap, Serving, Served, AwaitPcs
<1>6. LowSound' /\ lowid' \in Nat
  <2>1. Low(clients[u])' = Low(c) BY <1>2, <1>4 DEF Low, LowId
  <2>2. \A v \in Users \ {u} : Low(clients[v])' = Low(clients[v])
    BY <1>2, <1>4 DEF Low, LowId
  <2> QED BY <1>2, <1>3, <2>1, <2>2, LowMoves
<1>7. TypeOK'
  BY <1>1, <1>2, <1>3, <1>6 DEF SessionsIInv, TypeOK, Pcs, LoginPcs
<1>8. OneRuns' BY <1>1 DEF OneRuns, AwaitPcs
<1>9. Identified' BY <1>1, <1>2 DEF SessionsIInv, Identified, Early
<1>10. MapSound'
  <2>1. \A v \in Users : v # u /\ clients[v] # NoConn =>
          clients[v] \in Conns /\ clients[v] # c
    BY <1>1 DEF SessionsIInv, TypeOK, MapSound, InMap, Serving
  <2>2. \A v \in Users : clients'[v] # NoConn =>
          user'[clients'[v]] = v /\ pc'[clients'[v]] \in InMap
    BY <1>1, <1>2, <1>4, <2>1 DEF SessionsIInv, MapSound, InMap
  <2> QED BY <1>1, <1>2, <1>4, <2>2 DEF MapSound, Unmapped, AwaitPcs
<1>11. ReplacedSound'
  BY <1>1, <1>2, <1>4, <1>5 DEF ReplacedSound, Served, AwaitPcs
<1>12. SlotsSound'
  <2>1. \A d \in Conns : ~BeingReleased(d) /\ (BeingReleased(d)' <=> d = p)
    BY <1>1, <1>4 DEF BeingReleased, AwaitPcs
  <2>2. \A d \in Conns : d # c /\ pc[d] # "closed" => (Current(d) <=> (Current(d)' \/ d = p))
    <3> SUFFICES ASSUME NEW d \in Conns, d # c, pc[d] # "closed"
                 PROVE  Current(d) <=> (Current(d)' \/ d = p)
      OBVIOUS
    <3>1. user[d] \in Users BY DEF SessionsIInv, Identified
    <3>2. d = p => user[d] = u BY <1>5, SessionsAssumption
    <3> QED BY <1>2, <1>4, <3>1, <3>2 DEF Current
  <2>3. \A d \in Conns : d = p => ~Current(d)' BY <1>2, <1>4, <1>5, SessionsAssumption DEF Current
  <2> QED
    BY <1>1, <1>2, <1>5, <2>1, <2>2, <2>3
    DEF SessionsIInv, SlotsSound, Reserved, Serving, Served
<1>13. CapSound' BY <1>2 DEF SessionsIInv, CapSound, Holders
<1>14. TablesSound'
  BY <1>1, <1>2, <1>3, <1>4 DEF SessionsIInv, TablesSound, AwaitPcs
<1>15. IndexSound'
  BY <1>1, <1>2, <1>3, <1>4 DEF SessionsIInv, IndexSound, AwaitPcs
<1>16. ContestSound' BY <1>1 DEF ContestSound, AwaitPcs
<1> QED
  BY <1>6, <1>7, <1>8, <1>9, <1>10, <1>11, <1>12, <1>13, <1>14, <1>15, <1>16 DEF SessionsIInv

(* The replaced session gives its slot back. *)
LEMMA ReleaseKeeps ==
  ASSUME OneThread, SessionsIInv, NEW c \in Conns, ReleaseReplaced(c)
  PROVE  SessionsIInv'
<1>1. /\ pc[c] = "account" /\ pc'[c] = "list" /\ pc' = [pc EXCEPT ![c] = "list"]
      /\ \A d \in Conns : d # c => pc[d] \in AwaitPcs /\ pc'[d] = pc[d]
  BY Alone DEF SessionsIInv, ReleaseReplaced, Goto
<1>2. /\ slots' = slots \ {prev[c]} /\ prev' = [prev EXCEPT ![c] = NoConn]
      /\ UNCHANGED <<user, addr, id, clients, index, tables, lowid, shadowed, sources, probing,
                     lost>>
  BY DEF ReleaseReplaced, registry, contest
<1>3. clients[user[c]] = c BY <1>1 DEF SessionsIInv, MapSound
<1>4. prev[c] # NoConn => pc[prev[c]] \in Served /\ user[prev[c]] = user[c]
  BY <1>1 DEF SessionsIInv, ReplacedSound
<1>5. TypeOK' BY <1>1, <1>2 DEF SessionsIInv, TypeOK, Pcs, LoginPcs
<1>6. OneRuns' BY <1>1 DEF OneRuns, AwaitPcs
<1>7. Identified' BY <1>1, <1>2 DEF SessionsIInv, Identified, Early
<1>8. MapSound'
  BY <1>1, <1>2
  DEF SessionsIInv, TypeOK, MapSound, Unmapped, InMap, Serving, AwaitPcs
<1>9. ReplacedSound' BY <1>1 DEF ReplacedSound, AwaitPcs
<1>10. SlotsSound'
  <2>1. \A d \in Conns : ~BeingReleased(d)' /\ (BeingReleased(d) <=> d = prev[c])
    BY <1>1 DEF BeingReleased, AwaitPcs
  <2>2. \A d \in Conns : Current(d)' <=> Current(d) BY <1>2 DEF Current
  <2>3. Current(c) /\ c # prev[c]
    BY <1>1, <1>3, <1>4, SessionsAssumption DEF Current, Served
  <2>4. \A d \in Conns : d = prev[c] => ~Current(d)
    BY <1>3, <1>4, <2>3, SessionsAssumption DEF Current
  <2>5. \A d \in Conns : d = prev[c] => pc[d] \in Served BY <1>4, SessionsAssumption
  <2>6. c \in slots' BY <1>1, <1>2, <2>3 DEF SessionsIInv, SlotsSound
  <2> DEFINE Holds(d) == \/ pc[d] \in Reserved \cup {"account"}
                         \/ pc[d] \in Serving \cup {"endSlot"} /\ Current(d)
  <2>7. ASSUME NEW d \in Conns, d # c PROVE d \in slots' <=> Holds(d)
    <3>1. CASE d = prev[c]
      BY <1>2, <2>4, <2>5, <3>1 DEF Served, Reserved
    <3>2. CASE d # prev[c]
      BY <1>2, <2>1, <3>2 DEF SessionsIInv, SlotsSound
    <3> QED BY <3>1, <3>2
  <2> SUFFICES ASSUME NEW d \in Conns
               PROVE  d \in slots' <=>
                        \/ pc'[d] \in Reserved \cup {"account"}
                        \/ pc'[d] \in Serving \cup {"endSlot"} /\ (Current(d)' \/ BeingReleased(d)')
    BY DEF SlotsSound
  <2>8. CASE d = c BY <1>1, <2>2, <2>3, <2>6, <2>8 DEF Serving
  <2>9. CASE d # c BY <1>1, <2>1, <2>2, <2>7, <2>9
  <2> QED BY <2>8, <2>9
<1>11. CapSound'
  <2>1. Holders' \subseteq Holders BY <1>2 DEF Holders
  <2> QED BY <2>1, FewerHolders DEF SessionsIInv
<1>12. TablesSound' BY <1>1, <1>2 DEF SessionsIInv, TablesSound, AwaitPcs
<1>13. LowSound' BY <1>2 DEF SessionsIInv, LowSound, LowUsers, Low, LowId
<1>14. IndexSound' BY <1>1, <1>2 DEF SessionsIInv, IndexSound, AwaitPcs
<1>15. ContestSound' BY <1>1 DEF ContestSound, AwaitPcs
<1> QED
  BY <1>5, <1>6, <1>7, <1>8, <1>9, <1>10, <1>11, <1>12, <1>13, <1>14, <1>15 DEF SessionsIInv

-----------------------------------------------------------------------------
(* The end of a session: its slot, then its entry. *)
LEMMA EndSlotKeeps ==
  ASSUME OneThread, SessionsIInv, NEW c \in Conns, EndReleaseSlot(c)
  PROVE  SessionsIInv'
<1>1. /\ pc[c] = "endSlot" /\ pc'[c] = "endEntry" /\ pc' = [pc EXCEPT ![c] = "endEntry"]
      /\ \A d \in Conns : d # c => pc[d] \in AwaitPcs /\ pc'[d] = pc[d]
  BY Alone DEF SessionsIInv, EndReleaseSlot, Goto
<1>2. /\ slots' = slots \ {c}
      /\ UNCHANGED <<user, addr, id, prev, clients, index, tables, lowid, shadowed, sources,
                     probing, lost>>
  BY DEF EndReleaseSlot, login, registry, contest
<1>3. TypeOK' BY <1>1, <1>2 DEF SessionsIInv, TypeOK, Pcs, EndPcs
<1>4. OneRuns' BY <1>1 DEF OneRuns, AwaitPcs
<1>5. Identified' BY <1>1, <1>2 DEF SessionsIInv, Identified, Early
<1>6. MapSound'
  BY <1>1, <1>2
  DEF SessionsIInv, TypeOK, MapSound, Unmapped, InMap, Serving, AwaitPcs
<1>7. ReplacedSound' BY <1>1 DEF ReplacedSound, AwaitPcs
<1>8. SlotsSound'
  <2>1. \A d \in Conns : ~BeingReleased(d)' /\ ~BeingReleased(d)
    BY <1>1 DEF BeingReleased, AwaitPcs
  <2>2. \A d \in Conns : Current(d)' <=> Current(d) BY <1>2 DEF Current
  <2> QED
    BY <1>1, <1>2, <2>1, <2>2 DEF SessionsIInv, SlotsSound, Reserved, Serving
<1>9. CapSound'
  <2>1. Holders' \subseteq Holders BY <1>2 DEF Holders
  <2> QED BY <2>1, FewerHolders DEF SessionsIInv
<1>10. TablesSound' BY <1>1, <1>2 DEF SessionsIInv, TablesSound, AwaitPcs
<1>11. LowSound' BY <1>2 DEF SessionsIInv, LowSound, LowUsers, Low, LowId
<1>12. IndexSound' BY <1>1, <1>2 DEF SessionsIInv, IndexSound, AwaitPcs
<1>13. ContestSound' BY <1>1 DEF ContestSound, AwaitPcs
<1> QED
  BY <1>3, <1>4, <1>5, <1>6, <1>7, <1>8, <1>9, <1>10, <1>11, <1>12, <1>13 DEF SessionsIInv

LEMMA EndEntryKeeps ==
  ASSUME OneThread, SessionsIInv, NEW c \in Conns, EndRemoveEntry(c)
  PROVE  SessionsIInv'
<1> DEFINE u == user[c]
<1>1. /\ pc[c] = "endEntry" /\ pc'[c] = "endTables" /\ pc' = [pc EXCEPT ![c] = "endTables"]
      /\ \A d \in Conns : d # c => pc[d] \in AwaitPcs /\ pc'[d] = pc[d]
  BY Alone DEF SessionsIInv, EndRemoveEntry, Goto
<1>2. /\ clients[u] = c /\ clients' = [clients EXCEPT ![u] = NoConn]
      /\ lowid' = lowid - Low(c)
      /\ UNCHANGED <<user, addr, id, prev, index, tables, shadowed, slots, sources, probing, lost>>
  BY DEF EndRemoveEntry, Current, login, contest
<1>3. u \in Users BY <1>1 DEF SessionsIInv, Identified
<1>4. clients'[u] = NoConn /\ \A v \in Users : v # u => clients'[v] = clients[v]
  BY <1>2, <1>3 DEF SessionsIInv, TypeOK
<1>5. LowSound' /\ lowid' \in Nat
  <2>1. Low(clients[u])' = 0 BY <1>2, <1>4 DEF Low
  <2>2. \A v \in Users \ {u} : Low(clients[v])' = Low(clients[v])
    BY <1>2, <1>4 DEF Low, LowId
  <2>3. lowid \in Nat /\ Low(c) \in {0, 1} BY DEF Low, SessionsIInv, TypeOK
  <2>4. lowid' = lowid - Low(clients[u]) + Low(clients[u])' BY <1>2, <2>1, <2>3
  <2> QED BY <1>2, <1>3, <2>2, <2>4, LowMoves
<1>6. TypeOK' BY <1>1, <1>2, <1>3, <1>5 DEF SessionsIInv, TypeOK, Pcs, EndPcs
<1>7. OneRuns' BY <1>1 DEF OneRuns, AwaitPcs
<1>8. Identified' BY <1>1, <1>2 DEF SessionsIInv, Identified, Early
<1>9. MapSound'
  <2>1. \A v \in Users : v # u /\ clients[v] # NoConn =>
          clients[v] \in Conns /\ clients[v] # c
    BY <1>1, <1>2, <1>3 DEF SessionsIInv, TypeOK, MapSound
  <2>2. \A v \in Users : clients'[v] # NoConn =>
          user'[clients'[v]] = v /\ pc'[clients'[v]] \in InMap
    BY <1>1, <1>2, <1>4, <2>1 DEF SessionsIInv, MapSound
  <2> QED BY <1>1, <1>2, <1>4, <2>2 DEF MapSound, Unmapped, AwaitPcs
<1>10. ReplacedSound' BY <1>1 DEF ReplacedSound, AwaitPcs
<1>11. SlotsSound'
  <2>1. \A d \in Conns : ~BeingReleased(d)' /\ ~BeingReleased(d)
    BY <1>1 DEF BeingReleased, AwaitPcs
  <2>2. \A d \in Conns : d # c /\ pc[d] # "closed" => (Current(d)' <=> Current(d))
    BY <1>2, <1>4, SessionsAssumption DEF Current, SessionsIInv, Identified
  <2> QED
    BY <1>1, <1>2, <2>1, <2>2 DEF SessionsIInv, SlotsSound, Reserved, Serving
<1>12. CapSound' BY <1>2 DEF SessionsIInv, CapSound, Holders
<1>13. TablesSound'
  BY <1>1, <1>2, <1>3, <1>4 DEF SessionsIInv, TablesSound, AwaitPcs
<1>14. IndexSound'
  BY <1>1, <1>2, <1>3, <1>4 DEF SessionsIInv, IndexSound, AwaitPcs
<1>15. ContestSound' BY <1>1 DEF ContestSound, AwaitPcs
<1> QED
  BY <1>5, <1>6, <1>7, <1>8, <1>9, <1>10, <1>11, <1>12, <1>13, <1>14, <1>15 DEF SessionsIInv

(* Steps of a task that has left the map and touch one registry each. *)
EndStepKept(c, p, q) ==
  /\ Goto(c, p, q) /\ <<p, q>> \in {<<"endTables", "endIndex">>, <<"endIndex", "endSources">>,
                                    <<"endSources", "endTask">>, <<"endStale", "endTask">>}
  /\ UNCHANGED <<login, clients, lowid, shadowed, slots, contest>>
  /\ tables' \in [Users -> Conns \cup {NoConn}] /\ index' \in [Ids -> Users \cup {NoUser}]
  /\ sources' \in [Users -> SUBSET Conns]

LEMMA EndStepKeeps ==
  ASSUME OneThread, SessionsIInv, NEW c \in Conns, NEW p, NEW q, EndStepKept(c, p, q),
         \A u \in Users : tables'[u] = clients[u],
         \A u \in Users : clients[u] # NoConn /\ clients[u] \notin shadowed =>
           index'[id[clients[u]]] = index[id[clients[u]]]
  PROVE  SessionsIInv'
<1>1. /\ pc[c] = p /\ pc'[c] = q /\ pc' = [pc EXCEPT ![c] = q]
      /\ \A d \in Conns : d # c => pc[d] \in AwaitPcs /\ pc'[d] = pc[d]
  BY Alone DEF SessionsIInv, EndStepKept, Goto
<1>2. UNCHANGED <<user, addr, id, prev, clients, lowid, shadowed, slots, probing, lost>>
  BY DEF EndStepKept, login, contest
<1>3. /\ p \in {"endTables", "endIndex", "endSources", "endStale"}
      /\ q \in {"endIndex", "endSources", "endTask"}
      /\ q \in Unmapped => p \in Unmapped
  BY DEF EndStepKept, Unmapped
<1>4. TypeOK' BY <1>1, <1>2, <1>3 DEF EndStepKept, SessionsIInv, TypeOK, Pcs, EndPcs
<1>5. OneRuns' BY <1>1 DEF OneRuns, AwaitPcs
<1>6. Identified' BY <1>1, <1>2, <1>3 DEF SessionsIInv, Identified, Early
<1>7. MapSound'
  BY <1>1, <1>2, <1>3 DEF SessionsIInv, TypeOK, MapSound, Unmapped, InMap, Serving, AwaitPcs
<1>8. ReplacedSound' BY <1>1, <1>3 DEF ReplacedSound, AwaitPcs
<1>9. SlotsSound'
  <2>1. \A d \in Conns : ~BeingReleased(d)' /\ ~BeingReleased(d)
    BY <1>1, <1>3 DEF BeingReleased, AwaitPcs
  <2>2. \A d \in Conns : Current(d)' <=> Current(d) BY <1>2 DEF Current
  <2> QED
    BY <1>1, <1>2, <1>3, <2>1, <2>2 DEF SessionsIInv, SlotsSound, Reserved, Serving
<1>10. CapSound' BY <1>2 DEF SessionsIInv, CapSound, Holders
<1>11. TablesSound' BY <1>1, <1>2, <1>3 DEF TablesSound, AwaitPcs
<1>12. LowSound' BY <1>2 DEF SessionsIInv, LowSound, LowUsers, Low, LowId
<1>13. IndexSound' BY <1>1, <1>2, <1>3 DEF SessionsIInv, IndexSound, AwaitPcs
<1>14. ContestSound' BY <1>1, <1>3 DEF ContestSound, AwaitPcs
<1> QED
  BY <1>4, <1>5, <1>6, <1>7, <1>8, <1>9, <1>10, <1>11, <1>12, <1>13, <1>14 DEF SessionsIInv

LEMMA EndSteps ==
  ASSUME OneThread, SessionsIInv, NEW c \in Conns,
         EndClearTables(c) \/ EndUnindex(c) \/ EndRemoveSources(c) \/ EndStaleId(c)
  PROVE  SessionsIInv'
<1>1. TypeOK BY DEF SessionsIInv
<1>2. pc[c] \in {"endTables", "endIndex", "endSources", "endStale"}
  BY DEF EndClearTables, EndUnindex, EndRemoveSources, EndStaleId, Goto
<1>3. user[c] \in Users /\ id[c] \in Ids
  BY <1>2 DEF SessionsIInv, Identified, Early
<1>4. \A d \in Conns : d # c => pc[d] \in AwaitPcs
  BY <1>1, Alone DEF EndClearTables, EndUnindex, EndRemoveSources, EndStaleId
<1>5. pc[c] # "endTables" => \A u \in Users : tables[u] = clients[u]
  BY <1>2, <1>4 DEF SessionsIInv, TablesSound, AwaitPcs
<1>6. \A u \in Users : clients[u] # NoConn => id[clients[u]] \in Ids
  BY <1>1 DEF SessionsIInv, TypeOK, MapSound, Identified, InMap, Serving, Early
<1>7. CASE EndClearTables(c)
  <2>1. pc[c] = "endTables" /\ clients[user[c]] = NoConn
    BY <1>7 DEF EndClearTables, Goto, SessionsIInv, MapSound, Unmapped
  <2>2. \A u \in Users : tables'[u] = clients[u]
    BY <1>1, <1>3, <1>4, <1>7, <2>1
    DEF EndClearTables, SessionsIInv, TypeOK, TablesSound, AwaitPcs
  <2>3. EndStepKept(c, "endTables", "endIndex")
    BY <1>1, <1>7 DEF EndStepKept, EndClearTables, TypeOK
  <2> QED BY <1>7, <2>2, <2>3, EndStepKeeps DEF EndClearTables
<1>8. CASE EndUnindex(c)
  <2>1. pc[c] = "endIndex" /\ clients[user[c]] = NoConn
    BY <1>8 DEF EndUnindex, Goto, SessionsIInv, MapSound, Unmapped
  <2>2. \A u \in Users : clients[u] # NoConn /\ clients[u] \notin shadowed =>
          index'[id[clients[u]]] = index[id[clients[u]]]
    <3> SUFFICES ASSUME NEW u \in Users, clients[u] # NoConn, clients[u] \notin shadowed
                 PROVE  index'[id[clients[u]]] = index[id[clients[u]]]
      OBVIOUS
    <3>1. u # user[c] /\ index[id[clients[u]]] = u
      BY <2>1 DEF SessionsIInv, IndexSound
    <3> QED BY <1>1, <1>3, <1>6, <1>8, <3>1 DEF EndUnindex, Unindex, TypeOK
  <2>3. EndStepKept(c, "endIndex", "endSources")
    BY <1>1, <1>8 DEF EndStepKept, EndUnindex, Unindex, TypeOK
  <2> QED BY <1>5, <1>8, <2>1, <2>2, <2>3, EndStepKeeps DEF EndUnindex
<1>9. CASE EndRemoveSources(c)
  <2>1. pc[c] = "endSources" BY <1>9 DEF EndRemoveSources, Goto
  <2>2. EndStepKept(c, "endSources", "endTask")
    BY <1>1, <1>9 DEF EndStepKept, EndRemoveSources, TypeOK, registry
  <2> QED BY <1>5, <1>9, <2>1, <2>2, EndStepKeeps DEF EndRemoveSources, registry
<1>10. CASE EndStaleId(c)
  <2>1. pc[c] = "endStale" /\ id[clients[user[c]]] # id[c]
    BY <1>10 DEF EndStaleId, Goto, SessionsIInv, IndexSound
  <2>2. EndStepKept(c, "endStale", "endTask")
    BY <1>1, <1>10 DEF EndStepKept, EndStaleId, Unindex, TypeOK
  <2>3. \A u \in Users : clients[u] # NoConn /\ clients[u] \notin shadowed =>
          index'[id[clients[u]]] = index[id[clients[u]]]
    <3> SUFFICES ASSUME NEW u \in Users, clients[u] # NoConn, clients[u] \notin shadowed
                 PROVE  index'[id[clients[u]]] = index[id[clients[u]]]
      OBVIOUS
    <3>1. index[id[clients[u]]] = u /\ (u # user[c] \/ id[clients[u]] # id[c])
      BY <2>1 DEF SessionsIInv, IndexSound
    <3> QED BY <1>1, <1>3, <1>6, <1>10, <3>1 DEF EndStaleId, Unindex, TypeOK
  <2> QED BY <1>5, <1>10, <2>1, <2>2, <2>3, EndStepKeeps DEF EndStaleId
<1> QED BY <1>7, <1>8, <1>9, <1>10

-----------------------------------------------------------------------------
(* Every step keeps the invariant. *)
LEMMA SessionsStep ==
  ASSUME OneThread, SessionsIInv, [Next]_vars
  PROVE  SessionsIInv'
<1>1. ASSUME NEW c \in Conns, LoginStep(c) PROVE SessionsIInv'
  <2>1. CASE ProbeGone(c) \/ ReserveSlot(c) \/ Recheck(c) \/ RecheckRefused(c) \/ Welcome(c)
    BY <2>1, QuietSteps DEF QuietStep
  <2>2. CASE ProbeAlive(c) \/ ServerFull(c) \/ RefusalSent(c) BY <2>2, Closes
  <2>3. CASE ForceReserve(c) \/ TryReserve(c) BY <2>3, ReserveKeeps
  <2>4. CASE AssignId(c) BY <2>4, AssignKeeps
  <2>5. CASE IndexClientId(c) BY <2>5, IndexKeeps
  <2>6. CASE WriteTables(c) BY <2>6, TablesKeeps
  <2>7. CASE InsertClient(c) BY <2>7, InsertKeeps
  <2>8. CASE ReleaseReplaced(c) BY <2>8, ReleaseKeeps
  <2> QED BY <1>1, <2>1, <2>2, <2>3, <2>4, <2>5, <2>6, <2>7, <2>8 DEF LoginStep
<1>2. ASSUME NEW c \in Conns, OfferStep(c) \/ ReplacedIdle(c) PROVE SessionsIInv'
  BY <1>2, QuietSteps DEF QuietStep
<1>3. ASSUME NEW c \in Conns, EndStep(c) PROVE SessionsIInv'
  <2>1. CASE EndReleaseSlot(c) BY <2>1, EndSlotKeeps
  <2>2. CASE EndRemoveEntry(c) BY <2>2, EndEntryKeeps
  <2>3. CASE EndClearTables(c) \/ EndUnindex(c) \/ EndRemoveSources(c) \/ EndStaleId(c)
    BY <2>3, EndSteps
  <2>4. CASE EndNotOurs(c) BY <2>4, QuietSteps DEF QuietStep
  <2>5. CASE EndTask(c) BY <2>5, Closes
  <2> QED BY <1>3, <2>1, <2>2, <2>3, <2>4, <2>5 DEF EndStep
<1>4. ASSUME NEW c \in Conns, PeerStep(c) PROVE SessionsIInv'
  <2>1. ASSUME NEW u \in Users, NEW a \in Addrs, LoginUncontested(c, u, a) \/ LoginProbes(c, u, a)
        PROVE  SessionsIInv'
    BY <2>1, LoginStarts
  <2>2. ASSUME NEW u \in Users, NEW a \in Addrs, LoginRefused(c, u, a) PROVE SessionsIInv'
    BY <2>2, ContestKeeps DEF LoginRefused, SessionsIInv, TypeOK
  <2>3. CASE FrameFenced(c) \/ OfferFrame(c) \/ Disconnect(c)
    BY <2>3, QuietSteps DEF QuietStep
  <2> QED BY <1>4, <2>1, <2>2, <2>3 DEF PeerStep
<1>5. CASE Timer
  <2>1. UNCHANGED <<pc, login, registry, slots, sources>>
    BY <1>5 DEF Timer, ProbeEnds, CooldownEnds, ForgetContender
  <2>2. probing' \in [Users -> {"none", "running", "cooling"}] /\ lost' \subseteq Users \X Addrs
    BY <1>5 DEF Timer, ProbeEnds, CooldownEnds, ForgetContender, SessionsIInv, TypeOK
  <2> QED BY <2>1, <2>2, ContestKeeps
<1>6. CASE UNCHANGED vars
  BY <1>6, ContestKeeps DEF vars, contest, SessionsIInv, TypeOK
<1> QED BY <1>1, <1>2, <1>3, <1>4, <1>5, <1>6 DEF Next, TaskStep

-----------------------------------------------------------------------------
(* What the invariant says when no task is between two awaits. *)
LEMMA OnlineHolds ==
  ASSUME SessionsIInv, NEW u \in Users, clients[u] # NoConn,
         Quiet \/ Online(u)
  PROVE  clients[u] \in slots /\ u \in Holders
<1>1. clients[u] \in Conns /\ user[clients[u]] = u /\ pc[clients[u]] \in InMap
  BY DEF SessionsIInv, TypeOK, MapSound
<1>2. pc[clients[u]] \in Serving \cup {"account"}
  BY <1>1 DEF Quiet, Online, InMap, Serving, AwaitPcs, EndPcs
<1>3. clients[u] \in slots BY <1>1, <1>2 DEF SessionsIInv, SlotsSound, Current
<1> QED BY <1>1, <1>3 DEF Holders

LEMMA SessionsImplied ==
  ASSUME SessionsIInv
  PROVE  SessionInv
<1>1. CapRespected
  <2> DEFINE O == {u \in Users : Online(u)}
  <2>1. O \subseteq Holders BY OnlineHolds DEF Online
  <2>2. IsFiniteSet(Holders) /\ Cardinality(Holders) \in Nat
    BY HoldersFinite DEF SessionsIInv
  <2>3. IsFiniteSet(O) /\ Cardinality(O) <= Cardinality(Holders) BY <2>1, <2>2, FS_Subset
  <2>4. Cardinality(O) \in Nat BY <2>3, FS_CardinalityType
  <2>5. MaxClients \in Nat BY SessionsAssumption
  <2> HIDE DEF O
  <2>6. MaxClients # 0 => Cardinality(O) <= MaxClients
    BY <2>2, <2>3, <2>4, <2>5 DEF SessionsIInv, CapSound
  <2> QED BY <2>6 DEF CapRespected, O
<1>2. OneSlotPerUser
  <2> SUFFICES ASSUME Quiet
               PROVE  /\ \A u \in Users : clients[u] # NoConn => clients[u] \in slots
                      /\ \A c \in slots : \/ pc[c] \in {"assign", "refused"}
                                         \/ \E u \in Users : clients[u] = c
    BY DEF OneSlotPerUser
  <2>1. \A u \in Users : clients[u] # NoConn => clients[u] \in slots BY OnlineHolds
  <2>2. ASSUME NEW c \in slots, pc[c] \notin {"assign", "refused"}
        PROVE  \E u \in Users : clients[u] = c
    <3>1. c \in Conns /\ pc[c] \in AwaitPcs BY DEF Quiet, SessionsIInv, TypeOK
    <3>2. ~BeingReleased(c) BY DEF BeingReleased, Quiet, AwaitPcs
    <3>3. pc[c] \in Serving /\ Current(c)
      BY <2>2, <3>1, <3>2 DEF SessionsIInv, SlotsSound, Reserved, Serving, AwaitPcs
    <3>4. user[c] \in Users BY <3>1, <3>3 DEF SessionsIInv, Identified, Serving
    <3> QED BY <3>3, <3>4 DEF Current
  <2> QED BY <2>1, <2>2
<1>3. TablesOfLiveSession
  BY DEF TablesOfLiveSession, Quiet, SessionsIInv, TablesSound, AwaitPcs
<1>4. LowIdCount BY DEF LowIdCount, SessionsIInv, LowSound, LowUsers
<1>5. Reachable BY DEF Reachable, SessionsIInv, IndexSound
<1> QED BY <1>1, <1>2, <1>3, <1>4, <1>5 DEF SessionsIInv, SessionInv

(* Whatever logins, replacements, probes and late ends are in progress:      *)
(* max_clients is kept, a user holds one slot, its side tables are those of  *)
(* its live session, lowid_count_cached is exact, and the id of a live       *)
(* session resolves to its user unless another took it.                      *)
THEOREM SessionsSound ==
  ASSUME OneThread
  PROVE  Spec => []SessionInv
<1>1. Init => SessionsIInv BY SessionsInit
<1>2. SessionsIInv /\ [Next]_vars => SessionsIInv' BY SessionsStep
<1>3. SessionsIInv => SessionInv BY SessionsImplied
<1> QED BY <1>1, <1>2, <1>3, PTL DEF Spec

-----------------------------------------------------------------------------
(* Who writes the client map, and who writes the sources. *)
LEMMA MapWriters ==
  ASSUME [Next]_vars
  PROVE  \/ UNCHANGED clients
         \/ \E c \in Conns : InsertClient(c) \/ EndRemoveEntry(c)
<1> USE DEF registry
<1>1. ASSUME NEW c \in Conns, LoginStep(c), ~InsertClient(c) PROVE UNCHANGED clients
  BY <1>1
  DEF LoginStep, ProbeGone, ProbeAlive, ReserveSlot, ForceReserve, TryReserve, ServerFull, AssignId,
      Recheck, RecheckRefused, RefusalSent, IndexClientId, WriteTables, ReleaseReplaced, Welcome
<1>2. ASSUME NEW c \in Conns, OfferStep(c) \/ ReplacedIdle(c) PROVE UNCHANGED clients
  BY <1>2
  DEF OfferStep, PacedResume, OfferInline, OfferSpawn, OfferJob, OfferDone, ReplacedIdle
<1>3. ASSUME NEW c \in Conns, EndStep(c), ~EndRemoveEntry(c) PROVE UNCHANGED clients
  BY <1>3
  DEF EndStep, EndReleaseSlot, EndClearTables, EndUnindex, EndRemoveSources, EndNotOurs,
      EndStaleId, EndTask
<1>4. ASSUME NEW c \in Conns, PeerStep(c) PROVE UNCHANGED clients
  BY <1>4
  DEF PeerStep, LoginUncontested, LoginProbes, LoginRefused, FrameFenced, OfferFrame, Disconnect
<1>5. Timer => UNCHANGED clients BY DEF Timer, ProbeEnds, CooldownEnds, ForgetContender
<1>6. UNCHANGED vars => UNCHANGED clients BY DEF vars
<1> QED BY <1>1, <1>2, <1>3, <1>4, <1>5, <1>6 DEF Next, TaskStep

LEMMA SourceWriters ==
  ASSUME [Next]_vars
  PROVE  \/ UNCHANGED sources
         \/ \E c \in Conns : AddSources(c) \/ EndRemoveSources(c)
<1>1. ASSUME NEW c \in Conns, LoginStep(c) PROVE UNCHANGED sources
  BY <1>1
  DEF LoginStep, ProbeGone, ProbeAlive, ReserveSlot, ForceReserve, TryReserve, ServerFull, AssignId,
      Recheck, RecheckRefused, RefusalSent, IndexClientId, WriteTables, InsertClient,
      ReleaseReplaced, Welcome
<1>2. ASSUME NEW c \in Conns, OfferStep(c) \/ ReplacedIdle(c)
      PROVE  UNCHANGED sources \/ AddSources(c)
  BY <1>2
  DEF OfferStep, PacedResume, OfferInline, OfferSpawn, OfferJob, OfferDone, ReplacedIdle
<1>3. ASSUME NEW c \in Conns, EndStep(c), ~EndRemoveSources(c) PROVE UNCHANGED sources
  BY <1>3
  DEF EndStep, EndReleaseSlot, EndRemoveEntry, EndClearTables, EndUnindex, EndNotOurs,
      EndStaleId, EndTask
<1>4. ASSUME NEW c \in Conns, PeerStep(c) PROVE UNCHANGED sources
  BY <1>4
  DEF PeerStep, LoginUncontested, LoginProbes, LoginRefused, FrameFenced, OfferFrame, Disconnect
<1>5. Timer => UNCHANGED sources BY DEF Timer, ProbeEnds, CooldownEnds, ForgetContender
<1>6. UNCHANGED vars => UNCHANGED sources BY DEF vars
<1> QED BY <1>1, <1>2, <1>3, <1>4, <1>5, <1>6 DEF Next, TaskStep

(* A login inserts itself over a session that it may replace. *)
OwnerReplaces ==
  \A u \in Users \ SharedUsers :
    LET p == clients[u] IN
    /\ p # NoConn /\ ~TakeoverFromAny
    /\ clients'[u] \notin {p, NoConn}
    => \/ addr[p] = addr[clients'[u]]
       \/ <<addr[p], addr[clients'[u]]>> \in DualStack

LEMMA OwnerStep ==
  ASSUME SessionsIInv, [Next]_vars
  PROVE  OwnerReplaces
<1> SUFFICES ASSUME NEW u \in Users \ SharedUsers, clients[u] # NoConn, ~TakeoverFromAny,
                    clients'[u] \notin {clients[u], NoConn}
             PROVE  \/ addr[clients[u]] = addr[clients'[u]]
                    \/ <<addr[clients[u]], addr[clients'[u]]>> \in DualStack
  BY DEF OwnerReplaces
<1>1. PICK c \in Conns : InsertClient(c) \/ EndRemoveEntry(c) BY MapWriters
<1>2. CASE InsertClient(c)
  <2>1. pc[c] = "insert" /\ clients' = [clients EXCEPT ![user[c]] = c]
    BY <1>2 DEF InsertClient, Goto
  <2>2. u = user[c] /\ clients'[u] = c BY <2>1 DEF SessionsIInv, TypeOK
  <2>3. ~Contested(u, addr[c]) BY <2>1, <2>2 DEF SessionsIInv, ContestSound
  <2>4. IsAlive(clients[u])
    BY DEF SessionsIInv, MapSound, InMap, Serving, IsAlive
  <2> QED BY <2>2, <2>3, <2>4 DEF Contested, MayReplace
<1>3. CASE EndRemoveEntry(c)
  BY <1>3 DEF EndRemoveEntry, SessionsIInv, TypeOK
<1> QED BY <1>1, <1>2, <1>3

(* A session that ends takes the sources of a user with no session left. *)
SourcesStay ==
  \A u \in Users : \A c \in sources[u] :
    clients[u] = c /\ clients'[u] = c => c \in sources'[u]

LEMMA SourcesStep ==
  ASSUME SessionsIInv, [Next]_vars
  PROVE  SourcesStay
<1> SUFFICES ASSUME NEW u \in Users, NEW c \in sources[u], clients[u] = c
             PROVE  c \in sources'[u]
  BY DEF SourcesStay
<1>1. CASE UNCHANGED sources BY <1>1
<1>2. ASSUME NEW d \in Conns, AddSources(d) PROVE c \in sources'[u]
  BY <1>2 DEF AddSources, SessionsIInv, TypeOK
<1>3. ASSUME NEW d \in Conns, EndRemoveSources(d) PROVE c \in sources'[u]
  <2>1. clients[user[d]] = NoConn
    BY <1>3 DEF EndRemoveSources, Goto, SessionsIInv, MapSound, Unmapped
  <2>2. c \in Conns BY DEF SessionsIInv, TypeOK
  <2>3. u # user[d] BY <2>1, <2>2, SessionsAssumption
  <2> QED BY <1>3, <2>3 DEF EndRemoveSources, SessionsIInv, TypeOK
<1> QED BY <1>1, <1>2, <1>3, SourceWriters

(* A live session of a hash that is not shared is replaced only from its own *)
(* address, although the HighID probe is awaited between the check and the   *)
(* insert; and the files it has published stay while it is the live one,     *)
(* whatever older sessions of its user end meanwhile.                        *)
THEOREM LiveSessionProven ==
  ASSUME OneThread
  PROVE  Spec => LiveSessionKept
<1>1. Init => SessionsIInv BY SessionsInit
<1>2. SessionsIInv /\ [Next]_vars => SessionsIInv' BY SessionsStep
<1>3. SessionsIInv /\ [Next]_vars => OwnerReplaces BY OwnerStep
<1>4. SessionsIInv /\ [Next]_vars => SourcesStay BY SourcesStep
<1>5. Spec => [][OwnerReplaces]_vars BY <1>1, <1>2, <1>3, PTL DEF Spec
<1>6. Spec => [][SourcesStay]_vars BY <1>1, <1>2, <1>4, PTL DEF Spec
<1> QED BY <1>5, <1>6 DEF LiveSessionKept, OnlyOwnerReplaces, LiveSourcesKept, OwnerReplaces, SourcesStay
=============================================================================
