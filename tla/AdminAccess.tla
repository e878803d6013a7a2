----------------------------- MODULE AdminAccess ------------------------------
(***************************************************************************)
(* Who gets into the admin panel: connections and their ceilings, the      *)
(* checks every request passes, password logins with their failure         *)
(* windows and the queue for the hash check, and the sessions.             *)
(***************************************************************************)
EXTENDS Naturals, Sequences, SequencesExt, FiniteSets

CONSTANTS
  Froms,        \* addresses (failure keys); "loop" is loopback
  Tries,        \* login requests in progress, as slots
  MaxFailures, MaxGlobalFailures, Window, MaxQueuedChecks, MaxTracked, MaxSessions, Ttl,
  MaxConns, MaxConnsPerIp,
  MaxTime, MaxTokens     \* bounds: time, sessions ever made

VARIABLES
  aclock,
  perKey,       \* failures.per_key: <<count, start>>, by address
  allRemote,    \* failures.global
  try,          \* per slot: stage, address, whether the password is right
  hashLine,     \* who waits for the check mutex, first the one that has it
  queuedChecks,
  sessions,     \* token -> expiry
  tokens,       \* made so far
  wrong,        \* the wrong answers of the last window; own: not forgiven by a success or a full table
  refused,      \* what the last right password from loopback was told
  acquired, perIpConns  \* connections: permits taken, and per address

vars == <<aclock, perKey, allRemote, try, hashLine, queuedChecks, sessions, tokens, wrong, refused,
          acquired, perIpConns>>

NoTry == [stage |-> "no", from |-> "loop", right |-> FALSE]

TypeOK ==
  /\ aclock \in 0 .. MaxTime /\ tokens \in 0 .. MaxTokens
  /\ DOMAIN perKey \subseteq Froms /\ Cardinality(DOMAIN perKey) <= MaxTracked
  /\ \A t \in Tries : try[t].stage \in {"no", "waiting", "hashing"} /\ try[t].from \in Froms
  /\ Range(hashLine) \subseteq Tries
  /\ Cardinality(DOMAIN sessions) <= MaxSessions
  /\ refused \in {"no", "own", "other"}

Init ==
  /\ aclock = 0 /\ perKey = [a \in {} |-> <<0, 0>>] /\ allRemote = <<0, 0>>
  /\ try = [t \in Tries |-> NoTry] /\ hashLine = <<>> /\ queuedChecks = 0
  /\ sessions = [s \in {} |-> 0] /\ tokens = 0 /\ wrong = <<>> /\ refused = "no"
  /\ acquired = [a \in Froms |-> 0] /\ perIpConns = [a \in {} |-> 0]

-----------------------------------------------------------------------------
Without(f, S) == [x \in DOMAIN f \ S |-> f[x]]
With(f, x, v) == [y \in DOMAIN f \cup {x} |-> IF y = x THEN v ELSE f[y]]
Remote(a) == a # "loop"

OwnLock(a) == a \in DOMAIN perKey /\ perKey[a][1] >= MaxFailures /\ perKey[a][2] + Window > aclock
GlobalLock == allRemote[1] >= MaxGlobalFailures /\ allRemote[2] + Window > aclock

(* Mutant: the server-wide limit holds loopback too. *)
LockedForAll(a) == OwnLock(a) \/ GlobalLock

(* locked_for. *)
Locked(a) == OwnLock(a) \/ (Remote(a) /\ GlobalLock)

Recent(w, now) == w.at + Window > now
Unused == CHOOSE n \in 1 .. Cardinality(DOMAIN wrong) + 1 : n \notin DOMAIN wrong
Forgiven(a, all) ==
  [i \in DOMAIN wrong |-> IF all /\ wrong[i].from = a THEN [wrong[i] EXCEPT !.own = FALSE] ELSE wrong[i]]

(* note_failure: ended windows go, then, in a full table, the oldest. *)
NoteFailure(a) ==
  LET kept == Without(perKey, {b \in DOMAIN perKey : perKey[b][2] + Window <= aclock})
      full == Cardinality(DOMAIN kept) >= MaxTracked /\ a \notin DOMAIN kept
      oldest == CHOOSE b \in DOMAIN kept : \A c \in DOMAIN kept : kept[b][2] <= kept[c][2]
      room == IF full THEN Without(kept, {oldest}) ELSE kept
  IN /\ perKey' = With(room, a, IF a \in DOMAIN room THEN <<room[a][1] + 1, room[a][2]>> ELSE <<1, aclock>>)
     /\ allRemote' = IF ~Remote(a) THEN allRemote
                     ELSE IF allRemote[1] > 0 /\ allRemote[2] + Window > aclock
                     THEN <<allRemote[1] + 1, allRemote[2]>> ELSE <<1, aclock>>
     /\ wrong' = With(Forgiven(IF full THEN oldest ELSE a, full), Unused, [from |-> a, at |-> aclock, own |-> TRUE])

(* Mutant: no session makes room for a new one.                            *)
EvictsNone ==
  /\ tokens < MaxTokens /\ tokens' = tokens + 1
  /\ sessions' = With(sessions, tokens + 1, aclock + Ttl)

(* new_session: ended ones go, then the oldest of a full table. *)
NewSession ==
  LET live == {s \in DOMAIN sessions : sessions[s] > aclock}
      oldest == CHOOSE s \in live : \A r \in live : sessions[s] <= sessions[r]
      kept == IF Cardinality(live) >= MaxSessions THEN live \ {oldest} ELSE live
  IN /\ tokens < MaxTokens /\ tokens' = tokens + 1
     /\ sessions' = With([s \in kept |-> sessions[s]], tokens + 1, aclock + Ttl)

-----------------------------------------------------------------------------
auth == <<perKey, allRemote, sessions, tokens, wrong>>
conns == <<acquired, perIpConns>>
Told(a, right, why) == refused' = IF ~Remote(a) /\ right THEN why ELSE refused

(* login: locked, busy, or in line for the check. *)
Login(t, a, right) ==
  /\ try[t].stage = "no"
  /\ \/ /\ Locked(a) /\ Told(a, right, IF OwnLock(a) THEN "own" ELSE "other")
        /\ UNCHANGED <<try, hashLine, queuedChecks>>
     \/ /\ ~Locked(a) /\ queuedChecks >= MaxQueuedChecks /\ Remote(a)
        /\ UNCHANGED <<try, hashLine, queuedChecks, refused>>
     \/ /\ ~Locked(a) /\ (queuedChecks < MaxQueuedChecks \/ ~Remote(a))
        /\ queuedChecks' = queuedChecks + 1
        /\ try' = [try EXCEPT ![t] = [stage |-> "waiting", from |-> a, right |-> right]]
        /\ hashLine' = Append(hashLine, t) /\ UNCHANGED refused
  /\ UNCHANGED <<aclock, auth, conns>>

Leaves(t) ==
  /\ try' = [try EXCEPT ![t] = NoTry] /\ queuedChecks' = queuedChecks - 1
  /\ \E i \in 1 .. Len(hashLine) : hashLine[i] = t /\ hashLine' = RemoveAt(hashLine, i)

(* Mutant: not looked at again. *)
StartsAnyway(t) ==
  /\ hashLine # <<>> /\ Head(hashLine) = t /\ try[t].stage = "waiting"
  /\ try' = [try EXCEPT ![t].stage = "hashing"] /\ UNCHANGED <<hashLine, queuedChecks, refused>>
  /\ UNCHANGED <<aclock, auth, conns>>

(* The mutex is its: looked at again, then the hash. *)
StartCheck(t) ==
  /\ hashLine # <<>> /\ Head(hashLine) = t /\ try[t].stage = "waiting"
  /\ IF Locked(try[t].from)
     THEN Leaves(t) /\ Told(try[t].from, try[t].right, IF OwnLock(try[t].from) THEN "own" ELSE "other")
     ELSE try' = [try EXCEPT ![t].stage = "hashing"] /\ UNCHANGED <<hashLine, queuedChecks, refused>>
  /\ UNCHANGED <<aclock, auth, conns>>

Answer(t) ==
  LET a == try[t].from IN
  /\ try[t].stage = "hashing" /\ Leaves(t)
  /\ IF try[t].right
     THEN /\ perKey' = Without(perKey, {a}) /\ NewSession
          /\ wrong' = Forgiven(a, TRUE) /\ UNCHANGED allRemote
     ELSE NoteFailure(a) /\ UNCHANGED <<sessions, tokens>>
  /\ UNCHANGED <<aclock, refused, conns>>

(* The client hangs up: the request's future is dropped where it waits,    *)
(* with its place and, if it has it, the mutex.                            *)
HangUp(t) ==
  /\ try[t].stage # "no" /\ Leaves(t)
  /\ UNCHANGED <<aclock, auth, refused, conns>>

Logout(s) ==
  /\ s \in DOMAIN sessions /\ sessions' = Without(sessions, {s})
  /\ UNCHANGED <<aclock, perKey, allRemote, try, hashLine, queuedChecks, tokens, wrong, refused, conns>>

Tick ==
  /\ aclock < MaxTime /\ aclock' = aclock + 1
  /\ wrong' = Without(wrong, {i \in DOMAIN wrong : ~Recent(wrong[i], aclock + 1)})
  /\ UNCHANGED <<try, hashLine, queuedChecks, perKey, allRemote, sessions, tokens, refused, conns>>

-----------------------------------------------------------------------------
(* serve_admin: a permit, then a place of the address; a connection over   *)
(* its share gives the permit back at once.                                *)
Open == perIpConns
HeldBy(a) == IF a \in DOMAIN Open THEN Open[a] ELSE 0
Taken == Cardinality({x \in Froms \X (1 .. MaxConns) : x[2] <= acquired[x[1]]})

Accept(a) ==
  /\ Taken < MaxConns
  /\ IF HeldBy(a) >= MaxConnsPerIp THEN UNCHANGED conns
     ELSE /\ acquired' = [acquired EXCEPT ![a] = @ + 1]
          /\ perIpConns' = With(perIpConns, a, HeldBy(a) + 1)
  /\ UNCHANGED <<aclock, try, hashLine, queuedChecks, auth, refused>>

(* Mutant: the entry goes with the first connection that closes. *)
CloseForgets(a) ==
  /\ acquired[a] > 0 /\ acquired' = [acquired EXCEPT ![a] = @ - 1]
  /\ perIpConns' = Without(perIpConns, {a})
  /\ UNCHANGED <<aclock, try, hashLine, queuedChecks, auth, refused>>

(* Handshake, headers, request or lifetime over: Held is dropped. *)
Close(a) ==
  /\ acquired[a] > 0 /\ acquired' = [acquired EXCEPT ![a] = @ - 1]
  /\ perIpConns' = IF HeldBy(a) = 1 THEN Without(perIpConns, {a}) ELSE With(perIpConns, a, HeldBy(a) - 1)
  /\ UNCHANGED <<aclock, try, hashLine, queuedChecks, auth, refused>>

-----------------------------------------------------------------------------
(* What a browser says of a request, by the page that makes it: one of the *)
(* panel's, one of another site, or one of a site whose name was pointed   *)
(* at the panel; a script says nothing.  Sec-Fetch-Site only over HTTPS or *)
(* loopback; the panel's Referrer-Policy is same-origin.                   *)
Pages == {"own", "foreign", "rebound", "script"}
SecFetchSite(page, trusted) ==
  IF page = "script" \/ ~trusted THEN "absent" ELSE IF page = "foreign" THEN "cross-site" ELSE "same-origin"
OriginHost(page) == CASE page = "script" -> "absent" [] page = "foreign" -> "null" [] OTHER -> page
HostHeader(page) == IF page \in {"own", "rebound"} THEN page ELSE "own"

(* Mutant: a request without Sec-Fetch-Site is let through. *)
OnlyFetchSite(page, trusted) == SecFetchSite(page, trusted) = "cross-site"

CrossSite(page, trusted) ==
  LET fetched == SecFetchSite(page, trusted) IN
  IF fetched # "absent" THEN fetched \notin {"same-origin", "none"}
  ELSE OriginHost(page) # "absent" /\ OriginHost(page) # HostHeader(page)

(* An address, localhost, or a name of admin.tls_names. *)
HostAllowed(page) == HostHeader(page) = "own"

(* guard: does the request reach its handler? *)
Reaches(page, trusted, changes, token) ==
  /\ HostAllowed(page) /\ (changes => ~CrossSite(page, trusted))
  /\ token \in DOMAIN sessions /\ sessions[token] > aclock

-----------------------------------------------------------------------------
Next ==
  \/ \E t \in Tries :
       \/ \E a \in Froms, right \in BOOLEAN : Login(t, a, right)
       \/ StartCheck(t) \/ Answer(t) \/ HangUp(t)
  \/ \E s \in 1 .. MaxTokens : Logout(s)
  \/ \E a \in Froms : Accept(a) \/ Close(a)
  \/ Tick

Spec == Init /\ [][Next]_vars

-----------------------------------------------------------------------------
(* However logins overlap, an address gets wrong answers at most as often  *)
(* as two neighbouring windows allow, and all remote ones together too:    *)
(* those that waited for the hash while others failed are told so.         *)
GuessesBounded ==
  /\ \A a \in Froms : Cardinality({i \in DOMAIN wrong : wrong[i].from = a /\ wrong[i].own}) <= 2 * MaxFailures - 1
  /\ Cardinality({i \in DOMAIN wrong : Remote(wrong[i].from)}) <= 2 * MaxGlobalFailures - 1

(* "Loopback (an SSH tunnel) is never held by it, so the operator always   *)
(* has a way in": the right password from there is refused only for wrong  *)
(* ones from there.                                                        *)
OperatorGetsIn == refused # "other"

(* With the operator's session in the browser, a page of another site      *)
(* changes nothing, over HTTPS or plain HTTP, and the panel's own forms    *)
(* work over both.                                                         *)
OnlyOwnPagesAct ==
  \A s \in DOMAIN sessions, trusted \in BOOLEAN : sessions[s] > aclock =>
    /\ \A page \in {"foreign", "rebound"} : ~Reaches(page, trusted, TRUE, s)
    /\ Reaches("own", trusted, TRUE, s) /\ Reaches("script", trusted, TRUE, s)

(* The queue counter and the connection counts are those of the requests   *)
(* and connections that exist, whenever clients hang up.                   *)
PlacesExact ==
  /\ queuedChecks = Cardinality({t \in Tries : try[t].stage # "no"})
  /\ \A a \in Froms : acquired[a] = HeldBy(a) /\ HeldBy(a) <= MaxConnsPerIp
  /\ Taken <= MaxConns
  /\ \A t \in Tries : try[t].stage = "hashing" => Head(hashLine) = t

(* The panel's door: guesses are bounded however logins overlap, the       *)
(* operator is not locked out with the others, places and connections come *)
(* back, and only the panel's own pages act.                               *)
PanelGuarded ==
  TypeOK /\ GuessesBounded /\ OperatorGetsIn /\ PlacesExact /\ OnlyOwnPagesAct
=============================================================================
