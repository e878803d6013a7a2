------------------------------- MODULE Sockets --------------------------------
(***************************************************************************)
(* An accepted socket from the accept loop to the end of its task: what it *)
(* takes on the way in (a slot of its address, a place among the open      *)
(* sockets, a share of its source's pending logins and a place among all   *)
(* pending logins) and gives back, piece by piece, on the way out.         *)
(*                                                                         *)
(* The two counters are maps without entries for what nobody holds: a      *)
(* release decrements under the entry's lock and removes the entry under   *)
(* the lock taken again.  The accept loop and the tasks run concurrently.  *)
(***************************************************************************)
EXTENDS Integers, Sequences, Functions, FiniteSets

CONSTANTS
  Conns, Sources, Loopback,
  MaxPerIp, MaxOpen, MaxPending, MaxPerSource

VARIABLES
  sock,         \* [at, src, owed]: where the socket is, what it still gives back
  connPerIp, pendingPerSource, \* conn_per_ip and pending_per_source
  openTcp, pendingLogin        \* permits of the two pools in use

vars == <<sock, connPerIp, pendingPerSource, openTcp, pendingLogin>>

None == [at |-> "none", src |-> CHOOSE s \in Sources : TRUE, owed |-> <<>>]
Counts == UNION {[D -> 0 .. Cardinality(Conns)] : D \in SUBSET Sources}
Pieces == {"permit", "share", "shareEntry", "open", "slot", "slotEntry"}

TypeOK ==
  /\ \A c \in Conns :
       /\ sock[c].at \in {"none", "counted", "open", "share", "setup", "login", "in", "ending"}
       /\ sock[c].src \in Sources
       /\ Range(sock[c].owed) \subseteq Pieces
  /\ connPerIp \in Counts /\ pendingPerSource \in Counts
  /\ openTcp \in Int /\ pendingLogin \in Int

Init ==
  /\ sock = [c \in Conns |-> None]
  /\ connPerIp = << >> /\ pendingPerSource = << >>
  /\ openTcp = 0 /\ pendingLogin = 0

-----------------------------------------------------------------------------
Count(map, s) == IF s \in DOMAIN map THEN map[s] ELSE 0
Put(map, s, n) == [x \in DOMAIN map \cup {s} |-> IF x = s THEN n ELSE map[x]]
Without(map, s) == [x \in DOMAIN map \ {s} |-> map[x]]

(* One of them under the entry's lock; without an entry, nothing.          *)
Decremented(map, s) == IF s \in DOMAIN map THEN Put(map, s, map[s] - 1) ELSE map

(* Mutant: the entry goes whatever it holds by now.                        *)
RemovedAnyway(map, s) == Without(map, s)

RemovedAtZero(map, s) == IF s \in DOMAIN map /\ map[s] = 0 THEN Without(map, s) ELSE map

SlotPieces == <<"slot", "slotEntry">>
LoginPieces(s) == IF s \in Loopback THEN <<"permit">> ELSE <<"permit", "share", "shareEntry">>
Move(c, at, owed) == sock' = [sock EXCEPT ![c].at = at, ![c].owed = owed]
Accepting == \E c \in Conns : sock[c].at \in {"counted", "open", "share"}
Settled(c) == sock[c].owed = <<>>

-----------------------------------------------------------------------------
(* The accept loop: one socket at a time.                                  *)
Accept(c, s) ==
  /\ ~Accepting /\ sock[c].at = "none"
  /\ s \in Loopback \/ MaxPerIp = 0 \/ Count(connPerIp, s) < MaxPerIp
  /\ connPerIp' = Put(connPerIp, s, Count(connPerIp, s) + 1)
  /\ sock' = [sock EXCEPT ![c] = [at |-> "counted", src |-> s, owed |-> <<>>]]
  /\ UNCHANGED <<pendingPerSource, openTcp, pendingLogin>>

(* The IP filter, then the places open for any socket.                     *)
TakeOpen(c) ==
  /\ sock[c].at = "counted"
  /\ \/ openTcp < MaxOpen /\ openTcp' = openTcp + 1 /\ Move(c, "open", <<>>)
     \/ UNCHANGED openTcp /\ Move(c, "ending", SlotPieces)
  /\ UNCHANGED <<connPerIp, pendingPerSource, pendingLogin>>

(* try_pending: the source's share first.                                  *)
TakeShare(c) ==
  LET s == sock[c].src IN
  /\ sock[c].at = "open"
  /\ IF s \in Loopback THEN Move(c, "share", <<>>) /\ UNCHANGED pendingPerSource
     ELSE IF Count(pendingPerSource, s) >= MaxPerSource
     THEN /\ pendingPerSource' = RemovedAtZero(Put(pendingPerSource, s, Count(pendingPerSource, s)), s)
          /\ Move(c, "ending", <<"open">> \o SlotPieces)
     ELSE /\ pendingPerSource' = Put(pendingPerSource, s, Count(pendingPerSource, s) + 1)
          /\ Move(c, "share", <<>>)
  /\ UNCHANGED <<connPerIp, openTcp, pendingLogin>>

(* Mutant: "let _ = open_permit" gives the permit back at once.            *)
SpawnDropsOpen(c) ==
  /\ sock[c].at = "share" /\ pendingLogin < MaxPending
  /\ pendingLogin' = pendingLogin + 1 /\ openTcp' = openTcp - 1
  /\ Move(c, "setup", <<>>)
  /\ UNCHANGED <<connPerIp, pendingPerSource>>

(* The task starts, with everything it holds.                              *)
Spawn(c) ==
  /\ sock[c].at = "share" /\ pendingLogin < MaxPending
  /\ pendingLogin' = pendingLogin + 1 /\ Move(c, "setup", <<>>)
  /\ UNCHANGED <<connPerIp, pendingPerSource, openTcp>>

RefusePending(c) ==
  /\ sock[c].at = "share" /\ pendingLogin = MaxPending
  /\ Move(c, "ending", Tail(LoginPieces(sock[c].src)) \o <<"open">> \o SlotPieces)
  /\ UNCHANGED <<connPerIp, pendingPerSource, openTcp, pendingLogin>>

-----------------------------------------------------------------------------
(* make_stream within setup_timeout, then the checks before the first frame. *)
SetUp(c) ==
  /\ sock[c].at = "setup" /\ Move(c, "login", <<>>)
  /\ UNCHANGED <<connPerIp, pendingPerSource, openTcp, pendingLogin>>

(* A login frame is accepted: no longer a pending login.                   *)
Login(c) ==
  /\ sock[c].at = "login" /\ Move(c, "in", LoginPieces(sock[c].src))
  /\ UNCHANGED <<connPerIp, pendingPerSource, openTcp, pendingLogin>>

(* The peer closes, a frame or a handler fails, the login is refused.      *)
End(c) ==
  /\ \/ sock[c].at \in {"setup", "login"}
        /\ Move(c, "ending", LoginPieces(sock[c].src) \o <<"open">> \o SlotPieces)
     \/ sock[c].at = "in" /\ Settled(c) /\ Move(c, "ending", <<"open">> \o SlotPieces)
  /\ UNCHANGED <<connPerIp, pendingPerSource, openTcp, pendingLogin>>

(* Mutant: only the login has a deadline.                                 *)
SetupUnbounded(c) == sock[c].at = "login" /\ End(c)

(* setup_timeout and login_deadline.                                       *)
TimesOut(c) == sock[c].at \in {"setup", "login"} /\ End(c)

(* The next piece is given back.                                           *)
GiveBack(c) ==
  LET s == sock[c].src
      piece == Head(sock[c].owed)
  IN
  /\ ~Settled(c)
  /\ pendingLogin' = IF piece = "permit" THEN pendingLogin - 1 ELSE pendingLogin
  /\ pendingPerSource' = CASE piece = "share" -> Decremented(pendingPerSource, s)
                           [] piece = "shareEntry" -> RemovedAtZero(pendingPerSource, s)
                           [] OTHER -> pendingPerSource
  /\ openTcp' = IF piece = "open" THEN openTcp - 1 ELSE openTcp
  /\ connPerIp' = CASE piece = "slot" -> Decremented(connPerIp, s)
                    [] piece = "slotEntry" -> RemovedAtZero(connPerIp, s)
                    [] OTHER -> connPerIp
  /\ Move(c, sock[c].at, Tail(sock[c].owed))

Gone(c) ==
  /\ sock[c].at = "ending" /\ Settled(c)
  /\ sock' = [sock EXCEPT ![c] = None]
  /\ UNCHANGED <<connPerIp, pendingPerSource, openTcp, pendingLogin>>

Next ==
  \E c \in Conns :
    \/ \E s \in Sources : Accept(c, s)
    \/ TakeOpen(c) \/ TakeShare(c) \/ Spawn(c) \/ RefusePending(c)
    \/ SetUp(c) \/ Login(c) \/ End(c) \/ TimesOut(c) \/ GiveBack(c) \/ Gone(c)

Spec == Init /\ [][Next]_vars

(* Deadlines pass, and a task that ends drops what it holds.               *)
Fairness ==
  \A c \in Conns :
    /\ WF_vars(TimesOut(c)) /\ WF_vars(GiveBack(c)) /\ WF_vars(Gone(c))
    /\ WF_vars(TakeOpen(c)) /\ WF_vars(TakeShare(c))
    /\ WF_vars(Spawn(c) \/ RefusePending(c))

-----------------------------------------------------------------------------
Owes(c, piece) == piece \in Range(sock[c].owed)
Of(s) == {c \in Conns : sock[c].src = s}

SlotHolders(s) ==
  {c \in Of(s) : sock[c].at \notin {"none", "ending"} \/ Owes(c, "slot")}
ShareHolders(s) ==
  {c \in Of(s) \ {x \in Conns : s \in Loopback} :
     sock[c].at \in {"share", "setup", "login"} \/ Owes(c, "share")}

(* "a connection accepted between the decrement and here keeps its entry": *)
(* whatever the accept loop and the tasks do in between, each map counts   *)
(* exactly the sockets that hold one, and an entry nobody holds is on its  *)
(* way out.                                                                *)
CountsExact ==
  \A s \in Sources :
    /\ Count(connPerIp, s) = Cardinality(SlotHolders(s))
    /\ Count(pendingPerSource, s) = Cardinality(ShareHolders(s))
    /\ s \in DOMAIN connPerIp /\ connPerIp[s] = 0 => \E c \in Of(s) : Owes(c, "slotEntry")
    /\ s \in DOMAIN pendingPerSource /\ pendingPerSource[s] = 0 => \E c \in Of(s) : Owes(c, "shareEntry")

(* The sockets that exist, and those of them that have not logged in, stay *)
(* within the ceilings of the server and of their source.                  *)
CeilingsHold ==
  LET entered == {c \in Conns : sock[c].at \in {"setup", "login", "in"}}
      before == {c \in entered : sock[c].at # "in"}
  IN /\ Cardinality(entered) <= MaxOpen /\ Cardinality(before) <= MaxPending
     /\ \A s \in Sources \ Loopback :
          /\ Cardinality(before \cap Of(s)) <= MaxPerSource
          /\ MaxPerIp > 0 => Cardinality(entered \cap Of(s)) <= MaxPerIp

(* "Without this, make_stream's read_exact() blocks forever on a silent    *)
(* peer": a socket that does not log in is gone in the end, with all it    *)
(* held.                                                                   *)
SilentGone ==
  \A c \in Conns : sock[c].at \in {"setup", "login"} ~> sock[c].at = "none" \/ sock[c].at = "in"

(* What is counted for a socket is what it holds, and within the ceilings. *)
SocketsCounted == TypeOK /\ CountsExact /\ CeilingsHold
=============================================================================
