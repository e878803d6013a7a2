------------------------------ MODULE MCOperate -------------------------------
(***************************************************************************)
(* What keeps the server in order while it runs: the bot detector and its  *)
(* filter file, the updates of the list files, lists reloaded when they    *)
(* are edited, and the panel's certificate.  As in MCReach the initial     *)
(* state picks the component whose steps are taken.                        *)
(***************************************************************************)
EXTENDS Naturals, FiniteSets, Sequences

CONSTANTS
  Parts,
  Addrs, V4, Exempt, Adds, UniformAction, ScanAction, HammerAction, MaxReplaced, MaxRestarts,
  Files, MaxEdits, MaxForced,
  Runs, Published, HandMade, Keep, KeepHalf, MaxStops, MaxOwnEdits, MaxTroubles,
  LeafDays, RenewDays, NameLists, MaxDay, MaxPairs, MaxCrashes

VARIABLES
  part,
  ban, throttle, detection, file, list, filter, adding, loader, loaded, dirty, reload,
  session, woken, replaced, restarts,
  target, up, sigUp, inode, path, tmpName, backup, run, stops, ownEdits,
  layer, version, broken, inForce, lastMtime, watch, force, edits, asks,
  tlsMode, day, wanted, before, keyFile, certFile, made, lastDays, proc, stamp, resolver,
  overlooked, misses, checked, tlsCrashes

Bot == INSTANCE BotFilter
Update == INSTANCE Updates WITH crashes <- stops, edits <- ownEdits,
                                MaxCrashes <- MaxStops, MaxEdits <- MaxOwnEdits
Lists == INSTANCE ListReload
Tls == INSTANCE AdminTls

botVars == <<ban, throttle, detection, file, list, filter, adding, loader, loaded, dirty, reload,
             session, woken, replaced, restarts>>
updateVars == <<target, up, sigUp, inode, path, tmpName, backup, run, stops, ownEdits>>
listVars == <<layer, version, broken, inForce, lastMtime, watch, force, edits, asks>>
tlsVars == <<tlsMode, day, wanted, before, keyFile, certFile, made, lastDays, proc, stamp, resolver,
             overlooked, misses, checked, tlsCrashes>>
vars == <<part, botVars, updateVars, listVars, tlsVars>>

(* Two lists of the publisher, and the file as the operator may have it. *)
Line(h, n) == [h |-> h, note |-> n]
TwoLists == <<<<Line("a", FALSE), Line("#", FALSE), Line("b", TRUE)>>,
              <<Line("b", FALSE), Line("a", TRUE), Line("b", TRUE), Line("c", FALSE)>>>>
OperatorsFiles ==
  {<<Line("a", FALSE), Line("#", FALSE)>>, <<Line("a", TRUE), Line("b", FALSE)>>,
   <<Line("a", FALSE), Line("junk", FALSE)>>}

-----------------------------------------------------------------------------
Init ==
  /\ part \in Parts
  /\ Bot!Init /\ Update!Init /\ Lists!Init /\ Tls!Init
  /\ (target = "terms" /\ path = 0 /\ inode = [i \in Update!Inodes |-> CHOOSE c \in HandMade : TRUE]) \/ part = "updates"
  /\ layer = "hashes" \/ part = "lists"
  /\ (tlsMode = "files" /\ wanted = "n") \/ part = "tls"

(* The steps of one component leave the others alone. *)
Only(p) ==
  /\ part = p /\ UNCHANGED part
  /\ IF p = "bots" THEN TRUE ELSE UNCHANGED botVars
  /\ IF p = "updates" THEN TRUE ELSE UNCHANGED updateVars
  /\ IF p = "lists" THEN TRUE ELSE UNCHANGED listVars
  /\ IF p = "tls" THEN TRUE ELSE UNCHANGED tlsVars

Next ==
  \/ Only("bots") /\ Bot!Next
  \/ Only("updates") /\ Update!Next /\ stops' + ownEdits' <= MaxTroubles
  \/ Only("lists") /\ Lists!Next
  \/ Only("tls") /\ Tls!Next

(* The watchers poll, what a task began it goes on with, and a read that is *)
(* tried again and again succeeds.                                          *)
Fairness ==
  /\ WF_listVars(part = "lists" /\ Lists!Poll)
  /\ SF_listVars(part = "lists" /\ Lists!WatchApply)
  /\ \A p \in Files : SF_listVars(part = "lists" /\ Lists!WatchRead(p))
  /\ \A a \in Addrs : WF_botVars(part = "bots" /\ Bot!Adding(a)) /\ WF_botVars(part = "bots" /\ Bot!Wake(a))
  /\ WF_botVars(part = "bots" /\ Bot!ReloadStart)
  /\ WF_botVars(part = "bots" /\ Bot!WatchStart)
  /\ WF_botVars(part = "bots" /\ Bot!WatchStat)
  /\ \A l \in Bot!Loaders : WF_botVars(part = "bots" /\ (Bot!Load(l) \/ Bot!Swap(l)))
  /\ WF_tlsVars(part = "tls" /\ (Tls!Begin \/ Tls!Stat \/ Tls!Settle))
  /\ SF_tlsVars(part = "tls" /\ Tls!LoadCert) /\ SF_tlsVars(part = "tls" /\ Tls!LoadKey)
  /\ WF_tlsVars(part = "tls" /\ Tls!ReplaceKey)

Spec == Init /\ [][Next]_vars /\ Fairness

-----------------------------------------------------------------------------
(* What was found about scanners stays known and reaches their sessions.   *)
BotsKnown == Bot!BotsKnown

(* An update leaves a whole file of what was signed, and nothing is lost.  *)
UpdatesSound == Update!UpdatesSound

(* An edit of a list comes into force, and is known by what was read; what *)
(* the filter file lost when it was replaced is in force again.            *)
ListsApplied == Lists!ListsApplied /\ Bot!RecordedFilteredAgain

(* A certificate of the server's own making is good while it is served.    *)
OwnPairGood == Tls!OwnPairGood

(* The certificate files that stay are served in the end.                  *)
FilesServed == [](part = "tls") => Tls!FilesServed
=============================================================================
