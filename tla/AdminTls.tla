------------------------------- MODULE AdminTls -------------------------------
(***************************************************************************)
(* The panel's HTTPS certificate.  Self-signed: key, certificate and the   *)
(* note of what it was made with are written one after the other, at start *)
(* or by the periodic check, and the server may crash or the disk be full  *)
(* in between.  Files: an external tool replaces the two files one by one  *)
(* while the check looks at their mtimes and reads them.                   *)
(***************************************************************************)
EXTENDS Naturals, Sequences

CONSTANTS
  LeafDays, RenewDays,
  NameLists,            \* what admin.bind and admin.tls_names may ask for
  MaxDay, MaxPairs, MaxCrashes  \* bounds

VARIABLES
  tlsMode,      \* "self-signed", "files"
  day,
  wanted,       \* wanted_names of the configuration
  before,       \* what earlier configurations wanted
  keyFile, certFile, \* by the number of the pair they belong to, 0 for none
  made,         \* the note next to the certificate: names and last day
  lastDays,     \* of each pair made so far
  proc,         \* the server: stage, whether it starts, what it has read
  stamp,        \* mtimes last loaded
  resolver,     \* what handshakes are given
  overlooked,   \* history: a pair on the disk that no check will load
  misses,       \* days in a row on which the check failed
  checked,      \* the check has run today
  tlsCrashes

vars == <<tlsMode, day, wanted, before, keyFile, certFile, made, lastDays, proc, stamp, resolver,
          overlooked, misses, checked, tlsCrashes>>
disk == <<keyFile, certFile, made, lastDays>>
conf == <<tlsMode, wanted, before>>

NoPair == [cert |-> 0, key |-> 0]
Down == [stage |-> "down", boot |-> TRUE, cert |-> 0, stamp |-> NoPair]
Up == [Down EXCEPT !.stage = "up", !.boot = FALSE]
Nothing == [names |-> "none", until |-> 0]

TypeOK ==
  /\ tlsMode \in {"self-signed", "files"} /\ day \in 0 .. MaxDay
  /\ wanted \in NameLists /\ before \subseteq NameLists
  /\ keyFile \in 0 .. MaxPairs /\ certFile \in 0 .. MaxPairs
  /\ proc.stage \in {"down", "up", "cert", "note", "stat", "load", "loadKey", "settle"}
  /\ proc.stage = "up" => ~proc.boot
  /\ misses \in 0 .. RenewDays - 1 /\ checked \in BOOLEAN /\ tlsCrashes \in 0 .. MaxCrashes

(* In files mode a pair is there. *)
Init ==
  /\ tlsMode \in {"self-signed", "files"} /\ day = 0
  /\ wanted \in NameLists /\ before = {}
  /\ lastDays = IF tlsMode = "files" THEN <<LeafDays>> ELSE <<>>
  /\ keyFile = Len(lastDays) /\ certFile = keyFile /\ made = Nothing
  /\ proc = Down /\ stamp = NoPair /\ resolver = NoPair
  /\ overlooked = NoPair /\ misses = 0 /\ checked = FALSE /\ tlsCrashes = 0

-----------------------------------------------------------------------------
(* Mutant: replaced on its last day.                                       *)
FreshToTheEnd ==
  /\ made.names = wanted /\ made.until > day
  /\ certFile # 0 /\ keyFile # 0

(* ensure_server_made keeps what it finds. *)
Fresh ==
  /\ made.names = wanted /\ made.until > day + RenewDays
  /\ certFile # 0 /\ keyFile # 0

OnDisk == [cert |-> certFile, key |-> keyFile]
Goes(stage) == proc' = [proc EXCEPT !.stage = stage]

(* The start loads and takes the mtimes last, the check takes them first.  *)
Loads == Goes(IF proc.boot THEN "load" ELSE "stat")

(* A failure at start ends the server, one of the check is tried again. *)
Refused == proc' = IF proc.boot THEN Down ELSE Up

(* Mutant: the note of what is being made goes first. *)
NotesFirst ==
  /\ Len(lastDays) < MaxPairs /\ lastDays' = Append(lastDays, day + LeafDays)
  /\ keyFile' = Len(lastDays') /\ made' = [names |-> wanted, until |-> day + LeafDays]
  /\ UNCHANGED certFile

NewPair ==
  /\ Len(lastDays) < MaxPairs /\ lastDays' = Append(lastDays, day + LeafDays)
  /\ keyFile' = Len(lastDays') /\ UNCHANGED <<certFile, made>>

(* The check, every few hours, or the start: what is fresh is kept; else   *)
(* a new pair is made and its key written.                                 *)
Begin ==
  /\ \/ proc.stage = "down" /\ UNCHANGED checked
     \/ proc.stage = "up" /\ tlsMode = "files" /\ UNCHANGED checked
     \/ proc.stage = "up" /\ tlsMode = "self-signed" /\ ~checked /\ checked' = TRUE
  /\ IF tlsMode = "files"
     THEN /\ IF proc.stage = "down" \/ stamp # OnDisk THEN Loads ELSE UNCHANGED proc
          /\ UNCHANGED disk
     ELSE IF Fresh
     THEN /\ IF proc.stage = "down" THEN Loads ELSE UNCHANGED proc
          /\ UNCHANGED disk
     ELSE NewPair /\ Goes("cert")
  /\ misses' = IF tlsMode = "self-signed" /\ proc.stage = "up" /\ Fresh THEN 0 ELSE misses
  /\ UNCHANGED <<day, conf, stamp, resolver, overlooked, tlsCrashes>>

WriteCert ==
  /\ proc.stage = "cert" /\ certFile' = keyFile
  /\ Goes("note")
  /\ UNCHANGED <<day, conf, keyFile, made, lastDays, stamp, resolver, overlooked, misses, checked, tlsCrashes>>

WriteNote ==
  /\ proc.stage = "note" /\ made' = [names |-> wanted, until |-> lastDays[certFile]]
  /\ Loads
  /\ UNCHANGED <<day, conf, keyFile, certFile, lastDays, stamp, resolver, overlooked, misses, checked, tlsCrashes>>

(* The disk is full, at any of the three files. *)
WriteFails ==
  /\ \/ proc.stage \in {"cert", "note"}
     \/ proc.stage = "up" /\ ~checked /\ tlsMode = "self-signed" /\ ~Fresh
  /\ proc.boot \/ misses < RenewDays - 1
  /\ misses' = IF proc.boot THEN misses ELSE misses + 1
  /\ checked' = IF proc.boot THEN checked ELSE TRUE
  /\ Refused
  /\ UNCHANGED <<day, conf, disk, stamp, resolver, overlooked, tlsCrashes>>

(* The check takes both mtimes (in one step: taken apart, what is replaced *)
(* between them only makes the next check load again).                     *)
Stat ==
  /\ proc.stage = "stat" /\ proc' = [proc EXCEPT !.stage = "load", !.stamp = OnDisk]
  /\ UNCHANGED <<day, conf, disk, stamp, resolver, overlooked, misses, checked, tlsCrashes>>

(* load_certified reads the certificate, then the key; it does not compare *)
(* them.                                                                   *)
LoadCert ==
  /\ proc.stage = "load" /\ proc' = [proc EXCEPT !.stage = "loadKey", !.cert = certFile]
  /\ UNCHANGED <<day, conf, disk, stamp, resolver, overlooked, misses, checked, tlsCrashes>>

(* Mutant: the check takes the mtimes when the files have been read, too. *)
LoadKeyThenStat ==
  /\ proc.stage = "loadKey" /\ resolver' = [cert |-> proc.cert, key |-> keyFile]
  /\ \/ proc.boot /\ Goes("settle") /\ UNCHANGED stamp
     \/ ~proc.boot /\ proc' = Up /\ stamp' = OnDisk
  /\ misses' = 0 /\ overlooked' = NoPair
  /\ UNCHANGED <<day, conf, disk, checked, tlsCrashes>>

LoadKey ==
  /\ proc.stage = "loadKey" /\ resolver' = [cert |-> proc.cert, key |-> keyFile]
  /\ \/ proc.boot /\ Goes("settle") /\ UNCHANGED stamp
     \/ ~proc.boot /\ proc' = Up /\ stamp' = proc.stamp
  /\ misses' = 0 /\ overlooked' = NoPair
  /\ UNCHANGED <<day, conf, disk, checked, tlsCrashes>>

(* At start the mtimes are those the files have once they were read: what  *)
(* was replaced meanwhile counts as loaded.                                *)
Settle ==
  /\ proc.stage = "settle" /\ proc' = Up /\ stamp' = OnDisk
  /\ overlooked' = IF resolver = OnDisk THEN NoPair ELSE OnDisk
  /\ UNCHANGED <<day, conf, disk, resolver, misses, checked, tlsCrashes>>

(* A file is not readable, or half written.  Files stay known by the mtimes *)
(* last loaded and are tried again; what the server made itself is fresh   *)
(* at the next check, and is not.                                          *)
LoadFails ==
  /\ proc.stage \in {"load", "loadKey"} /\ Refused
  /\ overlooked' = IF ~proc.boot /\ tlsMode = "self-signed" THEN OnDisk ELSE overlooked
  /\ UNCHANGED <<day, conf, disk, stamp, resolver, misses, checked, tlsCrashes>>

-----------------------------------------------------------------------------
(* The external tool, one file after the other. *)
ReplaceCert ==
  /\ tlsMode = "files" /\ certFile = keyFile /\ Len(lastDays) < MaxPairs
  /\ lastDays' = Append(lastDays, day + LeafDays) /\ certFile' = Len(lastDays')
  /\ UNCHANGED <<day, conf, keyFile, made, proc, stamp, resolver, overlooked, misses, checked, tlsCrashes>>

ReplaceKey ==
  /\ tlsMode = "files" /\ keyFile < certFile /\ keyFile' = certFile
  /\ UNCHANGED <<day, conf, certFile, made, lastDays, proc, stamp, resolver, overlooked, misses, checked, tlsCrashes>>

(* The check runs each day; a server that is down is started. *)
NextDay ==
  /\ day < MaxDay /\ day' = day + 1
  /\ tlsMode = "self-signed" /\ proc.stage = "up" /\ checked /\ checked' = FALSE
  /\ UNCHANGED <<conf, disk, proc, stamp, resolver, overlooked, misses, tlsCrashes>>

Crash ==
  /\ tlsCrashes < MaxCrashes /\ tlsCrashes' = tlsCrashes + 1
  /\ proc.stage # "down" /\ proc' = Down /\ resolver' = NoPair /\ overlooked' = NoPair /\ misses' = 0
  /\ UNCHANGED <<day, conf, disk, stamp, checked>>

(* The configuration is read at start. *)
Reconfigure(names) ==
  /\ proc.stage = "down" /\ names # wanted
  /\ before' = before \cup {wanted} /\ wanted' = names
  /\ UNCHANGED <<tlsMode, day, disk, proc, stamp, resolver, overlooked, misses, checked, tlsCrashes>>

Next ==
  \/ Begin \/ WriteCert \/ WriteNote \/ WriteFails
  \/ Stat \/ LoadCert \/ LoadKey \/ Settle \/ LoadFails
  \/ ReplaceCert \/ ReplaceKey \/ NextDay \/ Crash
  \/ \E names \in NameLists : Reconfigure(names)

Spec == Init /\ [][Next]_vars

-----------------------------------------------------------------------------
(* What handshakes are given belongs together and is for the names wanted, *)
(* after a crash or a full disk at any of the three files ("is remade on   *)
(* the next start": by the note, which is written last; that a mixture     *)
(* "fails loudly at load" it does not need, and the load does not compare), *)
(* unless the names are set back to those of an earlier configuration.     *)
PairBelongsTogether ==
  proc.stage = "up" /\ tlsMode = "self-signed" /\ wanted \notin before =>
    resolver.cert = resolver.key /\ resolver.cert # 0

(* A certificate the server made does not end while it serves, though the  *)
(* check may fail on every day of the month before but the last, unless    *)
(* what fails is the load of the pair just made.                           *)
NeverEnded ==
  proc.stage = "up" /\ tlsMode = "self-signed" /\ overlooked = NoPair =>
    lastDays[resolver.cert] > day

(* A pair that is half replaced when the check reads it is read again ("is *)
(* retried on the next check instead of being skipped until the files      *)
(* change again"): the files that stay in the end are the ones served, but *)
(* for those that came while the server was starting.                      *)
FilesServed ==
  <>[](tlsMode = "files" => certFile = keyFile /\ (resolver = OnDisk \/ overlooked = OnDisk))

(* Known to be false: what comes while the server is starting is skipped,  *)
(* and its half may be served with the other half of what was there before. *)
ReplacedAtStartServed == <>[](tlsMode = "files" => resolver = OnDisk)

(* A certificate of the server's own making is good while it is served.    *)
OwnPairGood == TypeOK /\ PairBelongsTogether /\ NeverEnded
=============================================================================
