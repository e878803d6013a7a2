------------------------------- MODULE Updates --------------------------------
(***************************************************************************)
(* The update client for the list files: download, signature, validation,  *)
(* merge with the file on disk, backups, installation by rename.  The      *)
(* publisher puts up a new list, then its signature; the operator edits    *)
(* the file by hand; the server may crash between any two steps.           *)
(*                                                                         *)
(* A list is a sequence of lines; a line is a hash, with or without a note *)
(* behind it, a comment, or junk.                                          *)
(***************************************************************************)
EXTENDS Integers, Sequences, SequencesExt, FiniteSets

CONSTANTS
  Runs,         \* updates asked for at the same time
  Published,    \* the lists the publisher signs, in order
  HandMade,     \* what the operator's editor may leave behind
  Keep,         \* updates.backups
  KeepHalf,     \* updates.min_keep_ratio is a half, or 0
  MaxCrashes, MaxEdits \* bounds

VARIABLES
  target,       \* "banlist", "whitelist", "terms"
  up, sigUp,    \* the publisher's list and signature, by number
  inode,        \* content of a file, by inode; Torn while it is being written
  path, tmpName, \* what the two names point at, 0 for nothing
  backup,       \* <<name.1, ..., name.Keep>>, None for a missing one
  run,          \* an update in progress
  crashes, edits

vars == <<target, up, sigUp, inode, path, tmpName, backup, run, crashes, edits>>

None == <<[h |-> "none", note |-> FALSE]>>  \* no such file
Torn == <<[h |-> "torn", note |-> FALSE]>>  \* not written to its end
Inodes == 1 .. 3 + Cardinality(Runs)
Idle == [stage |-> "idle", mode |-> "replace", got |-> <<>>, version |-> 0, final |-> <<>>, handle |-> 0]
OnDisk == IF path = 0 THEN None ELSE inode[path]

TypeOK ==
  /\ target \in {"banlist", "whitelist", "terms"}
  /\ up \in 1 .. Len(Published) /\ sigUp \in 1 .. up
  /\ path \in Inodes \cup {0} /\ tmpName \in Inodes \cup {0}
  /\ Len(backup) = Keep
  /\ \A r \in Runs : run[r].stage \in {"idle", "sig", "compare", "shift", "copy", "create", "write", "rename"}
  /\ crashes \in 0 .. MaxCrashes /\ edits \in 0 .. MaxEdits

Init ==
  /\ target \in {"banlist", "whitelist", "terms"}
  /\ up = 1 /\ sigUp = 1
  /\ \E c \in HandMade : inode = [i \in Inodes |-> c]
  /\ path \in {0, 1} /\ tmpName = 0
  /\ backup = [n \in 1 .. Keep |-> None]
  /\ run = [r \in Runs |-> Idle] /\ crashes = 0 /\ edits = 0

-----------------------------------------------------------------------------
(* hash_of_line, validate: how many entries, or that it is refused. *)
IsHash(l) == l.h \notin {"#", "junk"}
Picked(c, S) ==   \* the lines of c that are in S
  LET picked[i \in 0 .. Len(c)] ==
        IF i = 0 THEN <<>> ELSE IF c[i] \in S THEN Append(picked[i - 1], c[i]) ELSE picked[i - 1]
  IN picked[Len(c)]
Hashes(c) == Picked(c, {l \in Range(c) : IsHash(l)})
Entries(c) == IF target = "terms" THEN Len(SelectSeq(c, LAMBDA l : l.h # "#")) ELSE Len(Hashes(c))

Valid(c) ==
  LET junk == Len(SelectSeq(c, LAMBDA l : l.h = "junk")) IN
  IF target = "terms" THEN Entries(c) > 0
  ELSE 4 * junk <= Entries(c) /\ (Entries(c) > 0 \/ target = "whitelist")

-----------------------------------------------------------------------------
(* merge_hash_lists.  Lines only the new list has are appended; a bare     *)
(* line of the old one takes the first noted variant the new one offers.   *)
FirstAt(c, h) == CHOOSE i \in 1 .. Len(c) : c[i].h = h /\ \A j \in 1 .. i - 1 : c[j].h # h
Has(c, h) == \E i \in 1 .. Len(c) : c[i].h = h
NotedIn(c, h) == \E i \in 1 .. Len(c) : c[i].h = h /\ c[i].note

(* Mutant: a note of the old list gives way to the new list's line.        *)
TakesNewLine(old, new) ==
  [i \in 1 .. Len(old) |->
     IF IsHash(old[i]) /\ FirstAt(old, old[i].h) = i /\ Has(new, old[i].h)
     THEN [old[i] EXCEPT !.note = NotedIn(new, old[i].h)] ELSE old[i]]

Upgraded(old, new) ==
  [i \in 1 .. Len(old) |->
     IF IsHash(old[i]) /\ FirstAt(old, old[i].h) = i /\ NotedIn(new, old[i].h)
     THEN [old[i] EXCEPT !.note = TRUE] ELSE old[i]]

Added(old, new) == Picked(new, {l \in Range(new) : IsHash(l) /\ ~Has(old, l.h)})

(* A hash the new list has twice and the old one not at all indexes past   *)
(* the lines of the old list: the task panics.                             *)
MergePanics(old, new) ==
  \E i, j \in 1 .. Len(new) : i < j /\ IsHash(new[i]) /\ new[i].h = new[j].h /\ ~Has(old, new[i].h)

Marked == <<[h |-> "#", note |-> FALSE]>>

Merge(old, new) ==
  Upgraded(old, new)
    \o (IF Added(old, new) = <<>> THEN <<>>
        ELSE (IF old # <<>> THEN Marked ELSE <<>>) \o Marked \o Added(old, new))

-----------------------------------------------------------------------------
Goes(r, x) == run' = [run EXCEPT ![r] = x]
Fails(r) == Goes(r, Idle)
Free == CHOOSE i \in Inodes : i \notin {path, tmpName} \cup {run[r].handle : r \in Runs}
fs == <<inode, path, tmpName, backup>>
others == <<target, up, sigUp, crashes, edits>>

(* The publisher: the list first, then its signature. *)
Publish ==
  \/ up < Len(Published) /\ up' = up + 1 /\ UNCHANGED <<target, sigUp, fs, run, crashes, edits>>
  \/ sigUp < up /\ sigUp' = up /\ UNCHANGED <<target, up, fs, run, crashes, edits>>

(* The operator's editor replaces the file. *)
Edit(c) ==
  /\ edits < MaxEdits /\ edits' = edits + 1
  /\ inode' = [inode EXCEPT ![Free] = c] /\ path' = Free
  /\ UNCHANGED <<target, up, sigUp, crashes, tmpName, backup, run>>

(* api_update_run: whole, cut short where no length was sent, or failed. *)
Fetch(r, mode) ==
  /\ run[r].stage = "idle" /\ (mode = "merge" => target # "terms")
  /\ \E n \in 1 .. Len(Published[up]) :
       Goes(r, [Idle EXCEPT !.stage = "sig", !.mode = mode, !.got = SubSeq(Published[up], 1, n),
                !.version = IF n = Len(Published[up]) THEN up ELSE 0])
  /\ UNCHANGED <<others, fs>>

(* Mutant: require_signature is not consulted.                             *)
Unchecked(r) == TRUE

(* verify_signature, over the bytes as served. *)
Signed(r) == run[r].version = sigUp

Check(r) ==
  /\ run[r].stage = "sig"
  /\ IF Signed(r) /\ Valid(run[r].got) THEN Goes(r, [run[r] EXCEPT !.stage = "compare"]) ELSE Fails(r)
  /\ UNCHANGED <<others, fs>>

Collapses(before, after) == KeepHalf /\ 2 * Entries(after) < Entries(before)

Compare(r) ==
  LET old == IF OnDisk = None THEN <<>> ELSE OnDisk
      new == run[r].got
      final == IF run[r].mode = "merge" THEN Merge(old, new) ELSE new
  IN /\ run[r].stage = "compare"
     /\ IF \/ OnDisk = Torn
           \/ run[r].mode = "merge" /\ MergePanics(old, new)
           \/ ~Valid(final)
           \/ run[r].mode = "replace" /\ OnDisk # None /\ Valid(old) /\ Collapses(old, final)
        THEN Fails(r)
        ELSE Goes(r, [run[r] EXCEPT !.stage = "shift", !.final = final])
     /\ UNCHANGED <<others, fs>>

(* rotate_backups: the oldest goes, the rest move up, the file is copied. *)
Shift(r) ==
  /\ run[r].stage = "shift"
  /\ backup' = IF Keep = 0 \/ path = 0 THEN backup
               ELSE [n \in 1 .. Keep |-> IF n = 1 THEN None ELSE backup[n - 1]]
  /\ Goes(r, [run[r] EXCEPT !.stage = IF Keep = 0 \/ path = 0 THEN "create" ELSE "copy"])
  /\ UNCHANGED <<others, inode, path, tmpName>>

CopyBackup(r) ==
  /\ run[r].stage = "copy"
  /\ backup' = [backup EXCEPT ![1] = OnDisk] /\ Goes(r, [run[r] EXCEPT !.stage = "create"])
  /\ UNCHANGED <<others, inode, path, tmpName>>

(* Mutant: written straight over the file.                                 *)
InPlace(r) ==
  /\ run[r].stage = "create"
  /\ LET i == IF path # 0 THEN path ELSE Free
     IN /\ inode' = [inode EXCEPT ![i] = Torn] /\ path' = i /\ tmpName' = i
        /\ Goes(r, [run[r] EXCEPT !.stage = "write", !.handle = i])
  /\ UNCHANGED <<others, backup>>

(* install_atomic.  Creating an existing temporary file empties it. *)
CreateTmp(r) ==
  LET i == IF tmpName # 0 THEN tmpName
           ELSE Free
  IN /\ run[r].stage = "create"
     /\ inode' = [inode EXCEPT ![i] = Torn] /\ tmpName' = i
     /\ Goes(r, [run[r] EXCEPT !.stage = "write", !.handle = i])
     /\ UNCHANGED <<others, path, backup>>

WriteTmp(r) ==
  /\ run[r].stage = "write"
  /\ inode' = [inode EXCEPT ![run[r].handle] = run[r].final]
  /\ Goes(r, [run[r] EXCEPT !.stage = "rename"])
  /\ UNCHANGED <<others, path, tmpName, backup>>

(* The disk is full: the temporary file is left as it is. *)
WriteFails(r) == run[r].stage = "write" /\ Fails(r) /\ UNCHANGED <<others, fs>>

Rename(r) ==
  /\ run[r].stage = "rename" /\ Fails(r)
  /\ IF tmpName = 0 THEN UNCHANGED path ELSE path' = tmpName
  /\ tmpName' = 0
  /\ UNCHANGED <<others, inode, backup>>

Crash ==
  /\ crashes < MaxCrashes /\ crashes' = crashes + 1
  /\ \E r \in Runs : run[r].stage # "idle"
  /\ run' = [r \in Runs |-> Idle]
  /\ UNCHANGED <<target, up, sigUp, fs, edits>>

Next ==
  \/ Publish
  \/ \E c \in HandMade : Edit(c)
  \/ \E r \in Runs :
       \/ \E mode \in {"replace", "merge"} : Fetch(r, mode)
       \/ Check(r) \/ Compare(r) \/ Shift(r) \/ CopyBackup(r)
       \/ CreateTmp(r) \/ WriteTmp(r) \/ WriteFails(r) \/ Rename(r)
  \/ Crash

Spec == Init /\ [][Next]_vars

-----------------------------------------------------------------------------
(* "a reader either sees the whole old file or the whole new one, never a  *)
(* half-written mixture": through crashes, full disks and leftovers of     *)
(* earlier updates the name points at a file written to its end.           *)
FileWhole == OnDisk # Torn

(* Every hash an update brings in was in a list the publisher signed as a  *)
(* whole, though the list and its signature are two downloads and change   *)
(* one after the other.                                                    *)
OnlyVouched ==
  \A r \in Runs : run[r].stage \notin {"idle", "sig"} => \E v \in 1 .. Len(Published) : run[r].got = Published[v]

(* A merge loses no entry and no line of the file on disk and brings in    *)
(* every hash of the new list, once; an entry that says why it is there    *)
(* says so still; merging again changes nothing.                           *)
MergeKeeps ==
  \A r \in Runs : run[r].stage = "compare" /\ run[r].mode = "merge" /\ OnDisk # Torn =>
    LET old == IF OnDisk = None THEN <<>> ELSE OnDisk
        new == run[r].got
        merged == Merge(old, new)
    IN ~MergePanics(old, new) =>
         /\ \A i \in 1 .. Len(old) : merged[i].h = old[i].h /\ (old[i].note => merged[i].note)
         /\ \A l \in Range(Hashes(new)) : Has(merged, l.h) /\ (NotedIn(new, l.h) => NotedIn(merged, l.h))
         /\ \A i, j \in Len(old) + 1 .. Len(merged) : i # j /\ IsHash(merged[i]) => merged[i].h # merged[j].h
         /\ Merge(merged, new) = merged

(* What an update leaves: a whole file, of signed lists, with nothing of   *)
(* the operator's own lost.                                                *)
UpdatesSound == TypeOK /\ FileWhole /\ OnlyVouched /\ MergeKeeps
=============================================================================
