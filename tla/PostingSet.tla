----------------------------- MODULE PostingSet -----------------------------
(***************************************************************************)
(* What one keyword's posting promises to its callers: it is a set of file *)
(* ids.  Every add_file and remove_file takes effect once, at one instant  *)
(* between its call and its return; nothing else ever changes the set, so  *)
(* in particular compaction is invisible.                                  *)
(***************************************************************************)
CONSTANTS Ids, Writers, NoId

VARIABLES
  posting,  \* the ids a lookup of the keyword returns
  kind,     \* the call each writer is in: "none", "add" or "remove"
  arg,      \* the id it was called with
  applied   \* the writers whose call has taken effect

absVars == <<posting, kind, arg, applied>>

Init ==
  /\ posting = {}
  /\ kind = [w \in Writers |-> "none"]
  /\ arg = [w \in Writers |-> NoId]
  /\ applied = {}

(* A writer calls an operation on an id. *)
Call(w, k, i) ==
  /\ kind[w] = "none"
  /\ kind' = [kind EXCEPT ![w] = k]
  /\ arg' = [arg EXCEPT ![w] = i]
  /\ UNCHANGED <<posting, applied>>

(* The calls of the writers in W take effect.  W is a set because one step *)
(* of the compactor can settle several removals at once.                   *)
Apply(W) ==
  /\ \A w \in W : kind[w] # "none" /\ w \notin applied
  /\ posting' = (posting \ {arg[w] : w \in {v \in W : kind[v] = "remove"}})
                  \cup {arg[w] : w \in {v \in W : kind[v] = "add"}}
  /\ applied' = applied \cup W
  /\ UNCHANGED <<kind, arg>>

(* A call returns only after it has taken effect. *)
Return(w) ==
  /\ kind[w] # "none"
  /\ w \in applied
  /\ kind' = [kind EXCEPT ![w] = "none"]
  /\ arg' = [arg EXCEPT ![w] = NoId]
  /\ applied' = applied \ {w}
  /\ UNCHANGED posting

Next ==
  \/ \E w \in Writers, k \in {"add", "remove"}, i \in Ids : Call(w, k, i)
  \/ \E W \in SUBSET Writers : Apply(W)
  \/ \E w \in Writers : Return(w)

Spec == Init /\ [][Next]_absVars
=============================================================================
