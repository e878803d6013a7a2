---------------------------- MODULE SourceRequests ----------------------------
(***************************************************************************)
(* UDP source requests (src/src/server/udp.rs): 0x9A is a run of hashes,   *)
(* 0x94 a run of records of a hash and a size, a large size behind a zero. *)
(* One datagram is paid for, shown to the bot detector and answered, each  *)
(* by a walk of its own over the same bytes.  The model's unit is four     *)
(* bytes: a hash is four units, a size one, a large size two more, and a   *)
(* datagram may end after any unit.                                        *)
(***************************************************************************)
EXTENDS Naturals, Sequences, SequencesExt

CONSTANTS
  Asks,        \* what is asked for: see Packet
  Word,        \* how many values a unit has
  MaxFileSize, PartSize,
  Stored,      \* hash -> the size the server has it with
  MaxSingle,   \* MAX_BATCH of the answer to 0x9A
  MaxMulti     \* MAX_BATCH of 0x94; also what the price and the detector count up to

VARIABLES
  want,        \* what the client asks for
  packet,      \* the units that arrive
  step,        \* "sent", "paid", "shown", "answered"
  paid, shown, replies

requestVars == <<want, packet, step, paid, shown, replies>>

HashAt(p, i) == SubSeq(p, i, i + 3)

(* A client's packet: hashes, or records; a size is <<>> or <<s>>, and may  *)
(* be sent the large way.                                                   *)
SizeUnits(f) ==
  IF f.size = <<>> THEN <<>> ELSE IF f.large THEN <<0, f.size[1] % Word, f.size[1] \div Word>> ELSE f.size
Packet(w) ==
  FlattenSeq([i \in DOMAIN w.files |->
    w.files[i].hash \o (IF w.op = "single" THEN <<>> ELSE SizeUnits(w.files[i]))])

Clamp(n, most) == IF n < 1 THEN 1 ELSE IF n > most THEN most ELSE n
Most(n, most) == IF n > most THEN most ELSE n

-----------------------------------------------------------------------------
(* dispatch: the price of the request in source hashes. *)
Price(op, p) == Clamp(IF op = "single" THEN Len(p) \div 4 ELSE Len(p) \div 5, MaxMulti)

(* The hashes of 0x9A, at most this many. *)
Chunks(p, most) == [i \in 1..Most(Len(p) \div 4, most) |-> HashAt(p, 4 * i - 3)]

(* One record of 0x94 at i: its hash, its size and where the next begins;   *)
(* a large size that is cut off ends the walk, one that no file has is no   *)
(* size.                                                                    *)
RecordAtPlain(p, i) ==
  [hash |-> HashAt(p, i), size |-> <<p[i + 4]>>, next |-> i + 5, whole |-> TRUE]
RecordAt(p, i) ==
  IF p[i + 4] # 0 THEN [hash |-> HashAt(p, i), size |-> <<p[i + 4]>>, next |-> i + 5, whole |-> TRUE]
  ELSE IF i + 6 > Len(p) THEN [hash |-> HashAt(p, i), size |-> <<>>, next |-> i + 5, whole |-> FALSE]
  ELSE [hash |-> HashAt(p, i), next |-> i + 7, whole |-> TRUE,
        size |-> LET s == p[i + 5] + Word * p[i + 6] IN IF s > MaxFileSize THEN <<>> ELSE <<s>>]

(* The records of 0x94: a walk that stops at the cap, a short record or a   *)
(* cut large size.  The detector's walk counts the last of these.           *)
Walk(p, countsCut) ==
  LET Step(acc, k) ==
        IF acc.done \/ acc.at + 4 > Len(p) THEN [acc EXCEPT !.done = TRUE]
        ELSE LET r == RecordAt(p, acc.at)
             IN [at |-> r.next, done |-> ~r.whole,
                 out |-> IF r.whole \/ countsCut THEN Append(acc.out, r) ELSE acc.out]
  IN FoldLeft(Step, [at |-> 1, done |-> FALSE, out |-> <<>>], [k \in 1..MaxMulti |-> k]).out

(* query_hashes *)
Seen(op, p) ==
  IF op = "single" THEN Chunks(p, MaxMulti) ELSE [i \in DOMAIN Walk(p, TRUE) |-> Walk(p, TRUE)[i].hash]

(* handle_getsources_multi: a bare hash is answered too. *)
Multi(p) ==
  LET rs == Walk(p, FALSE)
  IN IF rs = <<>> /\ Len(p) >= 4 THEN <<[hash |-> HashAt(p, 1), size |-> <<>>]>>
     ELSE [i \in DOMAIN rs |-> [hash |-> rs[i].hash, size |-> rs[i].size]]

(* sizes_agree: a size cut to its low half is that of the same file, and so *)
(* is the one a client guesses from the part hashes.                        *)
PartEstimate(lo, hi) == lo >= PartSize /\ lo % PartSize = 0 /\ lo = (hi \div PartSize) * PartSize
SizesAgree(a, b) ==
  LET lo == Most(a, b)
      hi == IF a = lo THEN b ELSE a
  IN \/ a = 0 \/ b = 0 \/ a = b
     \/ lo < Word /\ hi >= Word /\ hi % Word = lo
     \/ PartEstimate(lo, hi)

(* size_mismatch: the hash is stored with another size than the one given. *)
AtOdds(r) == r.size # <<>> /\ r.hash \in DOMAIN Stored /\ ~SizesAgree(Stored[r.hash], r.size[1])

Answers(op, p) ==
  IF op = "single" THEN Chunks(p, MaxSingle)
  ELSE LET rs == SelectSeq(Multi(p), LAMBDA r : ~AtOdds(r)) IN [i \in DOMAIN rs |-> rs[i].hash]

-----------------------------------------------------------------------------
Init ==
  /\ want \in Asks /\ packet = Packet(want) /\ step = "sent"
  /\ paid = 0 /\ shown = <<>> /\ replies = <<>>

Shorten ==
  /\ step = "sent" /\ packet = Packet(want)
  /\ \E n \in 0..Len(packet) - 1 : packet' = SubSeq(packet, 1, n)
  /\ UNCHANGED <<want, step, paid, shown, replies>>

Dispatch ==
  /\ step = "sent" /\ step' = "paid" /\ paid' = Price(want.op, packet)
  /\ UNCHANGED <<want, packet, shown, replies>>
RecordQuery ==
  /\ step = "paid" /\ step' = "shown" /\ shown' = Seen(want.op, packet)
  /\ UNCHANGED <<want, packet, paid, replies>>
HandleGetsources ==
  /\ step = "shown" /\ step' = "answered" /\ replies' = Answers(want.op, packet)
  /\ UNCHANGED <<want, packet, paid, shown>>

Next == Shorten \/ Dispatch \/ RecordQuery \/ HandleGetsources

-----------------------------------------------------------------------------
WholePacket == packet = Packet(want)
Sized == \A i \in DOMAIN want.files : want.files[i].size # <<>>
AskedFor == [i \in DOMAIN want.files |-> want.files[i].hash]
Credible(f) == [hash |-> f.hash, size |-> IF f.size[1] > MaxFileSize THEN <<>> ELSE f.size]
Wanted == SelectSeq(want.files, LAMBDA f : ~AtOdds(Credible(f)))

(* No hash is answered that was not asked for, whatever sizes are mixed and *)
(* wherever the datagram ends; and a whole one is answered for every hash   *)
(* up to the cap, but those stored with another size.                       *)
AnsweredAsAsked ==
  step = "answered" =>
    /\ \A i \in DOMAIN replies : \E j \in DOMAIN AskedFor : replies[i] = AskedFor[j]
    /\ WholePacket /\ want.op = "single" => replies = SubSeq(AskedFor, 1, Most(Len(AskedFor), MaxSingle))
    /\ WholePacket /\ want.op = "multi" /\ Sized /\ Len(AskedFor) <= MaxMulti =>
         replies = [i \in DOMAIN Wanted |-> Wanted[i].hash]

(* Nobody gets more answers than were paid for, and the detector sees every *)
(* hash that is answered but that of a bare 0x94.                           *)
PaidAndSeen ==
  step = "answered" =>
    /\ Len(replies) <= paid
    /\ Len(packet) >= 5 \/ want.op = "single" =>
         \A i \in DOMAIN replies : \E j \in DOMAIN shown : shown[j] = replies[i]
    /\ \A j \in DOMAIN shown : \E i \in DOMAIN AskedFor : shown[j] = AskedFor[i]

RequestsRead == AnsweredAsAsked /\ PaidAndSeen
=============================================================================
