----------------------------- MODULE CountryData ------------------------------
(***************************************************************************)
(* Which country and provider an address belongs to: a MaxMind DB file,    *)
(* searched in place (a tree over the bits of the address, then maps of    *)
(* typed values with pointers into each other), or a CSV of IPv4 ranges    *)
(* when there is none or it does not open.                                 *)
(*                                                                         *)
(* Bytes are the file's; an address has V4Bits or V6Bits bits for 32 and   *)
(* 128.  A key of a map is one byte, text is bytes of which 255 is not     *)
(* UTF-8, and the marker is three bytes, looked for in the whole file.     *)
(***************************************************************************)
EXTENDS Integers, Sequences, SequencesExt, FiniteSets, FiniteSetsExt

CONSTANTS
  V4Bits, V6Bits,
  MappedHigh,     \* the high bits of ::ffff:0:0/96
  MaxDepth,       \* MAX_DEPTH
  DecodeBudget,   \* DECODE_BUDGET
  Databases,      \* what is published: networks, their records, the layout
  Tables          \* the lines of ip-to-country.csv

VARIABLES
  source,         \* the database that was published
  bytes,          \* storage.geoip_mmdb_path, as far as it was written
  csv,            \* storage.ip_to_country_path
  backend         \* what load made of them

vars == <<source, bytes, csv, backend>>

Missing == <<0>>  \* no text: no name has a zero byte
Unknown == [code |-> Missing, name |-> Missing, provider |-> <<Missing, Missing>>]
Marker == <<171, 205, 239>>
KeyOf == [country_code |-> 1, country |-> 2, registered |-> 3, iso_code |-> 4, names |-> 5, en |-> 6,
         asn |-> 7, as_name |-> 8, as_number |-> 9, as_org |-> 10,
         node_count |-> 11, record_size |-> 12, ip_version |-> 13]
Count(n) == [i \in 1..n |-> i]

TypeOK ==
  /\ source \in Databases /\ csv \in Tables
  /\ backend.kind \in {"unloaded", "none", "csv", "mmdb"}

-----------------------------------------------------------------------------
(* Dec.  Every value read costs one of the budget; a header is [ok, typ,   *)
(* size, payload, end, left], where end is 0 when only skip can tell.       *)
Fits(b, p, n) == p >= 1 /\ p + n - 1 <= Len(b)
Be(b, p, n) == FoldLeft(LAMBDA a, i : a * 256 + b[p + i - 1], 0, Count(n))
Bad(left) == [ok |-> FALSE, typ |-> 0, size |-> 0, payload |-> 0, end |-> 0, left |-> left]

RawHeader(b, pos, left) ==
  LET ctrl == b[pos]
      long == ctrl < 32
      p == pos + IF long THEN 2 ELSE 1
      typ == IF long THEN 7 + b[pos + 1] ELSE ctrl \div 32
      bits == ctrl % 32
      more == IF bits < 29 \/ typ = 1 THEN 0 ELSE bits - 28
      base == CASE bits = 29 -> 29 [] bits = 30 -> 285 [] OTHER -> 65821
  IN IF left = 0 THEN Bad(0)
     ELSE IF ~Fits(b, pos, 1) \/ (long /\ (~Fits(b, pos + 1, 1) \/ typ > 255)) THEN Bad(left - 1)
     ELSE IF ~Fits(b, p, more) THEN Bad(left - 1)
     ELSE [ok |-> TRUE, typ |-> typ, payload |-> p + more, end |-> 0, left |-> left - 1,
           size |-> IF more = 0 THEN bits ELSE base + Be(b, p, more)]

(* Where a pointer's header leads. *)
Target(b, h) ==
  LET ss == (h.size \div 8) % 4
      high == IF ss = 3 THEN 0 ELSE (h.size % 8) * 256 ^ (ss + 1)
      offset == CASE ss = 1 -> 2048 [] ss = 2 -> 526336 [] OTHER -> 0
  IN high + Be(b, h.payload, ss + 1) + offset + 1
After(h) == h.payload + ((h.size \div 8) % 4) + 1

Followed(h, target) ==
  IF ~target.ok \/ target.typ = 1 THEN Bad(target.left) ELSE [target EXCEPT !.end = After(h)]
Resolved(b, h) ==
  CASE ~h.ok -> h
    [] h.typ # 1 ->
         [h EXCEPT !.end = CASE h.typ \in {7, 11} -> 0 [] h.typ = 14 -> h.payload [] OTHER -> h.payload + h.size]
    [] ~Fits(b, h.payload, After(h) - h.payload) -> Bad(h.left)
    [] OTHER -> Followed(h, RawHeader(b, Target(b, h), h.left))
Header(b, pos, left) == Resolved(b, RawHeader(b, pos, left))

Past(skip, b, depth, pos, h) ==
  LET Item(s, i) == IF s.ok THEN skip[depth + 1, s.pos, s.left] ELSE s
  IN CASE ~h.ok \/ h.end > Len(b) + 1 -> [ok |-> FALSE, pos |-> pos, left |-> h.left]
       [] h.end > 0 -> [ok |-> TRUE, pos |-> h.end, left |-> h.left]
       [] OTHER -> FoldLeft(Item, [ok |-> TRUE, pos |-> h.payload, left |-> h.left],
                            Count(IF h.typ = 7 THEN 2 * h.size ELSE h.size))
Skip(b, at, from, budget) ==
  LET skip[depth \in Nat, pos \in Nat, left \in Nat] ==
        IF depth > MaxDepth THEN [ok |-> FALSE, pos |-> pos, left |-> left]
        ELSE Past(skip, b, depth, pos, Header(b, pos, left))
  IN skip[from, at, budget]

Text(b, h) ==
  LET t == SubSeq(b, h.payload, h.payload + h.size - 1)
  IN IF h.typ = 2 /\ Fits(b, h.payload, h.size) /\ ~Contains(t, 255) THEN t ELSE Missing

(* map_get_pos: where the value of a key is; found is FALSE if it is not. *)
NextEntry(past) == [ok |-> past.ok, found |-> FALSE, pos |-> past.pos, left |-> past.left]
Entry(b, key, s, k) ==
  CASE ~k.ok \/ Text(b, k) = Missing \/ k.end = 0 -> [s EXCEPT !.ok = FALSE, !.left = k.left]
    [] Text(b, k) = <<key>> -> [s EXCEPT !.pos = k.end, !.found = TRUE, !.left = k.left]
    [] OTHER -> NextEntry(Skip(b, k.end, 1, k.left))
Entries(b, key, m) ==
  LET map == m.ok /\ m.typ = 7
  IN FoldLeft(LAMBDA s, i : IF ~s.ok \/ s.found THEN s ELSE Entry(b, key, s, Header(b, s.pos, s.left)),
              [ok |-> map, found |-> FALSE, pos |-> m.payload, left |-> m.left], Count(IF map THEN m.size ELSE 0))
MapGetPos(b, at, key, left) == Entries(b, key, Header(b, at, left))

(* map_get, then string or uint. *)
ValueOf(b, e) == IF e.found THEN Header(b, e.pos, e.left) ELSE Bad(e.left)
MapGet(b, at, key, left) == ValueOf(b, MapGetPos(b, at, key, left))
StrOf(b, h) == [val |-> IF h.ok THEN Text(b, h) ELSE Missing, left |-> h.left]
MapStr(b, at, key, left) == StrOf(b, MapGet(b, at, key, left))
UintOf(b, h) ==
  LET good == h.ok /\ h.typ \in {5, 6, 9, 10} /\ h.size <= 8 /\ Fits(b, h.payload, h.size)
  IN [val |-> IF good THEN Be(b, h.payload, h.size) ELSE -1, left |-> h.left]
MapUint(b, at, key, left) == UintOf(b, MapGet(b, at, key, left))

-----------------------------------------------------------------------------
(* Record side (0 or 1) of node n; -1 past the end of the file. *)
Record(b, rs, n, side) ==
  LET at == (n * rs) \div 4
      Byte(i) == b[at + i + 1]
      Number(first, high) == FoldLeft(LAMBDA a, i : a * 256 + Byte(first + i - 1), high, Count(3))
  IN IF ~Fits(b, at + 1, rs \div 4) THEN -1
     ELSE CASE rs = 24 -> Number(3 * side, 0)
            [] rs = 28 -> IF side = 0 THEN Number(0, Byte(3) \div 16) ELSE Number(4, Byte(3) % 16)
            [] OTHER -> Number(4 * side + 1, Byte(4 * side))

(* Down the tree along bits, stopping at the first record that is no node. *)
Walk(b, rs, nodes, from, bits) ==
  FoldLeft(LAMBDA n, bit : IF n < 0 \/ n >= nodes THEN n ELSE Record(b, rs, n, bit), from, bits)

None == [kind |-> "none"]
Opened(b, at, nc, rs, ver) ==
  LET start == (nc * rs) \div 4 + 16
      v4 == Walk(b, rs, nc, 0, [i \in 1..(V6Bits - V4Bits) |-> 0])
  IN IF nc < 0 \/ rs \notin {24, 28, 32} \/ ver \notin {4, 6} THEN None
     ELSE IF start > at - 1 \/ (ver = 6 /\ v4 < 0) THEN None
     ELSE [kind |-> "mmdb", bytes |-> b, nodes |-> nc, rs |-> rs, version |-> ver, start |-> start,
           v4 |-> IF ver = 6 THEN v4 ELSE 0]

(* The numbers of the metadata, one read after the other. *)
ReadNumber(meta, key, ns) == Append(ns, MapUint(meta, 1, key, Last(ns).left))
Metadata(meta) ==
  FoldLeft(LAMBDA ns, key : ReadNumber(meta, key, ns), <<[val |-> -1, left |-> DecodeBudget]>>,
           <<KeyOf.node_count, KeyOf.record_size, KeyOf.ip_version>>)
FromBytes(b) ==
  LET marks == {i \in 1..(Len(b) - Len(Marker) + 1) : SubSeq(b, i, i + Len(Marker) - 1) = Marker}
      OpenedAt(at, ns) == Opened(b, at, ns[2].val, ns[3].val, ns[4].val)
  IN IF marks = {} THEN None
     ELSE OpenedAt(Max(marks), Metadata(SubSeq(b, Max(marks) + Len(Marker), Len(b))))

BitsOf(ip) ==
  LET n == IF ip.v = 4 THEN V4Bits ELSE V6Bits IN [i \in 1..n |-> (ip.val \div 2 ^ (n - i)) % 2]
Unmap(ip) ==
  IF ip.v = 6 /\ ip.val \div 2 ^ V4Bits = MappedHigh THEN [v |-> 4, val |-> ip.val % 2 ^ V4Bits] ELSE ip

(* A lookup of IPv4 from the root of an IPv6 tree, to show that the        *)
(* property notices.                                                        *)
FindFromRoot(db, ip) ==
  LET node == Walk(db.bytes, db.rs, db.nodes, 0, BitsOf(ip))
  IN IF (ip.v = 6 /\ db.version # 6) \/ node <= db.nodes \/ node - db.nodes < 16 THEN -1
     ELSE node - db.nodes - 16

(* Offset of the address's record in the data section; -1 for none. *)
Find(db, ip) ==
  LET node == Walk(db.bytes, db.rs, db.nodes, IF ip.v = 4 THEN db.v4 ELSE 0, BitsOf(ip))
  IN IF (ip.v = 6 /\ db.version # 6) \/ node <= db.nodes \/ node - db.nodes < 16 THEN -1
     ELSE node - db.nodes - 16

Upper(t) == [i \in DOMAIN t |-> IF t[i] \in 97..122 THEN t[i] - 32 ELSE t[i]]
OrElse(x, y) == IF x = Missing THEN y ELSE x

(* The country in the flat layout, or of country or registered_country;     *)
(* every step has the budget the one before it left.                        *)
Flat(code, name) == [code |-> Upper(code.val), name |-> name.val, left |-> name.left]
Named(code, name) == [code |-> code, name |-> name.val, left |-> name.left]
Coded(d, iso, names) ==
  IF names.found THEN Named(Upper(iso.val), MapStr(d, names.pos, KeyOf.en, names.left))
  ELSE Named(Upper(iso.val), [val |-> Missing, left |-> names.left])
InCountry(d, c, iso) == Coded(d, iso, MapGetPos(d, c.pos, KeyOf.names, iso.left))
Nested(d, c) ==
  IF c.found THEN InCountry(d, c, MapStr(d, c.pos, KeyOf.iso_code, c.left))
  ELSE [code |-> Missing, name |-> Missing, left |-> c.left]
OrRegistered(d, at, c) == IF c.found THEN c ELSE MapGetPos(d, at, KeyOf.registered, c.left)
CountryIn(d, at, code) ==
  IF code.val # Missing THEN Flat(code, MapStr(d, at, KeyOf.country, code.left))
  ELSE Nested(d, OrRegistered(d, at, MapGetPos(d, at, KeyOf.country, code.left)))

(* asn and as_name, or their counterparts in the ASN layout. *)
ByNumber(d, at, asName, n) ==
  <<IF n.val < 0 THEN Missing ELSE <<65, 83, n.val>>,
    OrElse(asName.val, MapStr(d, at, KeyOf.as_org, n.left).val)>>
ProviderIn(d, at, asn, asName) ==
  IF asn.val # Missing THEN <<asn.val, asName.val>>
  ELSE ByNumber(d, at, asName, MapUint(d, at, KeyOf.as_number, asName.left))
ProviderFrom(d, at, asn) == ProviderIn(d, at, asn, MapStr(d, at, KeyOf.as_name, asn.left))

RecordOf(d, at, c) ==
  [code |-> IF Len(c.code) = 2 THEN c.code ELSE Missing, name |-> c.name,
   provider |-> ProviderFrom(d, at, MapStr(d, at, KeyOf.asn, c.left))]
RecordAt(d, at) == RecordOf(d, at, CountryIn(d, at, MapStr(d, at, KeyOf.country_code, DecodeBudget)))
LookupMmdb(db, ip) ==
  IF Find(db, ip) < 0 THEN Unknown
  ELSE RecordAt(SubSeq(db.bytes, db.start + 1, Len(db.bytes)), Find(db, ip) + 1)

-----------------------------------------------------------------------------
(* The CSV: a line is [start, end, code, name], or [start |-> -1] if it     *)
(* does not parse.  A country has the name of its first line.               *)
LoadCsv(lines) ==
  LET good == SelectSeq(lines, LAMBDA l : l.start >= 0 /\ Len(l.code) >= 2)
      Short(l) == Upper(SubSeq(l.code, 1, 2))
      ranges == SortSeq([i \in DOMAIN good |-> [good[i] EXCEPT !.code = Short(good[i])]],
                        LAMBDA x, y : x.start < y.start)
      names == [c \in {Short(good[i]) : i \in DOMAIN good} |->
                  good[Min({i \in DOMAIN good : Short(good[i]) = c})].name]
  IN IF good = <<>> THEN None ELSE [kind |-> "csv", ranges |-> ranges, names |-> names]

(* partition_point: the last range that starts at or before n. *)
LookupCsv(db, n) ==
  LET before == {i \in DOMAIN db.ranges : db.ranges[i].start <= n}
      r == db.ranges[Max(before)]
  IN IF before = {} \/ n > r.end THEN Unknown
     ELSE [Unknown EXCEPT !.code = r.code, !.name = db.names[r.code]]

(* lookup and provider; a record without a country code has no country. *)
WithCode(r) == IF r.code = Missing THEN [r EXCEPT !.name = Missing] ELSE r
Lookup(ip) ==
  LET a == Unmap(ip)
  IN CASE backend.kind = "mmdb" -> WithCode(LookupMmdb(backend, a))
       [] backend.kind = "csv" /\ a.v = 4 -> LookupCsv(backend, a.val)
       [] OTHER -> Unknown

-----------------------------------------------------------------------------
(* What a publisher writes: a node for every beginning of a network's bits, *)
(* the records, and the metadata.                                           *)
Publish(s) ==
  LET paths == {n.path : n \in s.nets}
      inner == SortSeq(SetToSeq(UNION {{SubSeq(p, 1, k) : k \in 0..(Len(p) - 1)} : p \in paths}),
                       LAMBDA x, y : Len(x) < Len(y))
      nc == Len(inner)
      Offset(r) == FoldLeft(LAMBDA a, i : a + Len(s.records[i].bytes), 0, Count(r - 1))
      Points(q) ==
        CASE q \in paths -> nc + 16 + Offset((CHOOSE n \in s.nets : n.path = q).record)
          [] Contains(inner, q) -> (CHOOSE i \in DOMAIN inner : inner[i] = q) - 1
          [] OTHER -> nc
      Number(v) == <<v \div 65536, (v \div 256) % 256, v % 256>>
      Node(q) ==
        LET l == Number(Points(Append(q, 0)))
            r == Number(Points(Append(q, 1)))
        IN CASE s.rs = 24 -> l \o r
             [] s.rs = 28 -> l \o <<0>> \o r
             [] OTHER -> <<0>> \o l \o <<0>> \o r
      Uint(k, v) == <<65, k, 161, v>>
  IN FlattenSeq([i \in DOMAIN inner |-> Node(inner[i])]) \o [i \in 1..16 |-> 0]
     \o FlattenSeq([i \in DOMAIN s.records |-> s.records[i].bytes]) \o Marker
     \o <<224 + 4>> \o Uint(KeyOf.node_count, nc) \o Uint(KeyOf.record_size, s.rs)
     \o Uint(KeyOf.ip_version, s.version) \o <<65, 14, 65, 116>>

Init ==
  /\ source \in Databases /\ csv \in Tables
  /\ bytes = Publish(source) /\ backend = [kind |-> "unloaded"]

(* A download or a copy that stopped. *)
Shorten ==
  /\ backend.kind = "unloaded" /\ bytes = Publish(source)
  /\ \E n \in 0..(Len(bytes) - 1) : bytes' = SubSeq(bytes, 1, n)
  /\ UNCHANGED <<source, csv, backend>>

Loaded(db) == IF db.kind = "mmdb" THEN db ELSE LoadCsv(csv)
Load ==
  /\ backend.kind = "unloaded"
  /\ backend' = Loaded(FromBytes(bytes))
  /\ UNCHANGED <<source, bytes, csv>>

Next == Shorten \/ Load
Spec == Init /\ [][Next]_vars

-----------------------------------------------------------------------------
Addresses == [v : {4}, val : 0..(2 ^ V4Bits - 1)] \cup [v : {6}, val : 0..(2 ^ V6Bits - 1)]

(* What the published networks say of an address: IPv4 lives under the     *)
(* zero bits of an IPv6 tree.                                              *)
Meant(ip) ==
  LET a == Unmap(ip)
      bits == (IF a.v = 4 /\ source.version = 6 THEN [i \in 1..(V6Bits - V4Bits) |-> 0] ELSE <<>>) \o BitsOf(a)
      nets == {n \in source.nets : IsPrefix(n.path, bits)}
  IN IF (a.v = 6 /\ source.version = 4) \/ nets = {} THEN Unknown
     ELSE source.records[(CHOOSE n \in nets : TRUE).record].means

(* An address has the country and provider of the network it is in, in     *)
(* either layout and every record size; a file cut short answers as the    *)
(* whole one does or is not opened ("Malformed input yields `None` or an   *)
(* `Err`"); then IPv4 addresses have the country of their CSV range.       *)
CountryExact ==
  /\ TypeOK
  /\ backend.kind \in {"none", "csv"} => bytes # Publish(source)
  /\ \A ip \in Addresses :
       LET a == Unmap(ip)
           own == {i \in DOMAIN csv : /\ csv[i].start >= 0 /\ Len(csv[i].code) >= 2
                                      /\ a.val \in csv[i].start..csv[i].end}
       IN CASE backend.kind = "unloaded" -> TRUE
            [] backend.kind = "mmdb" -> Lookup(ip) = Meant(ip)
            [] a.v = 4 /\ own # {} -> Lookup(ip).code = Upper(SubSeq(csv[Max(own)].code, 1, 2))
            [] OTHER -> Lookup(ip) = Unknown
=============================================================================
