----------------------------- MODULE WireFormats ------------------------------
(***************************************************************************)
(* Tagged messages, byte by byte: tags (src/src/proto/tags.rs), the login  *)
(* and the offer a client sends, the options of a UDP search (0x90) and    *)
(* the description servers ask each other for (0xA2, 0xA3).  A sender      *)
(* writes a message, the network or a careless sender cuts it anywhere,    *)
(* and the server reads what is left.  A number is kept as its bytes,      *)
(* little end first; counts and lengths above 65535 are Huge.              *)
(***************************************************************************)
EXTENDS Naturals, Sequences, SequencesExt

CONSTANTS
  Messages,   \* what is sent: see Encode
  MaxText     \* the longest name or description kept of a peer

VARIABLES
  message,    \* what the sender means
  wire,       \* the bytes that arrive
  heard,      \* has the server read them?
  reading     \* what it read

wireVars == <<message, wire, heard, reading>>

Huge == 1000000
Le16(n) == <<n % 256, n \div 256>>
Le32(n) == Le16(n) \o <<0, 0>>
U16(b) == b[1] + 256 * b[2]
U32(b) == IF b[3] + b[4] > 0 THEN Huge ELSE U16(b)
Take(b, n) == SubSeq(b, 1, n)
Drop(b, n) == SubSeq(b, n + 1, Len(b))
ToMin(a, b) == IF a < b THEN a ELSE b

TypeOf == [hash |-> 1, string |-> 2, u32 |-> 3, float |-> 4, bool |-> 5, boolarray |-> 6, blob |-> 7,
           u16 |-> 8, u8 |-> 9, bsob |-> 10, u64 |-> 11, unknown |-> 12]
Width == [hash |-> 16, u32 |-> 4, float |-> 4, bool |-> 1, u16 |-> 2, u8 |-> 1, u64 |-> 8]
KindOf(type) == CHOOSE k \in DOMAIN TypeOf : TypeOf[k] = type

-----------------------------------------------------------------------------
(* A tag is [name, short, kind, val]: name and val are bytes, short says    *)
(* that the name is one byte without a length.                              *)
Inline(t) == t.kind = "string" /\ t.short /\ Len(t.val) \in 1..16

WriteTagPrefixed(t) ==
  <<(IF t.short THEN 128 ELSE 0) + (IF Inline(t) THEN 16 + Len(t.val) ELSE TypeOf[t.kind])>>
    \o (IF t.short THEN t.name ELSE Le16(Len(t.name)) \o t.name)
    \o (CASE t.kind = "string" /\ ~Inline(t) -> Le16(Len(t.val))
          [] t.kind \in {"blob", "hash"} -> Le32(Len(t.val))
          [] t.kind = "boolarray" -> Le16(8 * Len(t.val))
          [] t.kind = "bsob" -> <<Len(t.val)>>
          [] OTHER -> <<>>)
    \o t.val

(* write_tag; the last two forms only clients send. *)
WriteTag(t) ==
  <<(IF t.short THEN 128 ELSE 0) + (IF Inline(t) THEN 16 + Len(t.val) ELSE TypeOf[t.kind])>>
    \o (IF t.short THEN t.name ELSE Le16(Len(t.name)) \o t.name)
    \o (CASE t.kind = "string" /\ ~Inline(t) -> Le16(Len(t.val))
          [] t.kind = "blob" -> Le32(Len(t.val))
          [] t.kind = "boolarray" -> Le16(8 * Len(t.val))
          [] t.kind = "bsob" -> <<Len(t.val)>>
          [] OTHER -> <<>>)
    \o t.val
WriteTags(ts) == FlattenSeq([i \in DOMAIN ts |-> WriteTag(ts[i])])
WriteTagList(ts) == Le32(Len(ts)) \o WriteTags(ts)

(* How many bytes of length a value has in front, and how many follow. *)
Prefix(type) == CASE type \in {2, 6} -> 2 [] type = 7 -> 4 [] type = 10 -> 1 [] OTHER -> 0
Supported(type) == type \in 1..11 \/ type \in 17..32
Length(type, b) ==
  CASE type = 2 -> U16(b)
    [] type = 6 -> (U16(b) + 7) \div 8
    [] type = 7 -> U32(b)
    [] type = 10 -> b[1]
    [] type \in 17..32 -> type - 16
    [] OTHER -> Width[KindOf(type)]

(* Text is decoded lossily: a byte that is not UTF-8 becomes U+FFFD. *)
Lossy(b) == [i \in DOMAIN b |-> IF b[i] >= 128 THEN 65533 ELSE b[i]]
Value(type, b) ==
  CASE type = 2 \/ type \in 17..32 -> [kind |-> "string", val |-> Lossy(b)]
    [] type \in {1, 6, 7, 10} -> [kind |-> "blob", val |-> b]
    [] type = 5 -> [kind |-> "bool", val |-> <<IF b[1] = 0 THEN 0 ELSE 1>>]
    [] OTHER -> [kind |-> KindOf(type), val |-> b]

Failed(why, rest) == [ok |-> FALSE, why |-> why, rest |-> rest]

ReadValue(type, short, name, b) ==
  IF ~Supported(type) THEN Failed("unsupported", b)
  ELSE IF Len(b) < Prefix(type) THEN Failed("underrun", b)
  ELSE LET len == Length(type, b)
           body == Drop(b, Prefix(type))
           v == Value(type, Take(body, len))
       IN IF Len(body) < len THEN Failed("underrun", body)
          ELSE [ok |-> TRUE, rest |-> Drop(body, len),
                tag |-> [name |-> IF short THEN name ELSE Lossy(name),
                         short |-> short, kind |-> v.kind, val |-> v.val]]

(* read_tag: a name of one byte is the short form however it is written. *)
ReadTag(b) ==
  IF b = <<>> THEN Failed("underrun", b)
  ELSE LET type == b[1] % 128
           rest == Tail(b)
       IN IF b[1] >= 128
          THEN IF rest = <<>> THEN Failed("underrun", rest)
               ELSE ReadValue(type, TRUE, <<rest[1]>>, Tail(rest))
          ELSE IF Len(rest) < 2 THEN Failed("underrun", rest)
          ELSE IF Len(rest) < 2 + U16(rest) THEN Failed("underrun", Drop(rest, 2))
          ELSE ReadValue(type, U16(rest) = 1, SubSeq(rest, 3, 2 + U16(rest)), Drop(rest, 2 + U16(rest)))

(* read_tag_list: as many tags as there are, up to the first that fails.    *)
(* A tag has at least two bytes, which bounds the count.                    *)
ReadTagList(b, count) ==
  LET Step(acc, i) ==
        IF acc.stopped THEN acc
        ELSE LET r == ReadTag(acc.rest)
             IN IF r.ok THEN [acc EXCEPT !.tags = Append(@, r.tag), !.rest = r.rest]
                ELSE [acc EXCEPT !.stopped = TRUE, !.rest = r.rest]
  IN FoldLeft(Step, [tags |-> <<>>, rest |-> b, stopped |-> FALSE],
              [i \in 1..ToMin(count, Len(b) + 1) |-> i])

(* The first value of the tags of a name that is of one of these kinds. *)
FirstOf(ts, name, kinds, none) ==
  LET at == {i \in DOMAIN ts : ts[i].short /\ ts[i].name = <<name>> /\ ts[i].kind \in kinds}
  IN IF at = {} THEN none ELSE ts[CHOOSE i \in at : \A j \in at : i <= j].val
Numbers == {"u8", "u16", "u32"}

-----------------------------------------------------------------------------
CtName == 1
CtServerFlags == 32
CtModIpV6 == 174

(* LoginRequest::parse and what the server asks of it. *)
ReadLogin(b) ==
  IF Len(b) < 22 THEN [ok |-> FALSE]
  ELSE LET tags == IF Len(b) >= 26 THEN ReadTagList(Drop(b, 26), U32(SubSeq(b, 23, 26))).tags ELSE <<>>
           six == SelectSeq(tags, LAMBDA t : t.kind # "blob" \/ Len(t.val) = 16)
       IN [ok |-> TRUE, user |-> Take(b, 16), port |-> SubSeq(b, 21, 22),
           nick |-> FirstOf(tags, CtName, {"string"}, <<>>),
           ipv6 |-> FirstOf(six, CtModIpV6, {"blob"}, <<>>),
           flags |-> FirstOf(tags, CtServerFlags, Numbers, <<0>>)]

FtFilename == 1
FtFilesize == 2
FtFilesizeHi == 58

(* What one tag says of the file: a 64-bit size is the whole size, eMule    *)
(* sends the two halves in tags of their own.                               *)
WithTag(f, t) ==
  CASE ~t.short -> f
    [] t.name = <<FtFilename>> /\ t.kind = "string" -> [f EXCEPT !.name = t.val]
    [] t.name = <<FtFilesize>> /\ t.kind \in Numbers -> [f EXCEPT !.lo = t.val]
    [] t.name = <<FtFilesize>> /\ t.kind = "u64" -> [f EXCEPT !.lo = Take(t.val, 4), !.hi = Drop(t.val, 4)]
    [] t.name = <<FtFilesizeHi>> /\ t.kind \in Numbers -> [f EXCEPT !.hi = t.val]
    [] OTHER -> f
FileOf(hash, ts) == FoldLeft(WithTag, [hash |-> hash, name |-> <<>>, lo |-> <<0>>, hi |-> <<0>>], ts)

(* parse_offerfiles: one file record after the other; a short header fails  *)
(* the whole offer, tags that cannot be read end the record.                *)
ReadRecord(acc) ==
  IF acc.failed \/ Len(acc.rest) < 26 \/ U32(SubSeq(acc.rest, 23, 26)) > 50
  THEN [acc EXCEPT !.failed = TRUE]
  ELSE LET r == ReadTagList(Drop(acc.rest, 26), U32(SubSeq(acc.rest, 23, 26)))
       IN [acc EXCEPT !.files = Append(@, FileOf(Take(acc.rest, 16), r.tags)), !.rest = r.rest]
ReadOffer(b) ==
  IF Len(b) < 4 \/ U32(b) > 100000 THEN [ok |-> FALSE]
  ELSE LET Step(acc, i) == ReadRecord(acc)
           all == FoldLeft(Step, [files |-> <<>>, rest |-> Drop(b, 4), failed |-> FALSE],
                           [i \in 1..ToMin(U32(b), Len(b)) |-> i])
       IN IF all.failed THEN [ok |-> FALSE] ELSE [ok |-> TRUE, files |-> all.files]

-----------------------------------------------------------------------------
(* skip_one_tag: the bytes of a value in the options of a 0x90 search.      *)
SkipWidth(type, b) ==
  CASE type = 2 -> IF Len(b) < 2 THEN Huge ELSE 2 + U16(b)
    [] type \in {3, 4, 8} -> 4
    [] type = 9 -> 1
    [] type = 10 -> 2
    [] type = 11 -> 8
    [] type \in 17..32 -> type - 16
    [] OTHER -> Huge
SkipOneTag(b) ==
  LET name == IF b[1] >= 128 THEN 1 ELSE IF Len(b) < 3 THEN Huge ELSE 2 + U16(Tail(b))
      body == Drop(b, 1 + name)
      width == SkipWidth(b[1] % 128, body)
  IN IF b = <<>> \/ Len(b) < 1 + name \/ Len(body) < width THEN [ok |-> FALSE] ELSE [ok |-> TRUE, rest |-> Drop(body, width)]
StripTags(b) ==
  LET Step(acc, i) == IF acc.ok THEN SkipOneTag(acc.rest) ELSE acc
  IN IF Len(b) < 4 \/ U32(b) > 16 THEN [ok |-> FALSE]
     ELSE FoldLeft(Step, [ok |-> TRUE, rest |-> Drop(b, 4)], [i \in 1..U32(b) |-> i])

StServername == 1
StDescription == 11
StVersion == 145
OldTag(name, text) == [name |-> <<name>>, short |-> FALSE, kind |-> "string", val |-> text]

(* handle_server_desc: tags for a challenge that asks for them. *)
Tagged(request) ==
  Len(request) >= 4 /\ (Take(request, 2) = <<255, 240>> \/ Take(request, 4) = <<127, 126, 125, 124>>)
Describe(request, id) ==
  IF Tagged(request)
  THEN Take(request, 4) \o WriteTagList(<<OldTag(StServername, id.name), OldTag(StDescription, id.desc),
                                   OldTag(StVersion, id.version)>>)
  ELSE Le16(Len(id.name)) \o id.name \o Le16(Len(id.desc)) \o id.desc

Clean(text) ==
  LET shown == SelectSeq(text, LAMBDA c : c >= 32 /\ c # 127)
      kept == Take(shown, ToMin(MaxText, Len(shown)))
      solid == {i \in DOMAIN kept : kept[i] # 32}
  IN IF solid = {} THEN <<>>
     ELSE SubSeq(kept, CHOOSE i \in solid : \A j \in solid : i <= j, CHOOSE i \in solid : \A j \in solid : i >= j)

ReadText(b) ==
  IF Len(b) < 2 \/ Len(b) < 2 + U16(b) THEN [ok |-> FALSE, rest |-> b, text |-> <<>>]
  ELSE [ok |-> TRUE, rest |-> Drop(b, 2 + U16(b)), text |-> Lossy(SubSeq(b, 3, 2 + U16(b)))]

(* The text of the last tag of a name, when it is text. *)
LastText(ts, name) ==
  LET named == SelectSeq(ts, LAMBDA t : t.short /\ t.name = <<name>>)
  IN IF named # <<>> /\ Last(named).kind = "string" THEN Last(named).val ELSE <<>>

(* parse_server_desc_res: tags behind the challenge that was sent, or the   *)
(* old form of two texts.                                                   *)
ParseServerDescRes(b, challenge) ==
  IF Len(b) >= 2 /\ Take(b, 2) = <<255, 240>>
  THEN IF Len(b) < 8 \/ Take(b, 4) # challenge THEN [ok |-> FALSE]
       ELSE LET ts == ReadTagList(Drop(b, 8), U32(SubSeq(b, 5, 8))).tags
            IN [ok |-> TRUE, name |-> LastText(ts, StServername), desc |-> LastText(ts, StDescription),
                version |-> LastText(ts, StVersion)]
  ELSE LET name == ReadText(b)
           desc == ReadText(name.rest)
       IN IF ~name.ok THEN [ok |-> FALSE]
          ELSE [ok |-> TRUE, name |-> name.text, desc |-> desc.text, version |-> <<>>]

(* handle_server_desc_res: what is kept, of a peer that was asked. *)
ReadDescription(b, asked) ==
  LET d == ParseServerDescRes(b, asked)
  IN IF asked = <<>> \/ ~d.ok THEN [ok |-> FALSE]
     ELSE [ok |-> TRUE, name |-> Clean(d.name), desc |-> Clean(d.desc), version |-> Clean(d.version)]

-----------------------------------------------------------------------------
Encode(x) ==
  CASE x.kind = "tags" -> WriteTags(x.tags)
    [] x.kind = "login" -> x.user \o <<0, 0, 0, 0>> \o x.port \o WriteTagList(x.tags)
    [] x.kind = "offer" ->
         Le32(Len(x.files))
           \o FlattenSeq([i \in DOMAIN x.files |->
                            x.files[i].hash \o [j \in 1..6 |-> 251] \o WriteTagList(x.files[i].tags)])
    [] x.kind = "search" -> WriteTagList(x.tags) \o x.tree
    [] x.kind = "describe" -> Describe(x.request, x)

Read(x, b) ==
  CASE x.kind = "tags" -> ReadTagList(b, x.count).tags
    [] x.kind = "login" -> ReadLogin(b)
    [] x.kind = "offer" -> ReadOffer(b)
    [] x.kind = "search" -> StripTags(b)
    [] x.kind = "describe" -> ReadDescription(b, x.asked)

Init == message \in Messages /\ wire = Encode(message) /\ heard = FALSE /\ reading = <<>>

CutShort ==
  /\ ~heard /\ wire = Encode(message)
  /\ \E n \in 0..Len(wire) - 1 : wire' = Take(wire, n)
  /\ UNCHANGED <<message, heard, reading>>

Hear == ~heard /\ heard' = TRUE /\ reading' = Read(message, wire) /\ UNCHANGED <<message, wire>>

Next == CutShort \/ Hear

-----------------------------------------------------------------------------
Whole == wire = Encode(message)
Is(kind) == heard /\ message.kind = kind

(* What a reader should make of a tag. *)
Meant(t) ==
  [name |-> IF Len(t.name) = 1 THEN t.name ELSE Lossy(t.name), short |-> Len(t.name) = 1,
   kind |-> IF t.kind \in {"hash", "boolarray", "bsob"} THEN "blob" ELSE t.kind,
   val |-> IF t.kind = "string" THEN Lossy(t.val) ELSE t.val]
Known(ts) == \A i \in DOMAIN ts : ts[i].kind # "unknown"
MeantOf(ts) ==
  LET known == {n \in 0..Len(ts) : Known(Take(ts, n))}
  IN [i \in 1..(CHOOSE n \in known : \A k \in known : k <= n) |-> Meant(ts[i])]

(* Tags are read as they were meant, up to one of an unknown type or the    *)
(* cut: no value is made of part of another.                                *)
TagsRead ==
  Is("tags") =>
    /\ IsPrefix(reading, MeantOf(message.tags))
    /\ Whole => Len(reading) = ToMin(message.count, Len(MeantOf(message.tags)))

(* Of a login either a field is what the client sent or it is absent.       *)
LoginRead ==
  Is("login") =>
    LET ts == MeantOf(message.tags)
        Of(name, kinds, none) == FirstOf(ts, name, kinds, none)
    IN /\ reading.ok = (Len(wire) >= 22)
       /\ reading.ok =>
            /\ reading.user = message.user /\ reading.port = message.port
            /\ reading.nick \in {<<>>, Of(CtName, {"string"}, <<>>)}
            /\ reading.ipv6 # <<>> =>
                 \E t \in ToSet(ts) : t.name = <<CtModIpV6>> /\ t.kind = "blob" /\ t.val = reading.ipv6
            /\ Len(reading.ipv6) \in {0, 16}
            /\ reading.flags \in {<<0>>, Of(CtServerFlags, Numbers, <<0>>)}
            /\ Whole => /\ reading.nick = Of(CtName, {"string"}, <<>>)
                        /\ reading.flags = Of(CtServerFlags, Numbers, <<0>>)

(* Every file of an offer whose tags have known types is the client's, and  *)
(* none is made of the bytes of two.                                        *)
OfferRead ==
  Is("offer") /\ (\A i \in DOMAIN message.files : Known(message.files[i].tags)) =>
    LET sent == [i \in DOMAIN message.files |-> FileOf(message.files[i].hash, MeantOf(message.files[i].tags))]
    IN /\ Whole => reading = [ok |-> TRUE, files |-> sent]
       /\ reading.ok =>
            /\ Len(reading.files) = Len(sent)
            /\ \A i \in DOMAIN sent : reading.files[i].hash = sent[i].hash
            /\ \A i \in DOMAIN sent : i < Len(sent) => reading.files[i] = sent[i]

Skippable(ts) == \A i \in DOMAIN ts : ts[i].kind \in {"string", "u8", "u32", "u64", "float"}

(* The tree that is searched for is the one behind the options, or none:    *)
(* for options of the types eMule and aMule send here.                      *)
TreeKept ==
  Is("search") /\ Skippable(message.tags) =>
    /\ reading.ok => IsPrefix(reading.rest, message.tree)
    /\ Whole /\ Len(message.tags) <= 16 => reading = [ok |-> TRUE, rest |-> message.tree]

(* The same for options of every type the server's tag reader knows.        *)
TreeFollowsTags ==
  Is("search") /\ Known(message.tags) /\ reading.ok => IsPrefix(reading.rest, message.tree)

(* A peer's description is taken only for the challenge it was last asked   *)
(* with, or in the old form, which has none; a text is the peer's or none.  *)
DescriptionRead ==
  Is("describe") =>
    LET In(text) == Clean(Lossy(text)) IN
    /\ reading.ok => /\ message.asked # <<>>
                     /\ IsPrefix(<<255, 240>>, message.request) => message.request = message.asked
                     /\ reading.name \in {<<>>, In(message.name)}
                     /\ reading.desc \in {<<>>, In(message.desc)}
                     /\ reading.version \in {<<>>, In(message.version)}
    /\ Whole /\ message.asked # <<>> /\ message.request = message.asked =>
         reading = [ok |-> TRUE, name |-> In(message.name), desc |-> In(message.desc), version |-> In(message.version)]

WireFaithful == TagsRead /\ LoginRead /\ OfferRead /\ TreeKept /\ DescriptionRead
=============================================================================
