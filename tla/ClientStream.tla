----------------------------- MODULE ClientStream -----------------------------
(***************************************************************************)
(* One TCP connection from its first byte: plain or obfuscated, the        *)
(* handshake, the decrypting reader under the frame decoder, and the       *)
(* encrypting writer.  TCP cuts the stream where it likes, so every read   *)
(* takes some of what was sent and every write some of what was given.     *)
(* A byte is its value and the place in the keystream it was encrypted     *)
(* with, 0 in clear; applied at another place the keystream gives junk.    *)
(* Keys, sync words and length fields are one byte each.                   *)
(***************************************************************************)
EXTENDS Naturals, Sequences, SequencesExt

CONSTANTS
  MaxPad,             \* longest padding, 15 in the protocol
  AckRoom,            \* bytes of the one read of the client's answer, 256
  MaxFrame, MaxInflated,
  Chunk,              \* MAX_ENCRYPT_CHUNK
  Threshold,          \* COMPRESS_THRESHOLD
  Scripts,            \* what a client may send: sequences of frames
  Answers             \* what it may be sent: sequences of [size, squeezed]

VARIABLES
  crypt,    \* support_crypt
  client,   \* obfuscated or not, its padding, its frames, where it decrypts
  wire,     \* sent to the server and not read
  closed,   \* the client closed after what is on the wire
  stage,    \* of the server's end
  taken,    \* bytes read before there is a stream
  recvPos, sendPos,   \* places in the two keystreams
  ciphered, prefix, src, readable, delivered,     \* the reader
  answers, out, accepted, pending, got, flushed   \* the writer

readVars == <<prefix, src, readable, delivered>>
writeVars == <<answers, out, accepted, pending, got, flushed>>
vars == <<crypt, client, wire, closed, stage, taken, recvPos, sendPos, ciphered, readVars, writeVars>>

Clear(s) == [i \in 1 .. Len(s) |-> <<s[i], 0>>]
Cipher(s, pos) == [i \in 1 .. Len(s) |-> <<s[i], pos + i>>]

(* Rc4::apply, from a place in the keystream. *)
Apply(s, pos) == [i \in 1 .. Len(s) |-> IF s[i][2] = pos + i THEN <<s[i][1], 0>> ELSE <<"junk", 0>>]

Values(s) == [i \in 1 .. Len(s) |-> IF s[i][2] = 0 THEN s[i][1] ELSE "junk"]
First(s, n) == SubSeq(s, 1, n)
After(s, n) == SubSeq(s, n + 1, Len(s))
Least(a, b) == IF a < b THEN a ELSE b

-----------------------------------------------------------------------------
(* A frame on the wire: protocol, length of opcode and payload, opcode,    *)
(* payload.  A packed payload is one byte, the size it inflates to.        *)
Bytes(f) == <<f.proto, f.length, "op">> \o f.body
HeaderLen == 3

None == [kind |-> "none"]
Error == [kind |-> "error"]

(* Mutant: the header is taken off before the rest has come. *)
DecodeEager(s) ==
  IF Len(s) < HeaderLen THEN None
  ELSE IF s[1] \notin {"E3", "D4"} \/ s[2] = 0 \/ s[2] > MaxFrame THEN Error
  ELSE [kind |-> "frame", proto |-> s[1], size |-> Least(s[2] - 1, Len(s) - HeaderLen),
        rest |-> After(s, Least(HeaderLen + s[2] - 1, Len(s)))]

Decode(s) ==
  IF Len(s) < HeaderLen THEN None
  ELSE IF s[1] \notin {"E3", "D4"} \/ s[2] = 0 \/ s[2] > MaxFrame THEN Error
  ELSE IF Len(s) < HeaderLen + s[2] - 1 THEN None
  ELSE IF s[1] = "D4" /\ s[4] > MaxInflated THEN Error
  ELSE [kind |-> "frame", proto |-> s[1], size |-> IF s[1] = "D4" THEN s[4] ELSE s[2] - 1,
        rest |-> After(s, HeaderLen + s[2] - 1)]

(* Ed2kCodec::encode: large payloads packed, if that makes them smaller. *)
Encode(a) ==
  IF a.size > Threshold /\ a.squeezed < a.size
  THEN Bytes([proto |-> "D4", length |-> a.squeezed + 1, body |-> [i \in 1 .. a.squeezed |-> a.size]])
  ELSE Bytes([proto |-> "E3", length |-> a.size + 1, body |-> [i \in 1 .. a.size |-> "x"]])

All(frames) == FlattenSeq([i \in 1 .. Len(frames) |-> Bytes(frames[i])])
Encoded(as) == FlattenSeq([i \in 1 .. Len(as) |-> Encode(as[i])])

(* A frame the decoder takes, and what it makes of it. *)
Good(f) == f.proto \in {"E3", "D4"} /\ f.length \in 1 .. MaxFrame /\ (f.proto = "D4" => f.body[1] <= MaxInflated)
SizeOf(f) == IF f.proto = "D4" THEN f.body[1] ELSE f.length - 1

-----------------------------------------------------------------------------
Hello(pad) == Clear(<<"rnd", "A", pad>> \o [i \in 1 .. pad |-> "p"])
Ack(pad) == <<"sync", "method", pad>> \o [i \in 1 .. pad |-> "p"]

TypeOK ==
  /\ crypt \in BOOLEAN /\ closed \in BOOLEAN /\ ciphered \in BOOLEAN /\ readable \in BOOLEAN
  /\ stage \in {"first", "rest", "try", "ack", "stream", "refused", "error", "ended"}
  /\ recvPos \in Nat /\ sendPos \in Nat /\ accepted \in 0 .. Len(out) /\ flushed \in 0 .. accepted
  /\ (~ciphered => pending = <<>>) /\ Len(pending) <= Chunk

(* A client that speaks plain sends at once; one that does not waits for   *)
(* the server's half of the key.  It may break off anywhere.               *)
Init ==
  /\ crypt \in BOOLEAN
  /\ \E obf \in BOOLEAN, pad, ackPad \in 0 .. MaxPad, script \in Scripts :
       /\ obf \/ (pad = 0 /\ ackPad = 0)
       /\ client = [obf |-> obf, ackPad |-> ackPad, script |-> script, waits |-> obf, place |-> 0]
       /\ IF obf THEN wire = Hello(pad) /\ closed = FALSE
          ELSE \E n \in 1 .. Len(All(script)) :
                 wire = Clear(First(All(script), n)) /\ closed = (n < Len(All(script)))
  /\ stage = "first" /\ taken = <<>> /\ recvPos = 0 /\ sendPos = 0
  /\ ciphered = FALSE /\ prefix = <<>> /\ src = <<>> /\ readable = FALSE /\ delivered = <<>>
  /\ answers \in Answers /\ out = Encoded(answers)
  /\ accepted = 0 /\ pending = <<>> /\ got = <<>> /\ flushed = 0

Refuse == stage' = "refused" /\ UNCHANGED <<taken, recvPos, sendPos, ciphered, prefix>>

(* The first byte says which it is; without support_crypt it is not read. *)
ReadMarker ==
  /\ stage = "first"
  /\ IF ~crypt THEN stage' = "stream" /\ UNCHANGED <<wire, taken, prefix>>
     ELSE /\ wire # <<>> /\ wire' = Tail(wire)
          /\ IF wire[1][1] \in {"E3", "C5", "D4"}
             THEN stage' = "stream" /\ prefix' = First(wire, 1) /\ UNCHANGED taken
             ELSE stage' = "rest" /\ UNCHANGED <<taken, prefix>>
  /\ UNCHANGED <<crypt, client, closed, recvPos, sendPos, ciphered, src, readable, delivered, writeVars>>

(* Key and padding length, in as many reads as it takes; then one try, not *)
(* waited for, at what is left of the padding.                             *)
ReadRest ==
  /\ stage = "rest" /\ wire # <<>>
  /\ \E n \in 1 .. Least(Len(wire), 2 + MaxPad + 1 - Len(taken)) :
       /\ taken' = taken \o First(wire, n) /\ wire' = After(wire, n)
       /\ stage' = IF Len(taken') >= 2 THEN "try" ELSE "rest"
  /\ UNCHANGED <<crypt, client, closed, recvPos, sendPos, ciphered, readVars, writeVars>>

(* TcpObfuscation::negotiate: the answer carries the server's half in      *)
(* clear and the rest encrypted, which moves the sending keystream.        *)
Negotiate ==
  /\ stage = "try"
  /\ \E n \in 0 .. Least(Len(wire), 2 + MaxPad + 1 - Len(taken)) : wire' = After(wire, n)
  /\ \E pad \in 0 .. MaxPad : sendPos' = 4 + pad
  /\ stage' = "ack" /\ taken' = <<>> /\ client' = [client EXCEPT !.place = sendPos']
  /\ UNCHANGED <<crypt, closed, recvPos, ciphered, readVars, writeVars>>

(* The client has the key: its half of the handshake, and its frames. *)
Send ==
  /\ client.waits /\ stage = "ack" /\ client' = [client EXCEPT !.waits = FALSE]
  /\ LET all == Ack(client.ackPad) \o All(client.script)
     IN \E n \in 1 .. Len(all) :
          wire' = wire \o Cipher(First(all, n), 0) /\ closed' = (n < Len(all))
  /\ UNCHANGED <<crypt, stage, taken, recvPos, sendPos, ciphered, readVars, writeVars>>

(* Mutant: what was read along with the handshake is dropped. *)
HandshakeAlone(s) ==
  LET b == Apply(s, recvPos)
  IN IF /\ Len(s) >= 3 /\ b[1][1] = "sync" /\ b[2][1] = "method" /\ Len(s) >= 3 + b[3][1]
     THEN /\ stage' = "stream" /\ ciphered' = TRUE /\ prefix' = <<>>
          /\ recvPos' = recvPos + Len(s) /\ UNCHANGED <<taken, sendPos>>
     ELSE Refuse

(* TcpObfuscation::handshake on what one read gave. *)
Handshake(s) ==
  LET b == Apply(s, recvPos)
  IN IF /\ Len(s) >= 3 /\ b[1][1] = "sync" /\ b[2][1] = "method" /\ Len(s) >= 3 + b[3][1]
     THEN /\ stage' = "stream" /\ ciphered' = TRUE /\ prefix' = After(b, 3 + b[3][1])
          /\ recvPos' = recvPos + Len(s) /\ UNCHANGED <<taken, sendPos>>
     ELSE Refuse

ReadAck ==
  /\ stage = "ack" /\ wire # <<>>
  /\ \E n \in 1 .. Least(Len(wire), AckRoom) : wire' = After(wire, n) /\ Handshake(First(wire, n))
  /\ UNCHANGED <<crypt, client, closed, src, readable, delivered, writeVars>>

HandshakeBrokenOff ==
  /\ stage \in {"rest", "ack"} /\ wire = <<>> /\ closed
  /\ Refuse /\ UNCHANGED <<crypt, client, wire, closed, src, readable, delivered, writeVars>>

-----------------------------------------------------------------------------
(* CryptStream::poll_read: what the handshake left over comes first. *)
ReadStream ==
  /\ stage = "stream" /\ ~readable
  /\ IF prefix # <<>>
     THEN /\ src' = src \o Values(prefix) /\ prefix' = <<>>
          /\ UNCHANGED <<wire, recvPos>>
     ELSE /\ wire # <<>>
          /\ \E n \in 1 .. Len(wire) :
               /\ wire' = After(wire, n)
               /\ src' = src \o Values(IF ciphered THEN Apply(First(wire, n), recvPos) ELSE First(wire, n))
               /\ recvPos' = IF ciphered THEN recvPos + n ELSE recvPos
          /\ UNCHANGED prefix
  /\ readable' = TRUE
  /\ UNCHANGED <<crypt, client, closed, stage, taken, sendPos, ciphered, delivered, writeVars>>

(* Frames are taken off until there is none whole; the end of the stream   *)
(* in the middle of one is an ordinary end (decode_eof).                   *)
DecodeFrame ==
  /\ stage = "stream"
  /\ readable \/ (prefix = <<>> /\ wire = <<>> /\ closed)
  /\ LET d == Decode(src)
     IN \/ /\ d.kind = "frame" /\ src' = d.rest /\ delivered' = Append(delivered, d.size)
           /\ UNCHANGED <<readable, stage>>
        \/ /\ d.kind = "none" /\ readable' = FALSE
           /\ stage' = IF readable THEN stage ELSE "ended"
           /\ UNCHANGED <<src, delivered>>
        \/ d.kind = "error" /\ stage' = "error" /\ UNCHANGED <<src, readable, delivered>>
  /\ UNCHANGED <<crypt, client, wire, closed, taken, recvPos, sendPos, ciphered, prefix, writeVars>>

-----------------------------------------------------------------------------
(* What of the ciphertext the client makes of it. *)
Receives(cipher) ==
  got' = got \o [i \in 1 .. Len(cipher) |->
                   IF cipher[i][2] = 0 \/ cipher[i][2] = client.place + Len(got) + i
                   THEN cipher[i][1] ELSE "junk"]

(* Mutant: encrypted before the socket has taken anything, and again when  *)
(* the caller tries again.                                                 *)
PollWriteAhead(n) ==
  /\ stage = "stream" /\ n <= Len(out) - accepted
  /\ IF ciphered
     THEN \E took \in 0 .. n :
            LET cipher == Cipher(SubSeq(out, accepted + 1, accepted + n), sendPos)
            IN /\ Receives(First(cipher, took)) /\ accepted' = accepted + took
               /\ sendPos' = sendPos + n /\ UNCHANGED pending
     ELSE /\ \E took \in 0 .. n :
               Receives(Clear(SubSeq(out, accepted + 1, accepted + took))) /\ accepted' = accepted + took
          /\ UNCHANGED <<pending, sendPos>>
  /\ UNCHANGED <<crypt, client, wire, closed, stage, taken, recvPos, ciphered, readVars, answers, out, flushed>>

(* CryptStream::poll_write of n bytes: what is pending goes first, and if  *)
(* it does not all go, nothing is accepted; then a chunk is encrypted once *)
(* and the socket takes some of it.                                        *)
PollWrite(n) ==
  /\ stage = "stream" /\ n <= Len(out) - accepted
  /\ IF ~ciphered
     THEN /\ \E took \in 0 .. n :
               Receives(Clear(SubSeq(out, accepted + 1, accepted + took))) /\ accepted' = accepted + took
          /\ UNCHANGED <<pending, sendPos>>
     ELSE \/ \E took \in 0 .. Len(pending) - 1 :
               /\ Receives(First(pending, took)) /\ pending' = After(pending, took)
               /\ UNCHANGED <<accepted, sendPos>>
          \/ LET take == Least(n, Chunk)
                 cipher == Cipher(SubSeq(out, accepted + 1, accepted + take), sendPos)
             IN /\ accepted' = accepted + take /\ sendPos' = sendPos + take
                /\ \E took \in 0 .. take :
                     /\ Receives(pending \o First(cipher, took)) /\ pending' = After(cipher, took)
  /\ UNCHANGED <<crypt, client, wire, closed, stage, taken, recvPos, ciphered, readVars, answers, out, flushed>>

(* poll_flush is ready when nothing is pending. *)
PollFlush ==
  /\ stage = "stream"
  /\ \E took \in 0 .. Len(pending) :
       /\ Receives(First(pending, took)) /\ pending' = After(pending, took)
       /\ flushed' = IF took = Len(pending) THEN accepted ELSE flushed
  /\ UNCHANGED <<crypt, client, wire, closed, stage, taken, recvPos, sendPos, ciphered, readVars, answers,
                 out, accepted>>

Next ==
  \/ ReadMarker \/ ReadRest \/ Negotiate \/ Send \/ ReadAck \/ HandshakeBrokenOff
  \/ ReadStream \/ DecodeFrame \/ PollFlush
  \/ \E n \in 1 .. Len(out) : PollWrite(n)

-----------------------------------------------------------------------------
SentFrames == [i \in 1 .. Len(client.script) |-> SizeOf(client.script[i])]

(* However the stream is cut and whatever came along with the handshake,   *)
(* the frames handed on are the client's frames in their order, and only   *)
(* a frame that breaks the rules, or an obfuscated stream to a server that *)
(* does not support it, ends the connection with an error.                 *)
FramesAsSent ==
  /\ Len(delivered) <= Len(client.script) /\ delivered = First(SentFrames, Len(delivered))
  /\ stage = "error" =>
       (client.obf /\ ~crypt) \/ ~Good(client.script[Len(delivered) + 1])

(* Nothing the client sent waits in a buffer: a reader that goes to wait   *)
(* for the socket has handed on every frame that has come in whole.        *)
NothingStuck ==
  stage = "stream" /\ ~readable /\ prefix = <<>> /\ wire = <<>> /\ ~client.waits /\ ~closed =>
    Len(delivered) = Len(client.script)

(* "every plaintext byte must be encrypted exactly once, in order, and its *)
(* ciphertext sent exactly once": however little the socket takes and      *)
(* however the caller tries again, what the client decrypts is what was    *)
(* written, and a flush that is ready has sent all that was accepted.      *)
ClientInStep ==
  /\ got = First(out, Len(got)) /\ flushed <= Len(got)
  /\ Len(got) + Len(pending) = accepted

(* A client that does all it should is let in.  Known false: padding in a  *)
(* later segment than the key is read as the handshake, and a handshake in *)
(* two segments is refused after the first.                                *)
HandshakeCompletes == stage = "refused" => closed

(* Both directions of the stream, however it is cut.                       *)
StreamFaithful == FramesAsSent /\ NothingStuck /\ ClientInStep
=============================================================================
