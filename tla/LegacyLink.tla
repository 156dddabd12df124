------------------------------ MODULE LegacyLink -------------------------------
(***************************************************************************)
(* A session with a legacy hub: messages sealed by an AEAD under a key of  *)
(* the session and a random nonce, JSON ones with every field encoded,     *)
(* binary ones as nonce, ciphertext, tag.  This is what ws_event_handler   *)
(* does with them, down to the callback, and what the client's own         *)
(* messages must fit into.                                                 *)
(*                                                                         *)
(* Between two messages the client keeps the key and what was negotiated,  *)
(* nothing else.  The link may lose, repeat and reorder messages, also     *)
(* over sessions; the websocket library delivers one that is longer than   *)
(* its buffer in pieces.  Cryptography is symbolic: what opens was sealed  *)
(* under the same key and has the nonce, tag and ciphertext it had then.   *)
(***************************************************************************)
EXTENDS BinaryFrame

CONSTANTS
  PreferredEncoding, PreferredCipher,  \* hm_protocol_ctx_t
  Named,         \* encodings a hub may name in its answer
  Random,        \* [cipher -> nonces and tags that may come up, in pairs]
  Envelopes,     \* what a hub says in JSON: msg_type, payload, type, data
  Ciphertexts,   \* of envelopes
  Frames,        \* what a hub says in binary
  JsonTexts,     \* metadata that parses as JSON
  HasBinaryCb,   \* the application registered a binary callback
  WsBuffer,      \* buffer of the websocket library
  Sizes,         \* of the envelopes and payloads the application sends
  MaxSessions, MaxSeals    \* bounds

Ciphers == {"AES-GCM", "CHACHA20-POLY1305"}
NonceSize(c) == IF c = "AES-GCM" THEN 16 ELSE 12
TagSize        == 16
EnvelopeBuffer == 4096
JsonBuffer     == 8192
None  == "none"
NoType == 31       \* a type no name of the table stands for

(* Two seals never have one tag, as they never have one nonce: both are    *)
(* drawn from 2^96 values at least.  An envelope is JSON text, no frame,   *)
(* and neither it nor its ciphertext nor any JSON text is empty.           *)
ASSUME LinkAssumption ==
  /\ PreferredEncoding \in Encodings /\ PreferredCipher \in Ciphers
  /\ \A c \in Ciphers : \A r \in Random[c] :
       /\ r.nonce \in Seq(0..255) /\ Len(r.nonce) = NonceSize(c)
       /\ r.tag \in Seq(0..255) /\ Len(r.tag) = TagSize
       /\ \A q \in Random[c] : q.tag = r.tag => q.nonce = r.nonce
  /\ \A f \in Frames : f \in FrameType \/ f.raw \in Seq(0..255)
  /\ \A e \in Envelopes : e \notin FrameType /\ e \notin Frames
  /\ \A ct \in Ciphertexts : ct \in Seq(0..255) /\ ct # <<>>
  /\ <<>> \notin JsonTexts
  /\ HasBinaryCb \in BOOLEAN /\ WsBuffer \in Nat \ {0} /\ Sizes \subseteq Nat \ {0}
  /\ MaxSessions \in Nat /\ MaxSeals \in Nat

VARIABLES
  session,       \* handshakes begun
  ready,         \* protocol.state is READY
  key,           \* crypto.key: its session, 0 before it is derived
  enc, cipher,   \* crypto.encoding, crypto.cipher
  seals,         \* everything hubs sealed
  last           \* the last delivery or send and what came of it

vars == <<session, ready, key, enc, cipher, seals, last>>
context == <<session, ready, key, enc, cipher, seals>>

Nothing == [cb |-> None]
NoEvent == [event |-> None]

-----------------------------------------------------------------------------
(* Sealed messages.  The ciphertext of a frame is written as the frame:    *)
(* nothing looks at it before it is opened.                                *)

IsText(s) == s.says \in Envelopes

TextFields(s) ==
  [nonce |-> Encode(s.enc, s.nonce), tag |-> Encode(s.enc, s.tag),
   ct |-> Encode(s.enc, s.ct)]

BinaryData(s) == s.nonce \o s.ct \o s.tag

(* The JSON around the fields has 37 characters.                           *)
JsonLen(nonce, tag, ct) == nonce + tag + ct + 37

Size(s) ==
  IF IsText(s)
  THEN LET f == TextFields(s) IN JsonLen(Len(f.nonce), Len(f.tag), Len(f.ct))
  ELSE Len(BinaryData(s))

(* decrypt_core.                                                           *)
Opened_AnyKey(nonce, tag, ct) ==
  {s \in seals : s.nonce = nonce /\ s.tag = tag /\ s.ct = ct}

Opened(nonce, tag, ct) ==
  {s \in seals : s.key = key /\ s.nonce = nonce /\ s.tag = tag /\ s.ct = ct}

(* hm_crypto_decrypt_json into the buffer of hm_protocol_decrypt_message.  *)
DecryptJson(m) ==
  LET nonce == Decode(enc, Field(enc, m.nonce), 16)
      tag   == Decode(enc, Field(enc, m.tag), TagSize)
      ct    == Decode(enc, Field(enc, m.ct), Len(m.ct))
  IN  IF /\ Len(nonce) = NonceSize(cipher) /\ Len(tag) = TagSize
         /\ ct # Refused /\ Len(ct) <= EnvelopeBuffer - 1
      THEN Opened(nonce, tag, ct) ELSE {}

(* hm_crypto_decrypt_binary.                                               *)
DecryptBinary(data) ==
  LET n == NonceSize(cipher)
      l == Len(data)
  IN  IF l < n + TagSize THEN {}
      ELSE Opened(SubSeq(data, 1, n), SubSeq(data, l - TagSize + 1, l),
                  SubSeq(data, n + 1, l - TagSize))

-----------------------------------------------------------------------------
(* hm_protocol_parse_envelope and dispatch_message.  The callback gets the *)
(* type and data inside a BUS payload, where it has them.                  *)
DispatchEnvelope(e) ==
  IF e.msg_type \notin MsgTypes THEN Nothing
  ELSE IF e.msg_type = BUS
  THEN [cb |-> "bus", kind |-> IF e.type = None THEN "BUS" ELSE e.type,
        body |-> IF e.data = None THEN e.payload ELSE e.data]
  ELSE [cb |-> "bus", kind |-> e.msg_type, body |-> e.payload]

(* dispatch_binary_payload: metadata or payload, never both.               *)
DispatchBinary(data) ==
  LET f    == DecodeFrame(data)
      meta == Slice(data, f.metaAt, f.metaLen)
  IN  IF ~f.ok THEN Nothing
      ELSE IF f.type = BINARY /\ HasBinaryCb
      THEN [cb |-> "binary", kind |-> f.bin, body |-> Slice(data, f.payAt, f.payLen)]
      ELSE IF f.metaLen > 0 /\ meta \in JsonTexts
      THEN [cb |-> "bus", kind |-> TypeName(f.type), body |-> meta]
      ELSE Nothing

Dispatch(s) == IF IsText(s) THEN DispatchEnvelope(s.says) ELSE DispatchBinary(s.ct)

-----------------------------------------------------------------------------
(* WEBSOCKET_EVENT_DATA on a legacy session.                               *)

Take(s, opened) ==
  /\ last' = [event |-> "delivered", seal |-> s,
              got |-> IF opened = {} THEN Nothing
                      ELSE Dispatch(CHOOSE o \in opened : TRUE)]
  /\ UNCHANGED context

(* A message, or the pieces of one, each with some of the fields.          *)
TextPieces(s) ==
  LET f == TextFields(s)
  IN  IF Size(s) <= WsBuffer THEN {f}
      ELSE {[f EXCEPT !.nonce = <<>>], [f EXCEPT !.ct = <<>>]}

DataPieces(s) ==
  LET d == BinaryData(s)
  IN  IF Size(s) <= WsBuffer THEN {d}
      ELSE {SubSeq(d, 1, WsBuffer), SubSeq(d, WsBuffer + 1, Len(d))}

(* Before READY a text is a message of the handshake (HmProtocol).         *)
DeliverText(s) ==
  /\ ready /\ IsText(s)
  /\ \E m \in TextPieces(s) : Take(s, DecryptJson(m))

(* Before READY a binary frame is ignored.                                 *)
DeliverBinary(s) ==
  /\ ~IsText(s)
  /\ \E d \in DataPieces(s) : Take(s, IF ready THEN DecryptBinary(d) ELSE {})

-----------------------------------------------------------------------------
(* hm_client_connect: everything of the last session is cleared.           *)
Connect ==
  /\ session < MaxSessions /\ session' = session + 1
  /\ ready' = FALSE /\ key' = 0
  /\ enc' = PreferredEncoding /\ cipher' = PreferredCipher
  /\ last' = NoEvent /\ UNCHANGED seals

Negotiated_AsNamed(name, known, preferred) == IF name = None THEN preferred ELSE name

(* hm_encoding_parse, hm_crypto_parse_cipher: what the answer does not     *)
(* name, or what is unknown, stays as the client prefers.                  *)
Negotiated(name, known, preferred) == IF name \in known THEN name ELSE preferred

(* The password is salted with the XOR of an IV of each side, both random: *)
(* the two sides agree, and no two sessions have one key.                  *)
DeriveKey == session

(* handle_shake_response.  The encrypted HELLO may fail for want of memory. *)
ShakeResponse(e, c) ==
  /\ session > 0 /\ key = 0
  /\ key' = DeriveKey
  /\ enc' = Negotiated(e, Encodings, PreferredEncoding)
  /\ cipher' = Negotiated(c, Ciphers, PreferredCipher)
  /\ ready' \in BOOLEAN
  /\ last' = NoEvent /\ UNCHANGED <<session, seals>>

Disconnected ==
  /\ ready /\ ready' = FALSE /\ last' = NoEvent
  /\ UNCHANGED <<session, key, enc, cipher, seals>>

(* The hub seals with what was negotiated, its nonces do not repeat.       *)
HubSeal(says, r, ct) ==
  /\ key # 0 /\ Cardinality(seals) < MaxSeals
  /\ \A s \in seals : s.key = key => s.nonce # r.nonce
  /\ seals' = seals \cup {[key |-> key, enc |-> enc, nonce |-> r.nonce,
                           tag |-> r.tag, ct |-> ct, says |-> says]}
  /\ last' = NoEvent /\ UNCHANGED <<session, ready, key, enc, cipher>>

FrameData(f) == IF f \in FrameType THEN FrameOf(f) ELSE f.raw

HubSealText   == \E e \in Envelopes, ct \in Ciphertexts, r \in Random[cipher] : HubSeal(e, r, ct)
HubSealBinary == \E f \in Frames, r \in Random[cipher] : HubSeal(f, r, FrameData(f))

-----------------------------------------------------------------------------
(* The client's own messages: what its buffers must hold.                  *)

(* What an encoder writes for n bytes; base91 makes it depend on them.     *)
Written(e, n) ==
  CASE e = "HEX"     -> {2 * n}
    [] e = "B64"     -> {((n + 2) \div 3) * 4}
    [] e = "URLSAFE" -> {(8 * n + 5) \div 6}
    [] e = "B32"     -> {((n + 4) \div 5) * 8}
    [] e \in {"Z85B", "Z85P"} -> {((n + 3) \div 4) * 5}
    [] e = "B91"     -> {(16 * n) \div 14, (16 * n) \div 13 + 2}

FieldRoom_Tight(n) == 2 * n
FieldRoom(n) == 3 * n + 16
SmallField   == 128

FieldsFit(e, c, n) ==
  /\ Need(e, n) <= FieldRoom(n)
  /\ Need(e, TagSize) <= SmallField /\ Need(e, NonceSize(c)) <= SmallField

(* hm_send_bus_message, hm_protocol_encrypt_message, hm_crypto_encrypt_json *)
(* for an envelope of n characters.                                        *)
SendBus(n) ==
  /\ ready
  /\ \E w \in Written(enc, n), t \in Written(enc, TagSize), k \in Written(enc, NonceSize(cipher)) :
       last' = [event |-> "bus", size |-> n,
                result |-> IF n >= EnvelopeBuffer THEN "too long"
                           ELSE IF ~FieldsFit(enc, cipher, n) THEN "failed"
                           ELSE IF JsonLen(k, t, w) >= JsonBuffer THEN "too long" ELSE "sent"]
  /\ UNCHANGED context

(* hm_send_binary, hm_binary_encode, hm_crypto_encrypt_binary.             *)
FrameRoom(n) == n + 64
SealRoom(l)  == l + 16 + TagSize + 16

SendBinary(n) ==
  /\ ready
  /\ LET l == FrameBytes(BINARY, 0, n)
     IN  last' = [event |-> "binary", size |-> n,
                  result |-> IF l > FrameRoom(n) \/ NonceSize(cipher) + l + TagSize > SealRoom(l)
                             THEN "failed" ELSE "sent"]
  /\ UNCHANGED context

Init ==
  /\ session = 0 /\ ready = FALSE /\ key = 0
  /\ enc = PreferredEncoding /\ cipher = PreferredCipher
  /\ seals = {} /\ last = NoEvent

Next ==
  \/ Connect \/ Disconnected \/ HubSealText \/ HubSealBinary
  \/ \E e \in Named, c \in Ciphers \cup {None} : ShakeResponse(e, c)
  \/ \E s \in seals : DeliverText(s) \/ DeliverBinary(s)
  \/ \E n \in Sizes : SendBus(n) \/ SendBinary(n)

Spec == Init /\ [][Next]_vars

-----------------------------------------------------------------------------
TypeOK ==
  /\ session \in 0..MaxSessions /\ key \in {0, session} /\ ready \in BOOLEAN
  /\ (ready => key # 0)
  /\ enc \in Encodings /\ cipher \in Ciphers
  /\ Cardinality(seals) <= MaxSeals
  /\ \A s \in seals : s.key \in 1..session /\ s.enc \in Encodings
  /\ last.event \in {None, "delivered", "bus", "binary"}

Delivered == last.event = "delivered"

(* What reaches the application on a legacy session was said by the hub of *)
(* this session, at READY, word for word: nothing of an earlier session    *)
(* gets through, nothing is put together from pieces.                      *)
Authentic ==
  Delivered /\ last.got # Nothing =>
    ready /\ \E s \in seals : s.key = key /\ last.got = Dispatch(s)

(* The messages of this session that arrive in one piece.                  *)
Own(s) == Delivered /\ ready /\ s.key = key
Whole(s) == Size(s) <= WsBuffer

(* The fields that json_extract_field and decode_field do not give back.   *)
Spoilt(e, bytes) ==
  CASE e = "Z85B" -> Len(bytes) % 4 # 0
    [] e = "Z85P" -> Len(bytes) % 4 = 0 /\ Last(bytes) \in 1..3
    [] e = "B91"  -> Quote \in ToSet(Encode(e, bytes))
    [] OTHER -> FALSE

(* hivemind_crypto.c:335, 536: of the seven encodings, four bring back     *)
(* every message, and three those that are not Spoilt; one with a spoilt   *)
(* nonce, tag or ciphertext is lost, and so is one longer than the buffer  *)
(* of the websocket library or that of the envelope.                       *)
TextComesBack ==
  Delivered /\ IsText(last.seal) => LET s == last.seal IN
    Own(s) /\ DispatchEnvelope(s.says) # Nothing =>
      (last.got = DispatchEnvelope(s.says) <=>
         /\ Whole(s) /\ Len(s.ct) < EnvelopeBuffer
         /\ \A bytes \in {s.nonce, s.tag, s.ct} : ~Spoilt(s.enc, bytes))

(* What a binary frame says to the application.  One of type BINARY with   *)
(* metadata says nothing: its bintype leaves the metadata off a byte.      *)
Says(f) ==
  IF f.type = BINARY
  THEN IF f.meta = <<>> /\ HasBinaryCb
       THEN [cb |-> "binary", kind |-> f.bin, body |-> f.payload] ELSE Nothing
  ELSE IF f.meta \in JsonTexts
       THEN [cb |-> "bus", kind |-> f.type, body |-> f.meta] ELSE Nothing

(* A frame comes back as it was written, versioned or not, through the     *)
(* bit-packed header, the seal and the dispatch.                           *)
FrameComesBack ==
  Delivered /\ last.seal.says \in FrameType => LET s == last.seal IN
    Own(s) => last.got = (IF Whole(s) THEN Says(s.says) ELSE Nothing)

(* Whatever bytes the hub seals, what hm_binary_decode points at lies in   *)
(* them.                                                                   *)
InBounds ==
  \A s \in seals : ~IsText(s) => LET f == DecodeFrame(s.ct) IN
    f.ok => /\ f.metaLen > 0 => f.metaAt + f.metaLen <= Len(s.ct)
            /\ f.payLen > 0 => f.payAt + f.payLen <= Len(s.ct)

(* The buffers of the sending side are large enough: a binary message is   *)
(* always sent; one of the bus never fails, and is sent with whatever      *)
(* encoding up to 4045 characters.                                         *)
SendsFit ==
  /\ last.event = "binary" => last.result = "sent"
  /\ last.event = "bus" => /\ last.result # "failed"
                           /\ last.size <= 4045 => last.result = "sent"
=============================================================================
