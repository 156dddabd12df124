---------------------------- MODULE LegacyLinkProofs ---------------------------
(***************************************************************************)
(* Proofs about LegacyLink, for every choice of its constants.  That the   *)
(* codecs of frames and fields give back what they were given is proved in *)
(* CodecProofs; here, that the session does.                               *)
(***************************************************************************)
EXTENDS LegacyLink, CodecProofs

-----------------------------------------------------------------------------
(* Room: arithmetic of the buffers.                                        *)

(* Nonces of AES-GCM have 16 bytes, those of ChaCha20 have 12.             *)
LEMMA NonceSizes == \A c \in Ciphers : NonceSize(c) \in {12, 16}
  BY DEF Ciphers, NonceSize

(* What an encoder asks for is never more than encrypt_json allocates.     *)
LEMMA NeedBound ==
  ASSUME NEW e \in Encodings, NEW n \in Nat \ {0}
  PROVE  Need(e, n) \in Nat /\ Need(e, n) <= 3 * n + 16
<1>1. CASE e = "HEX"                BY <1>1 DEF Need
<1>2. CASE e \in {"B64", "URLSAFE"} BY <1>2 DEF Need
<1>3. CASE e = "B32"                BY <1>3 DEF Need
<1>4. CASE e \in {"Z85B", "Z85P"}   BY <1>4 DEF Need
<1>5. CASE e = "B91"                BY <1>5 DEF Need
<1> QED BY <1>1, <1>2, <1>3, <1>4, <1>5 DEF Encodings

(* The fields of a sealed message fit the buffers of encrypt_json, for     *)
(* every encoding, cipher and length: "Encoding failed" is never logged.   *)
THEOREM EncodingNeverFails ==
  ASSUME NEW e \in Encodings, NEW c \in Ciphers, NEW n \in Nat \ {0}
  PROVE  FieldsFit(e, c, n)
<1>1. Need(e, n) <= FieldRoom(n)  BY NeedBound DEF FieldRoom
<1>2. Need(e, TagSize) <= SmallField
  <2>1. TagSize \in Nat \ {0} /\ 3 * TagSize + 16 <= 128  BY DEF TagSize
  <2> QED BY <2>1, NeedBound DEF SmallField
<1>3. Need(e, NonceSize(c)) <= SmallField
  <2> DEFINE m == NonceSize(c)
  <2>1. m \in Nat \ {0} /\ 3 * m + 16 <= 128  BY NonceSizes
  <2>2. Need(e, m) \in Nat /\ Need(e, m) <= 3 * m + 16  BY ONLY <2>1, NeedBound, e \in Encodings
  <2> HIDE DEF m
  <2>3. Need(e, m) <= 128  BY <2>1, <2>2
  <2> QED BY <2>3 DEF SmallField, m
<1> QED BY <1>1, <1>2, <1>3 DEF FieldsFit

(* What is written: hexadecimal is the longest.                            *)
LEMMA WrittenBound ==
  ASSUME NEW e \in Encodings, NEW n \in Nat \ {0}, NEW w \in Written(e, n)
  PROVE  w \in Nat /\ (n <= 16 => w <= 32) /\ (n <= 4045 => w <= 8090)
<1>1. CASE e = "HEX"     BY <1>1 DEF Written
<1>2. CASE e = "B64"     BY <1>2 DEF Written
<1>3. CASE e = "URLSAFE" BY <1>3 DEF Written
<1>4. CASE e = "B32"     BY <1>4 DEF Written
<1>5. CASE e \in {"Z85B", "Z85P"}  BY <1>5 DEF Written
<1>6. CASE e = "B91"
  <2>1. w = (16 * n) \div 14 \/ w = (16 * n) \div 13 + 2  BY <1>6 DEF Written
  <2> QED BY <2>1
<1> QED BY <1>1, <1>2, <1>3, <1>4, <1>5, <1>6 DEF Encodings

(* The buffers of the client's own messages, binary or not, hold them.     *)
THEOREM BinaryFits ==
  ASSUME NEW n \in Nat, NEW c \in Ciphers, NEW l, l = FrameBytes(BINARY, 0, n)
  PROVE  l \in Nat /\ l <= FrameRoom(n) /\ NonceSize(c) + l + TagSize <= SealRoom(l)
<1>1. l = (35 + 8 * n) \div 8  BY DEF FrameBytes, BINARY
<1>2. l \in Nat /\ l <= n + 64  BY <1>1
<1> QED BY <1>2, NonceSizes DEF FrameRoom, SealRoom, TagSize

-----------------------------------------------------------------------------
(* All encodings: a field comes back, or it is spoilt and is lost.         *)

(* What a decoder needs to write the bytes, and what fills them up.        *)
Room(e, s, room) ==
  Len(s) + (IF e \in {"Z85B", "Z85P"} THEN Rest(Len(s), 4) ELSE 0) <= room

(* A field of any nonempty bytes comes back from decode_field as           *)
(* encode_field was given it, given that room; one its encoding spoils is  *)
(* refused or comes back in another length.                                *)
THEOREM FieldBackOrLost ==
  ASSUME NEW e \in Encodings, NEW s \in Seq(0..255), s # <<>>, NEW room \in Nat,
         Room(e, s, room), NEW r, r = Decode(e, Field(e, Encode(e, s)), room)
  PROVE  IF Spoilt(e, s) THEN Lost(r, s) ELSE r = s
<1>1. CASE e \in {"HEX", "B64", "URLSAFE", "B32"}
  <2>1. Len(s) + 0 <= room /\ e # "B91"
    BY <1>1 DEF Room
  <2>2. Len(s) <= room
    BY <2>1
  <2>3. r = s
    BY <1>1, <2>1, <2>2, FieldWhole, DigitCodec
  <2>4. ~Spoilt(e, s)
    BY <1>1 DEF Spoilt
  <2> QED
    BY <2>3, <2>4
<1>2. CASE e = "Z85B"
  <2>1. Len(s) + Rest(Len(s), 4) <= room /\ e # "B91"
    BY <1>2 DEF Room
  <2>2. r = Decode(e, Encode(e, s), room)
    BY <2>1, FieldWhole
  <2>3. /\ Len(s) % 4 = 0 => r = s
        /\ Len(s) % 4 # 0 => Lost(r, s)
    BY <1>2, <2>1, <2>2, Z85BCodec
  <2>4. Spoilt(e, s) <=> Len(s) % 4 # 0
    BY <1>2 DEF Spoilt
  <2> QED
    BY <2>3, <2>4
<1>3. CASE e = "Z85P"
  <2>1. Len(s) + Rest(Len(s), 4) <= room /\ e # "B91"
    BY <1>3 DEF Room
  <2>2. r = Decode(e, Encode(e, s), room)
    BY <2>1, FieldWhole
  <2>3. LET spoilt == Len(s) % 4 = 0 /\ Last(s) \in 1..3
        IN  /\ ~spoilt => r = s
            /\ spoilt => Lost(r, s)
    BY <1>3, <2>1, <2>2, Z85PCodec
  <2>4. Spoilt(e, s) <=> Len(s) % 4 = 0 /\ Last(s) \in 1..3
    BY <1>3 DEF Spoilt
  <2> QED
    BY <2>3, <2>4
<1>4. CASE e = "B91"
  <2>1. Len(s) + 0 <= room
    BY <1>4 DEF Room
  <2>2. Len(s) <= room
    BY <2>1
  <2>3. PICK ch : ch = Encode("B91", s)
    OBVIOUS
  <2>4. LET spoilt == \E j \in 1..Len(ch) : ch[j] = Quote
        IN  /\ ~spoilt => r = s
            /\ spoilt => Lost(r, s)
    BY <1>4, <2>2, <2>3, B91Codec
  <2>5. ch \in Seq(Digit91)
    BY <2>3, MessageDigits DEF Encode
  <2>6. Spoilt(e, s) <=> \E j \in 1..Len(ch) : ch[j] = Quote
    <3>1. Spoilt(e, s) <=> Quote \in ToSet(ch)
      BY <1>4, <2>3 DEF Spoilt
    <3>2. DOMAIN ch = 1..Len(ch)
      BY <2>5
    <3> QED
      BY <3>1, <3>2 DEF ToSet
  <2> QED
    BY <2>4, <2>6
<1> QED
  BY <1>1, <1>2, <1>3, <1>4 DEF Encodings

(* A field has room for its bytes.                                         *)
LEMMA FieldRoomEnough ==
  ASSUME NEW e \in Encodings, NEW s \in Seq(0..255), NEW l, l = Len(Encode(e, s))
  PROVE  l \in Nat /\ Room(e, s, l)
<1>1. PICK n \in Nat : n = Len(s)
  OBVIOUS
<1>2. ASSUME NEW w \in {4, 5, 6}
      PROVE  LET D == Digits(s, w)
             IN  D \in Seq(Nat) /\ Len(D) \in Nat /\ Len(D) >= n
  <2>1. PICK D : D = Digits(s, w)
    OBVIOUS
  <2>2. D \in Seq(Nat) /\ Len(D) = (8 * n + w - 1) \div w
    BY <1>1, <2>1, DigitsAre
  <2>3. Len(D) \in Nat
    BY <2>2
  <2>4. (8 * n + w - 1) \div w >= n
    OBVIOUS
  <2> QED
    BY <2>1, <2>2, <2>3, <2>4
<1>3. ASSUME NEW w \in {4, 5, 6}, NEW k \in {4, 8}
      PROVE  LET D == Digits(s, w)
             IN  Len(Filled(D, k, Pad)) \in Nat /\ Len(Filled(D, k, Pad)) >= n
  <2>1. PICK D : D = Digits(s, w)
    OBVIOUS
  <2>2. D \in Seq(Nat) /\ Len(D) \in Nat /\ Len(D) >= n
    BY <1>2, <2>1
  <2>3. PICK q \in Nat : q = Rest(Len(D), k)
    BY <2>2 DEF Rest
  <2>4. Len(Filled(D, k, Pad)) = Len(D) + q
    BY <2>2, <2>3, FilledIs DEF IsFilled, Pad
  <2> QED
    BY <2>1, <2>2, <2>3, <2>4
<1>4. CASE e \in {"HEX", "B64", "URLSAFE", "B32"}
  <2>1. l \in Nat /\ l >= n
    BY <1>2, <1>3, <1>4 DEF Encode
  <2>2. n + 0 <= l
    BY <2>1
  <2> QED
    BY <1>1, <1>4, <2>1, <2>2 DEF Room
<1>5. CASE e \in {"Z85B", "Z85P"}
  <2>1. PICK q \in Nat : q = Rest(n, 4) /\ q \in 0..255
    <3>1. Rest(n, 4) \in Nat /\ Rest(n, 4) <= 3
      BY RestOfFour
    <3> QED
      BY <3>1
  <2>2. 5 * (n + q) = 4 * l
    <3>1. \E c \in 0..255 : Encode(e, s) = EncodeZ85(s, c)
      <4>1. CASE e = "Z85B"
        <5>1. Encode(e, s) = EncodeZ85(s, 0) /\ 0 \in 0..255
          BY <4>1 DEF Encode
        <5> QED
          BY <5>1
      <4>2. CASE e = "Z85P"
        BY <1>1, <2>1, <4>2 DEF Encode
      <4> QED
        BY <1>5, <4>1, <4>2
    <3>2. PICK c \in 0..255 : Encode(e, s) = EncodeZ85(s, c)
      BY <3>1
    <3>3. 5 * (Len(s) + Rest(Len(s), 4)) = 4 * Len(Encode(e, s))
      BY <1>5, <3>2, Z85Raw
    <3> QED
      BY <1>1, <2>1, <3>3
  <2>3. l \in Nat
    BY <1>5 DEF Encode, EncodeZ85
  <2>4. n + q <= l
    BY <2>1, <2>2, <2>3
  <2> QED
    BY <1>1, <1>5, <2>1, <2>3, <2>4 DEF Room
<1>6. CASE e = "B91"
  <2>1. l \in Nat /\ l >= n
    BY <1>1, <1>6, MessageDigits DEF Encode
  <2>2. n + 0 <= l
    BY <2>1
  <2> QED
    BY <1>1, <1>6, <2>1, <2>2 DEF Room
<1> QED
  BY <1>4, <1>5, <1>6 DEF Encodings

(* The field a piece lacks.                                                *)
LEMMA EmptyBack ==
  ASSUME NEW e \in Encodings, NEW room \in Nat, NEW r, r = Decode(e, Field(e, <<>>), room)
  PROVE  r \in {<<>>, Refused}
<1>1. Field(e, <<>>) = <<>>
  BY DEF Field
<1>2. Unpadded(<<>>) = <<>>
  <2>1. PICK c \in Seq(Nat) : c = <<>>
    <3>1. <<>> \in Seq(Nat)
      OBVIOUS
    <3> QED
      BY <3>1
  <2>2. \A i \in 1..Len(c) : c[i] # Pad
    BY <2>1
  <2>3. Unpadded(c) = c
    BY <2>2, UnpaddedSame
  <2> QED
    BY <2>1, <2>3
<1>3. ASSUME NEW w \in {4, 5, 6} PROVE Gather(<<>>, w) = <<>>
  <2>1. (w * Len(<<>>)) \div 8 = 0
    OBVIOUS
  <2> QED
    BY <2>1 DEF Gather
<1>4. Z85Bytes(<<>>) = <<>>
  <2>1. 4 * (Len(<<>>) \div 5) = 0
    OBVIOUS
  <2> QED
    BY <2>1 DEF Z85Bytes
<1>5. DecodeB91(<<>>) = <<>>
  <2>1. PICK c : c = <<>>
    OBVIOUS
  <2>2. Len(c) \in Nat /\ Len(c) = 0
    BY <2>1
  <2>3. PICK b : Read91(b, c) /\ DecodeB91(c) = BytesOf(b[0])
    BY <2>2, B91Read
  <2>4. b[0] = <<>>
    BY <2>2, <2>3, ReadNone
  <2>5. Len(<<>>) \div 8 = 0
    OBVIOUS
  <2>6. BytesOf(<<>>) = <<>>
    BY <2>5 DEF BytesOf
  <2> QED
    BY <2>1, <2>3, <2>4, <2>6
<1>6. Raw(e, <<>>) = <<>>
  BY <1>2, <1>3, <1>4, <1>5 DEF Raw, Encodings
<1>7. StripFill(<<>>) = <<>>
  BY DEF StripFill
<1> QED
  BY <1>1, <1>6, <1>7 DEF Decode

-----------------------------------------------------------------------------
(* The inductive invariant.                                                *)

(* What was sealed: a text, or else a frame.                               *)
Sealed(says, ct) ==
  IF says \in Envelopes THEN ct \in Ciphertexts
  ELSE says \in Frames /\ ct = FrameData(says)

(* A seal is of a text or a frame; one of this session has its encoding,   *)
(* and a nonce and a tag of its cipher; and no two of a session have one   *)
(* nonce.                                                                  *)
SealsKept ==
  /\ \A s \in seals :
       /\ Sealed(s.says, s.ct)
       /\ s.key = key => /\ s.enc = enc
                         /\ \E r \in Random[cipher] : s.nonce = r.nonce /\ s.tag = r.tag
       /\ key = 0 => s.key # session
  /\ \A s \in seals : \A t \in seals : s.key = t.key /\ s.nonce = t.nonce => s = t

IInv ==
  /\ TypeOK /\ IsFiniteSet(seals) /\ SealsKept
  /\ Authentic /\ TextComesBack /\ FrameComesBack /\ SendsFit

(* The types hold at first.                                                *)
LEMMA TypeInit == Init => TypeOK /\ IsFiniteSet(seals)
<1> SUFFICES ASSUME Init PROVE TypeOK /\ IsFiniteSet(seals)  OBVIOUS
<1>1. IsFiniteSet(seals) /\ Cardinality(seals) = 0  BY FS_EmptySet DEF Init
<1>2. seals = {} /\ last.event = None  BY DEF Init, NoEvent
<1>3. /\ session = 0 /\ key = 0 /\ ready = FALSE
      /\ enc = PreferredEncoding /\ cipher = PreferredCipher  BY DEF Init
<1>4. /\ MaxSessions \in Nat /\ MaxSeals \in Nat
      /\ PreferredEncoding \in Encodings /\ PreferredCipher \in Ciphers
  BY LinkAssumption DEF LinkAssumption
<1>5. session \in 0..MaxSessions /\ Cardinality(seals) <= MaxSeals  BY <1>1, <1>3, <1>4
<1> QED BY <1>1, <1>2, <1>3, <1>4, <1>5 DEF TypeOK

(* A send leaves an event of the stated shape behind.                      *)
LEMMA SendEvents ==
  ASSUME NEW n \in Sizes, SendBus(n) \/ SendBinary(n)
  PROVE  last'.event \in {"bus", "binary"} /\ UNCHANGED context
<1>1. CASE SendBus(n)
  <2>1. \E res : last' = [event |-> "bus", size |-> n, result |-> res]  BY <1>1 DEF SendBus
  <2>2. UNCHANGED context  BY <1>1 DEF SendBus
  <2> QED BY <2>1, <2>2
<1>2. CASE SendBinary(n)
  <2>1. \E res : last' = [event |-> "binary", size |-> n, result |-> res]  BY <1>2 DEF SendBinary
  <2>2. UNCHANGED context  BY <1>2 DEF SendBinary
  <2> QED BY <2>1, <2>2
<1> QED BY <1>1, <1>2

(* A bus message of any length fits its buffers, or is refused for its     *)
(* length.                                                                 *)
LEMMA SendBusFits ==
  ASSUME TypeOK, NEW n \in Sizes, SendBus(n)
  PROVE  SendsFit'
<1>1. n \in Nat \ {0} /\ enc \in Encodings /\ cipher \in Ciphers
  BY LinkAssumption DEF LinkAssumption, TypeOK
<1>2. NonceSize(cipher) \in Nat \ {0} /\ NonceSize(cipher) <= 16  BY <1>1, NonceSizes
<1>3. TagSize \in Nat \ {0} /\ TagSize <= 16  BY DEF TagSize
<1>4. FieldsFit(enc, cipher, n)  BY <1>1, EncodingNeverFails
<1>5. PICK w \in Written(enc, n), t \in Written(enc, TagSize),
           k \in Written(enc, NonceSize(cipher)) :
        last' = [event |-> "bus", size |-> n,
                 result |-> IF n >= EnvelopeBuffer THEN "too long"
                            ELSE IF ~FieldsFit(enc, cipher, n) THEN "failed"
                            ELSE IF JsonLen(k, t, w) >= JsonBuffer THEN "too long" ELSE "sent"]
  BY DEF SendBus
<1>6. w \in Nat /\ (n <= 4045 => w <= 8090)  BY <1>1, WrittenBound
<1>7. t \in Nat /\ t <= 32  BY <1>1, <1>3, WrittenBound
<1>8. k \in Nat /\ k <= 32
  <2> DEFINE m == NonceSize(cipher)
  <2>1. m \in Nat \ {0} /\ m <= 16 /\ k \in Written(enc, m)  BY <1>2, <1>5
  <2> HIDE DEF m
  <2> QED BY <1>1, <2>1, WrittenBound
<1>9. last'.event = "bus" /\ last'.size = n
  BY <1>5
<1>10. last'.result = "too long" \/ last'.result = "sent"  BY <1>4, <1>5
<1>11. ASSUME n <= 4045 PROVE last'.result = "sent"
  <2>1. ~(n >= EnvelopeBuffer)  BY <1>1, <1>11 DEF EnvelopeBuffer
  <2>2. ~(JsonLen(k, t, w) >= JsonBuffer)
    BY <1>1, <1>6, <1>7, <1>8, <1>11 DEF JsonLen, JsonBuffer
  <2> QED BY <1>4, <1>5, <2>1, <2>2
<1>12. last'.event # "binary" /\ last'.result # "failed"  BY <1>9, <1>10
<1>13. last'.size <= 4045 => last'.result = "sent"  BY <1>9, <1>11
<1> QED BY <1>12, <1>13 DEF SendsFit

(* A binary message of any length fits its buffers.                        *)
LEMMA SendBinaryFits ==
  ASSUME TypeOK, NEW n \in Sizes, SendBinary(n)
  PROVE  SendsFit'
<1> DEFINE l == FrameBytes(BINARY, 0, n)
<1>1. n \in Nat /\ cipher \in Ciphers  BY LinkAssumption DEF LinkAssumption, TypeOK
<1>2. l \in Nat /\ l <= FrameRoom(n) /\ NonceSize(cipher) + l + TagSize <= SealRoom(l)
  BY <1>1, BinaryFits
<1>3. FrameRoom(n) \in Nat /\ SealRoom(l) \in Nat /\ NonceSize(cipher) + l + TagSize \in Nat
  BY <1>1, <1>2, NonceSizes DEF FrameRoom, SealRoom, TagSize
<1>4. last' = [event |-> "binary", size |-> n,
               result |-> IF l > FrameRoom(n) \/ NonceSize(cipher) + l + TagSize > SealRoom(l)
                          THEN "failed" ELSE "sent"]
  BY DEF SendBinary
<1> HIDE DEF l
<1> QED BY <1>2, <1>3, <1>4 DEF SendsFit

(* Every step keeps SendsFit; only the two senders can disturb it.         *)
LEMMA SendsFitStep == TypeOK /\ SendsFit /\ [Next]_vars => SendsFit'
<1> SUFFICES ASSUME TypeOK, SendsFit, [Next]_vars PROVE SendsFit'  OBVIOUS
<1>1. CASE last' = NoEvent  BY <1>1 DEF SendsFit, NoEvent, None
<1>2. CASE last'.event = "delivered"  BY <1>2 DEF SendsFit
<1>3. CASE UNCHANGED vars  BY <1>3 DEF SendsFit, vars
<1>4. ASSUME NEW n \in Sizes, SendBus(n) PROVE SendsFit'  BY <1>4, SendBusFits
<1>5. ASSUME NEW n \in Sizes, SendBinary(n) PROVE SendsFit'  BY <1>5, SendBinaryFits
<1>6. ASSUME NEW s \in seals, DeliverText(s) \/ DeliverBinary(s) PROVE last'.event = "delivered"
  BY <1>6 DEF DeliverText, DeliverBinary, Take
<1>7. ASSUME Connect \/ Disconnected \/ HubSealText \/ HubSealBinary
             \/ \E e \in Named, c \in Ciphers \cup {None} : ShakeResponse(e, c)
      PROVE  last' = NoEvent
  BY <1>7 DEF Connect, Disconnected, HubSealText, HubSealBinary, HubSeal, ShakeResponse
<1> QED BY <1>1, <1>2, <1>3, <1>4, <1>5, <1>6, <1>7 DEF Next

(* Every step keeps the types.                                             *)
LEMMA TypeStep == TypeOK /\ IsFiniteSet(seals) /\ [Next]_vars => TypeOK' /\ IsFiniteSet(seals)'
<1> SUFFICES ASSUME TypeOK, IsFiniteSet(seals), [Next]_vars
             PROVE  TypeOK' /\ IsFiniteSet(seals')
  OBVIOUS
<1>0. /\ MaxSessions \in Nat /\ MaxSeals \in Nat
      /\ PreferredEncoding \in Encodings /\ PreferredCipher \in Ciphers
  BY LinkAssumption DEF LinkAssumption
<1>1. CASE UNCHANGED vars  BY <1>1 DEF TypeOK, vars
<1>2. CASE Connect
  <2>1. session \in Nat /\ session' \in 1..MaxSessions /\ session' = session + 1
    BY <1>0, <1>2 DEF TypeOK, Connect
  <2>2. \A s \in seals' : s.key \in 1..session' /\ s.enc \in Encodings
    BY <1>2, <2>1 DEF TypeOK, Connect
  <2>3. last'.event = None  BY <1>2 DEF Connect, NoEvent
  <2>4. /\ key' = 0 /\ ready' = FALSE /\ seals' = seals
        /\ enc' = PreferredEncoding /\ cipher' = PreferredCipher
    BY <1>2 DEF Connect
  <2>5. session' \in 0..MaxSessions /\ Cardinality(seals') <= MaxSeals
    BY <2>1, <2>4 DEF TypeOK
  <2> QED BY <1>0, <2>2, <2>3, <2>4, <2>5 DEF TypeOK
<1>3. CASE Disconnected
  <2>1. last'.event = None  BY <1>3 DEF Disconnected, NoEvent
  <2> QED BY <1>3, <2>1 DEF TypeOK, Disconnected
<1>4. ASSUME NEW says, NEW r, NEW ct, HubSeal(says, r, ct)
      PROVE  TypeOK' /\ IsFiniteSet(seals')
  <2> DEFINE new == [key |-> key, enc |-> enc, nonce |-> r.nonce,
                     tag |-> r.tag, ct |-> ct, says |-> says]
  <2>1. seals' = seals \cup {new} /\ last' = NoEvent /\ key # 0 /\ Cardinality(seals) < MaxSeals
        /\ UNCHANGED <<session, ready, key, enc, cipher>>
    BY <1>4 DEF HubSeal
  <2>2. IsFiniteSet(seals') /\ Cardinality(seals') <= MaxSeals
    <3>1. Cardinality(seals) \in Nat  BY FS_CardinalityType
    <3>2. /\ IsFiniteSet(seals')
          /\ \/ Cardinality(seals') = Cardinality(seals)
             \/ Cardinality(seals') = Cardinality(seals) + 1
      BY <2>1, FS_AddElement
    <3> QED BY <1>0, <2>1, <3>1, <3>2
  <2>3. key \in 1..session /\ enc \in Encodings  BY <2>1 DEF TypeOK
  <2>4. new.key = key /\ new.enc = enc  OBVIOUS
  <2> HIDE DEF new
  <2>5. \A s \in seals' : s.key \in 1..session' /\ s.enc \in Encodings
    BY <2>1, <2>3, <2>4 DEF TypeOK
  <2>6. last'.event = None  BY <2>1 DEF NoEvent
  <2> QED BY <2>1, <2>2, <2>5, <2>6 DEF TypeOK
<1>5. ASSUME NEW e \in Named, NEW c \in Ciphers \cup {None}, ShakeResponse(e, c)
      PROVE  TypeOK' /\ IsFiniteSet(seals')
  <2>1. enc' \in Encodings /\ cipher' \in Ciphers
    BY <1>0, <1>5 DEF ShakeResponse, Negotiated
  <2>2. /\ key' = session /\ session > 0 /\ ready' \in BOOLEAN
        /\ last' = NoEvent /\ UNCHANGED <<session, seals>>
    BY <1>5 DEF ShakeResponse, DeriveKey
  <2>3. last'.event = None  BY <2>2 DEF NoEvent
  <2> QED BY <1>0, <2>1, <2>2, <2>3 DEF TypeOK
<1>6. ASSUME UNCHANGED context, last'.event \in {"delivered", "bus", "binary"}
      PROVE  TypeOK' /\ IsFiniteSet(seals')
  BY <1>6 DEF TypeOK, context
<1>7. ASSUME NEW s \in seals, DeliverText(s) \/ DeliverBinary(s)
      PROVE  UNCHANGED context /\ last'.event = "delivered"
  BY <1>7 DEF DeliverText, DeliverBinary, Take
<1>8. ASSUME NEW n \in Sizes, SendBus(n) \/ SendBinary(n)
      PROVE  UNCHANGED context /\ last'.event \in {"bus", "binary"}
  BY <1>8, SendEvents
<1> QED BY <1>1, <1>2, <1>3, <1>4, <1>5, <1>6, <1>7, <1>8 DEF Next, HubSealText, HubSealBinary

(* Every step keeps Authentic; only a delivery can disturb it, and it      *)
(* opens what was sealed under the key of the session.                     *)
LEMMA AuthenticStep == Authentic /\ [Next]_vars => Authentic'
<1> SUFFICES ASSUME Authentic, [Next]_vars PROVE Authentic'  OBVIOUS
<1>1. CASE last'.event # "delivered"  BY <1>1 DEF Authentic, Delivered
<1>2. CASE UNCHANGED vars  BY <1>2 DEF Authentic, Delivered, vars, Dispatch, IsText
<1>3. ASSUME NEW s \in seals, NEW opened \in SUBSET seals, Take(s, opened),
             \A o \in opened : ready /\ o.key = key
      PROVE  Authentic'
  <2>1. CASE opened = {}  BY <1>3, <2>1 DEF Authentic, Delivered, Take
  <2>2. CASE opened # {}
    <3> DEFINE o == CHOOSE x \in opened : TRUE
    <3>1. o \in opened  BY <2>2
    <3>2. last'.got = Dispatch(o)  BY <1>3, <2>2 DEF Take
    <3>3. UNCHANGED <<ready, key, seals>>  BY <1>3 DEF Take, context
    <3> HIDE DEF o
    <3> QED BY <1>3, <3>1, <3>2, <3>3 DEF Authentic
  <2> QED BY <2>1, <2>2
<1>4. ASSUME NEW s \in seals, DeliverText(s) PROVE Authentic'
  <2>1. PICK m \in TextPieces(s) : Take(s, DecryptJson(m))  BY <1>4 DEF DeliverText
  <2>2. DecryptJson(m) \subseteq seals /\ \A o \in DecryptJson(m) : o.key = key
    BY DEF DecryptJson, Opened
  <2>3. ready  BY <1>4 DEF DeliverText
  <2> QED BY <1>3, <2>1, <2>2, <2>3
<1>5. ASSUME NEW s \in seals, DeliverBinary(s) PROVE Authentic'
  <2>1. PICK d \in DataPieces(s) : Take(s, IF ready THEN DecryptBinary(d) ELSE {})
    BY <1>5 DEF DeliverBinary
  <2>2. DecryptBinary(d) \subseteq seals /\ \A o \in DecryptBinary(d) : o.key = key
    BY DEF DecryptBinary, Opened
  <2> QED BY <1>3, <2>1, <2>2
<1>6. ASSUME NEW n \in Sizes, SendBus(n) \/ SendBinary(n) PROVE last'.event # "delivered"
  BY <1>6, SendEvents
<1>7. ASSUME Connect \/ Disconnected \/ HubSealText \/ HubSealBinary
             \/ \E e \in Named, c \in Ciphers \cup {None} : ShakeResponse(e, c)
      PROVE  last'.event # "delivered"
  BY <1>7 DEF Connect, Disconnected, HubSealText, HubSealBinary, HubSeal, ShakeResponse,
              NoEvent, None
<1> QED BY <1>1, <1>2, <1>4, <1>5, <1>6, <1>7 DEF Next

-----------------------------------------------------------------------------
(* What the sessions keep of the seals.                                    *)

(* Every step keeps it: a session has a key no seal had before, and the hub*)
(* seals with a nonce it did not use in the session.                       *)
LEMMA SealsKeptStep == TypeOK /\ SealsKept /\ [Next]_vars => SealsKept'
<1> SUFFICES ASSUME TypeOK, SealsKept, [Next]_vars PROVE SealsKept'
  OBVIOUS
<1>1. CASE UNCHANGED <<session, key, enc, cipher, seals>>
  BY <1>1 DEF SealsKept, Sealed, FrameData
<1>2. CASE UNCHANGED vars
  BY <1>1, <1>2 DEF vars
<1>3. CASE Connect
  <2>1. session \in Nat /\ session' = session + 1 /\ key' = 0 /\ seals' = seals
    BY <1>3, LinkAssumption DEF Connect, TypeOK, LinkAssumption
  <2>2. \A s \in seals : s.key \in Nat /\ s.key # 0 /\ s.key <= session
    BY <2>1 DEF TypeOK
  <2>3. \A s \in seals : s.key # key' /\ s.key # session'
    BY <2>1, <2>2
  <2> QED
    BY <2>1, <2>3 DEF SealsKept, Sealed, FrameData
<1>4. CASE Disconnected
  BY <1>1, <1>4 DEF Disconnected
<1>5. ASSUME NEW says, NEW ct, NEW r \in Random[cipher], HubSeal(says, r, ct),
             Sealed(says, ct)
      PROVE  SealsKept'
  <2> DEFINE new == [key |-> key, enc |-> enc, nonce |-> r.nonce,
                     tag |-> r.tag, ct |-> ct, says |-> says]
  <2>1. /\ seals' = seals \cup {new} /\ key # 0
        /\ UNCHANGED <<session, key, enc, cipher>>
        /\ \A s \in seals : s.key = key => s.nonce # r.nonce
    BY <1>5 DEF HubSeal
  <2>2. /\ Sealed(new.says, new.ct) /\ new.enc = enc
        /\ new.nonce = r.nonce /\ new.tag = r.tag /\ new.key = key
    BY <1>5
  <2> HIDE DEF new
  <2>3. \A s \in seals :
          /\ Sealed(s.says, s.ct)
          /\ s.key = key => /\ s.enc = enc
                            /\ \E p \in Random[cipher] : s.nonce = p.nonce /\ s.tag = p.tag
    BY DEF SealsKept
  <2>4. \A s \in seals' :
          /\ Sealed(s.says, s.ct)
          /\ s.key = key => /\ s.enc = enc
                            /\ \E p \in Random[cipher] : s.nonce = p.nonce /\ s.tag = p.tag
    BY <2>1, <2>2, <2>3
  <2>5. \A s \in seals' : \A t \in seals' : s.key = t.key /\ s.nonce = t.nonce => s = t
    <3>1. \A s \in seals : \A t \in seals : s.key = t.key /\ s.nonce = t.nonce => s = t
      BY DEF SealsKept
    <3>2. \A s \in seals : ~(s.key = new.key /\ s.nonce = new.nonce)
      BY <2>1, <2>2
    <3> QED
      BY <2>1, <3>1, <3>2
  <2> QED
    BY <2>1, <2>4, <2>5 DEF SealsKept, Sealed, FrameData
<1>6. CASE HubSealText
  BY <1>5, <1>6 DEF HubSealText, Sealed
<1>7. CASE HubSealBinary
  BY <1>5, <1>7, LinkAssumption DEF HubSealBinary, Sealed, LinkAssumption
<1>8. ASSUME NEW e \in Named, NEW c \in Ciphers \cup {None}, ShakeResponse(e, c)
      PROVE  SealsKept'
  <2>1. key = 0 /\ session > 0 /\ key' = session /\ UNCHANGED <<session, seals>>
    BY <1>8 DEF ShakeResponse, DeriveKey
  <2>2. session \in Nat
    BY LinkAssumption DEF TypeOK, LinkAssumption
  <2>3. \A s \in seals : s.key # key'
    BY <2>1 DEF SealsKept
  <2> QED
    BY <2>1, <2>2, <2>3 DEF SealsKept, Sealed, FrameData
<1>9. ASSUME NEW s \in seals, DeliverText(s) \/ DeliverBinary(s)
      PROVE  SealsKept'
  BY <1>1, <1>9 DEF DeliverText, DeliverBinary, Take, context
<1>10. ASSUME NEW n \in Sizes, SendBus(n) \/ SendBinary(n)
       PROVE  SealsKept'
  BY <1>1, <1>10, SendEvents DEF context
<1> QED
  BY <1>2, <1>3, <1>4, <1>6, <1>7, <1>8, <1>9, <1>10 DEF Next

-----------------------------------------------------------------------------
(* The bytes of a frame, and what they dispatch.                           *)

(* What the hub seals in binary is bytes.                                  *)
LEMMA FrameDataBytes ==
  ASSUME NEW f \in Frames
  PROVE  FrameData(f) \in Seq(0..255)
<1>1. CASE f \in FrameType
  <2>1. Len(f.meta) \in Nat /\ Len(f.payload) \in Nat
    <3>1. f.meta \in Seq(0..255) /\ f.payload \in Seq(0..255)
      BY <1>1 DEF FrameType
    <3> QED
      BY <3>1, LenProperties
  <2> DEFINE h == HeadLen(f)
             q == BinLen(f)
             m == MetaLen(f)
             n == PayLen(f)
  <2>2. h \in Nat /\ q \in Nat /\ m \in Nat /\ n \in Nat
    BY <2>1 DEF HeadLen, BinLen, MetaLen, PayLen
  <2> HIDE DEF h, q, m, n
  <2>3. Laid(f, FrameOf(f), h, q, m, n)
    BY <1>1, <2>2, FrameLayout DEF h, q, m, n
  <2> QED
    BY <1>1, <2>3 DEF Laid, FrameData
<1>2. CASE f \notin FrameType
  BY <1>2, LinkAssumption DEF LinkAssumption, FrameData
<1> QED
  BY <1>1, <1>2

(* A frame says to the application what Says says.                         *)
LEMMA FrameDispatch ==
  ASSUME NEW f \in FrameType
  PROVE  DispatchBinary(FrameOf(f)) = Says(f)
<1> DEFINE data == FrameOf(f)
           d    == DecodeFrame(data)
           meta == Slice(data, d.metaAt, d.metaLen)
           pay  == Slice(data, d.payAt, d.payLen)
<1>1. IF f.type = BINARY /\ f.meta # <<>> THEN d = NoFrame
      ELSE /\ d.ok = TRUE
           /\ d.type = f.type
           /\ d.metaLen = Len(f.meta)
           /\ f.meta # <<>> => meta = f.meta
           /\ f.type = BINARY => d.bin = f.bin /\ pay = f.payload
  BY FrameBack
<1>2. DispatchBinary(data) =
        IF ~d.ok THEN Nothing
        ELSE IF d.type = BINARY /\ HasBinaryCb
        THEN [cb |-> "binary", kind |-> d.bin, body |-> pay]
        ELSE IF d.metaLen > 0 /\ meta \in JsonTexts
        THEN [cb |-> "bus", kind |-> TypeName(d.type), body |-> meta]
        ELSE Nothing
  BY DEF DispatchBinary
<1> HIDE DEF d, meta, pay
<1>3. f.type \in MsgTypes /\ f.meta \in Seq(0..255)
  BY DEF FrameType
<1>4. f.meta = <<>> => Len(f.meta) = 0
  OBVIOUS
<1>5. f.meta # <<>> => Len(f.meta) > 0
  BY <1>3
<1>6. <<>> \notin JsonTexts
  BY LinkAssumption DEF LinkAssumption
<1>7. CASE f.type = BINARY /\ f.meta # <<>>
  <2>1. ~d.ok
    BY <1>1, <1>7 DEF NoFrame
  <2> QED
    BY <1>2, <1>7, <2>1 DEF Says
<1>8. CASE f.type = BINARY /\ f.meta = <<>>
  BY <1>1, <1>2, <1>4, <1>8 DEF Says
<1>9. CASE f.type # BINARY /\ f.meta = <<>>
  BY <1>1, <1>2, <1>4, <1>6, <1>9 DEF Says
<1>10. CASE f.type # BINARY /\ f.meta # <<>>
  BY <1>1, <1>2, <1>3, <1>5, <1>10 DEF Says, TypeName
<1> QED
  BY <1>7, <1>8, <1>9, <1>10

-----------------------------------------------------------------------------
(* hm_crypto_decrypt_binary.                                               *)

(* The bytes d are the sequences a, c and b, one after the other.          *)
Joined(a, c, b, d) ==
  /\ d \in Seq(0..255)
  /\ Len(d) = Len(a) + Len(c) + Len(b)
  /\ \A i \in 1..Len(a) : d[i] = a[i]
  /\ \A i \in 1..Len(b) : d[Len(a) + Len(c) + i] = b[i]

(* It takes apart what hm_crypto_encrypt_binary put together.              *)
LEMMA Unsealed ==
  ASSUME NEW a \in Seq(0..255), NEW c \in Seq(0..255), NEW b \in Seq(0..255),
         Len(a) = NonceSize(cipher), Len(b) = TagSize, cipher \in Ciphers,
         NEW d, d = a \o c \o b
  PROVE  Joined(a, c, b, d) /\ DecryptBinary(d) = Opened(a, b, c)
<1> DEFINE n == Len(a)
           k == Len(c)
           l == Len(d)
           ac == a \o c
<1>1. n \in Nat /\ k \in Nat
  OBVIOUS
<1>2. TagSize = 16
  BY DEF TagSize
<1>3. ac \in Seq(0..255) /\ Len(ac) = n + k
  BY ConcatProperties
<1>4. \A i \in 1..(n + k) : ac[i] = IF i <= n THEN a[i] ELSE c[i - n]
  BY ConcatProperties
<1>5. d = ac \o b
  OBVIOUS
<1> HIDE DEF ac
<1>6. Len(b) = 16
  BY <1>2
<1>7. d \in Seq(0..255) /\ l = (n + k) + 16
  <2>1. ac \o b \in Seq(0..255) /\ Len(ac \o b) = Len(ac) + Len(b)
    BY <1>3, ConcatProperties
  <2> QED
    BY <1>3, <1>5, <1>6, <2>1
<1>8. \A i \in 1..((n + k) + 16) : d[i] = IF i <= n + k THEN ac[i] ELSE b[i - (n + k)]
  <2>1. \A i \in 1..(Len(ac) + Len(b)) :
          (ac \o b)[i] = IF i <= Len(ac) THEN ac[i] ELSE b[i - Len(ac)]
    BY <1>3, ConcatProperties
  <2> HIDE DEF n, k
  <2> QED
    BY <1>3, <1>5, <1>6, <2>1
<1>9. \A i \in 1..n : d[i] = a[i]
  <2> HIDE DEF n, k, l
  <2> TAKE i \in 1..n
  <2>1. i \in 1..(n + k) /\ i \in 1..((n + k) + 16) /\ i <= n /\ i <= n + k
    BY <1>1
  <2> QED
    BY <1>4, <1>8, <2>1
<1>10. \A i \in 1..k : d[n + i] = c[i]
  <2> HIDE DEF n, k, l
  <2> TAKE i \in 1..k
  <2>1. /\ n + i \in 1..(n + k) /\ n + i \in 1..((n + k) + 16) /\ ~(n + i <= n)
        /\ n + i <= n + k /\ (n + i) - n = i
    BY <1>1
  <2> QED
    BY <1>4, <1>8, <2>1
<1>11. \A i \in 1..16 : d[(n + k) + i] = b[i]
  <2> HIDE DEF n, k, l
  <2> TAKE i \in 1..16
  <2>1. /\ (n + k) + i \in 1..((n + k) + 16)
        /\ ~((n + k) + i <= n + k)
        /\ ((n + k) + i) - (n + k) = i
    BY <1>1
  <2> QED
    BY <1>8, <2>1
<1>12. Slice(d, 0, n) = a
  <2>1. 0 + n <= l /\ \A i \in 1..n : d[0 + i] = a[i]
    BY <1>1, <1>7, <1>9
  <2> QED
    BY <1>7, <2>1, SliceIs
<1>13. Slice(d, n, k) = c
  <2>1. n + k <= l
    BY <1>1, <1>7
  <2> QED
    BY <1>1, <1>7, <1>10, <2>1, SliceIs
<1>14. Slice(d, n + k, 16) = b
  <2>1. n + k \in Nat /\ (n + k) + Len(b) <= l /\ Len(b) = 16
    BY <1>1, <1>2, <1>7
  <2> QED
    BY <1>7, <1>11, <2>1, SliceIs
<1> HIDE DEF n, k, l
<1>15. /\ 0 + 1 = 1 /\ 0 + n = n
       /\ (n + k) + 1 = l - TagSize + 1 /\ (n + k) + 16 = l
       /\ n + k = l - TagSize /\ ~(l < n + TagSize)
  BY <1>1, <1>2, <1>7
<1>16. /\ SubSeq(d, 1, n) = a /\ SubSeq(d, l - TagSize + 1, l) = b
       /\ SubSeq(d, n + 1, l - TagSize) = c
  BY <1>12, <1>13, <1>14, <1>15 DEF Slice
<1>17. DecryptBinary(d) = Opened(a, b, c)
  <2>1. NonceSize(cipher) = n
    BY DEF n
  <2> QED
    BY <1>15, <1>16, <2>1 DEF DecryptBinary, l
<1>18. Joined(a, c, b, d)
  <2>1. l = n + k + Len(b)
    BY <1>6, <1>7
  <2> QED
    BY <1>6, <1>7, <1>9, <1>11, <2>1 DEF Joined, n, k, l
<1> QED
  BY <1>17, <1>18

(* What it opens has the nonce in front, the tag at the end and the        *)
(* ciphertext between them.                                                *)
LEMMA OpenedShape ==
  ASSUME NEW p \in Seq(0..255), cipher \in Ciphers, NEW x \in DecryptBinary(p)
  PROVE  /\ x \in seals /\ x.key = key
         /\ Len(p) >= NonceSize(cipher) + TagSize
         /\ x.nonce = SubSeq(p, 1, NonceSize(cipher))
         /\ x.tag = SubSeq(p, Len(p) - TagSize + 1, Len(p))
         /\ Len(x.ct) = Len(p) - TagSize - NonceSize(cipher)
<1> DEFINE n == NonceSize(cipher)
           l == Len(p)
           u == SubSeq(p, n + 1, l - TagSize)
<1>1. n \in {12, 16} /\ l \in Nat /\ TagSize = 16
  BY NonceSizes DEF TagSize
<1>2. ~(l < n + TagSize)
  BY DEF DecryptBinary
<1>3. /\ x \in seals /\ x.key = key /\ x.nonce = SubSeq(p, 1, n)
      /\ x.tag = SubSeq(p, l - TagSize + 1, l) /\ x.ct = u
  BY <1>2 DEF DecryptBinary, Opened
<1>4. Len(u) = l - TagSize - n
  <2> DEFINE i == n + 1
             j == l - TagSize
  <2>1. /\ i \in Int /\ j \in Int /\ (IF i <= j THEN j - i + 1 ELSE 0) = l - TagSize - n
        /\ \A m \in i..j : m \in 1..l
    BY <1>1, <1>2
  <2>2. \A m \in i..j : p[m] \in 0..255
    BY <2>1, ElementOfSeq
  <2> HIDE DEF i, j
  <2>3. Len(SubSeq(p, i, j)) = IF i <= j THEN j - i + 1 ELSE 0
    BY <2>1, <2>2, SubSeqProperties
  <2> QED
    BY <2>1, <2>3 DEF i, j
<1> HIDE DEF u
<1>5. l >= n + TagSize
  BY <1>1, <1>2
<1> QED
  BY <1>3, <1>4, <1>5

-----------------------------------------------------------------------------
(* A binary message of this session.                                       *)

(* It has a nonce, a tag and a ciphertext of bytes, of the sizes the cipher*)
(* has.                                                                    *)
LEMMA SealShape ==
  ASSUME TypeOK, SealsKept, NEW s \in seals, s.key = key, ~IsText(s)
  PROVE  /\ s.nonce \in Seq(0..255) /\ Len(s.nonce) = NonceSize(cipher)
         /\ s.tag \in Seq(0..255) /\ Len(s.tag) = TagSize
         /\ s.ct \in Seq(0..255) /\ s.ct = FrameData(s.says) /\ s.says \in Frames
<1>1. s.says \in Frames /\ s.ct = FrameData(s.says)
  BY DEF SealsKept, Sealed, IsText
<1>2. PICK r \in Random[cipher] : s.nonce = r.nonce /\ s.tag = r.tag
  BY DEF SealsKept
<1>3. cipher \in Ciphers
  BY DEF TypeOK
<1>4. /\ r.nonce \in Seq(0..255) /\ Len(r.nonce) = NonceSize(cipher)
      /\ r.tag \in Seq(0..255) /\ Len(r.tag) = TagSize
  BY <1>3, LinkAssumption DEF LinkAssumption
<1> QED
  BY <1>1, <1>2, <1>4, FrameDataBytes

(* Two seals of this session with one nonce, or with one tag, are one.     *)
LEMMA OneSeal ==
  ASSUME TypeOK, SealsKept, NEW s \in seals, NEW t \in seals, s.key = key, t.key = key,
         s.nonce = t.nonce \/ s.tag = t.tag
  PROVE  s = t
<1>1. PICK r \in Random[cipher] : s.nonce = r.nonce /\ s.tag = r.tag
  BY DEF SealsKept
<1>2. PICK q \in Random[cipher] : t.nonce = q.nonce /\ t.tag = q.tag
  BY DEF SealsKept
<1>3. cipher \in Ciphers
  BY DEF TypeOK
<1>4. q.tag = r.tag => q.nonce = r.nonce
  BY <1>3, LinkAssumption DEF LinkAssumption
<1>5. s.nonce = t.nonce
  BY <1>1, <1>2, <1>4
<1> QED
  BY <1>5 DEF SealsKept

(* The whole of it opens to what the hub sealed, and to nothing else.      *)
LEMMA WholeOpens ==
  ASSUME TypeOK, SealsKept, NEW s \in seals, s.key = key, ~IsText(s)
  PROVE  DecryptBinary(BinaryData(s)) = {s}
<1>1. cipher \in Ciphers
  BY DEF TypeOK
<1>2. DecryptBinary(BinaryData(s)) = Opened(s.nonce, s.tag, s.ct)
  <2> DEFINE a == s.nonce
             b == s.tag
             c == s.ct
             d == BinaryData(s)
  <2>1. /\ a \in Seq(0..255) /\ Len(a) = NonceSize(cipher)
        /\ b \in Seq(0..255) /\ Len(b) = TagSize
        /\ c \in Seq(0..255)
    BY SealShape
  <2>2. d = a \o c \o b
    BY DEF BinaryData
  <2> HIDE DEF a, b, c, d
  <2>3. DecryptBinary(d) = Opened(a, b, c)
    BY <1>1, <2>1, <2>2, Unsealed
  <2> QED
    BY <2>3 DEF a, b, c, d
<1>3. s \in Opened(s.nonce, s.tag, s.ct)
  BY DEF Opened
<1>4. \A t \in Opened(s.nonce, s.tag, s.ct) : t = s
  BY OneSeal DEF Opened
<1> QED
  BY <1>2, <1>3, <1>4

(* The bytes from i to j.                                                  *)
Part(d, i, j, p) ==
  /\ p \in Seq(0..255) /\ Len(p) = j - i + 1
  /\ \A m \in 1..(j - i + 1) : p[m] = d[i + m - 1]

(* SubSeq gives these.                                                     *)
LEMMA PartOf ==
  ASSUME NEW d \in Seq(0..255), NEW i \in 1..Len(d), NEW j \in i..Len(d)
  PROVE  Part(d, i, j, SubSeq(d, i, j))
<1> DEFINE l == Len(d)
           r == j - i + 1
           u == SubSeq(d, i, j)
<1>1. l \in Nat /\ i \in Int /\ j \in Int /\ 1 <= i /\ i <= j /\ j <= l
  OBVIOUS
<1>2. \A m \in i..j : d[m] \in 0..255
  <2>1. \A m \in i..j : m \in 1..l
    BY <1>1
  <2> QED
    BY <2>1, ElementOfSeq
<1>3. (IF i <= j THEN j - i + 1 ELSE 0) = r
  BY <1>1
<1> HIDE DEF r, l
<1>4. u \in Seq(0..255) /\ Len(u) = r /\ \A m \in 1..r : u[m] = d[i + m - 1]
  BY <1>1, <1>2, <1>3, SubSeqProperties
<1> QED
  BY <1>4 DEF Part, r

(* What a piece of nonce, ciphertext and tag opens to: the beginning has   *)
(* the nonce, the end has the tag, and no piece the ciphertext.            *)
Fits(x, a, c, b, d, i, j) ==
  /\ x \in seals /\ x.key = key
  /\ i = 1 => x.nonce = a
  /\ j = Len(d) => x.tag = b
  /\ ~(i = 1 /\ j = Len(d)) => x.ct # c

(* What hm_crypto_decrypt_binary opens from the bytes i to j fits.         *)
LEMMA PieceShape ==
  ASSUME NEW a \in Seq(0..255), NEW c \in Seq(0..255), NEW b \in Seq(0..255),
         Len(a) = NonceSize(cipher), Len(b) = TagSize, cipher \in Ciphers,
         NEW d, d = a \o c \o b,
         NEW i \in 1..Len(d), NEW j \in i..Len(d),
         NEW x \in DecryptBinary(SubSeq(d, i, j))
  PROVE  Fits(x, a, c, b, d, i, j)
<1> DEFINE n == Len(a)
           k == Len(c)
           l == Len(d)
           p == SubSeq(d, i, j)
           z == Len(p)
<1>1. TagSize = 16 /\ n \in Nat /\ k \in Nat /\ i \in Nat /\ j \in Nat /\ 1 <= i /\ i <= j
  BY DEF TagSize
<1>2. /\ d \in Seq(0..255)
      /\ l = n + k + Len(b)
      /\ \A m \in 1..n : d[m] = a[m]
      /\ \A m \in 1..Len(b) : d[n + k + m] = b[m]
  <2> HIDE DEF n, k, l, p, z
  <2>1. Joined(a, c, b, d)
    BY Unsealed
  <2> QED
    BY <2>1 DEF Joined, n, k, l
<1>3. l \in Nat /\ l = n + k + 16
  <2>1. l = n + k + 16
    BY <1>1, <1>2
  <2> HIDE DEF n, k, l
  <2> QED
    BY <1>1, <2>1
<1>4. p \in Seq(0..255) /\ z = j - i + 1 /\ \A m \in 1..(j - i + 1) : p[m] = d[i + m - 1]
  <2>1. d \in Seq(0..255)
    BY <1>2
  <2>2. Part(d, i, j, SubSeq(d, i, j))
    BY <2>1, PartOf
  <2> QED
    BY <2>2 DEF Part
<1> HIDE DEF p
<1>5. /\ x \in seals /\ x.key = key
      /\ z >= n + TagSize
      /\ x.nonce = SubSeq(p, 1, n)
      /\ x.tag = SubSeq(p, z - TagSize + 1, z)
      /\ Len(x.ct) = z - TagSize - n
  <2>1. x \in DecryptBinary(p)
    BY DEF p
  <2>2. /\ x \in seals /\ x.key = key
        /\ Len(p) >= NonceSize(cipher) + TagSize
        /\ x.nonce = SubSeq(p, 1, NonceSize(cipher))
        /\ x.tag = SubSeq(p, Len(p) - TagSize + 1, Len(p))
        /\ Len(x.ct) = Len(p) - TagSize - NonceSize(cipher)
    <3> HIDE DEF n, k, l, z
    <3> QED
      BY <1>4, <2>1, OpenedShape
  <2> QED
    BY <2>2
<1> HIDE DEF n, k, l, z
<1>6. z \in Nat /\ z >= n + 16 /\ z <= l
  BY <1>1, <1>3, <1>4, <1>5 DEF l
<1>7. ASSUME i = 1 PROVE x.nonce = a
  <2>1. \A m \in 1..n : p[0 + m] = a[m]
    <3> TAKE m \in 1..n
    <3>1. m \in 1..(j - i + 1) /\ i + m - 1 = m /\ 0 + m = m
      BY <1>1, <1>4, <1>6, <1>7
    <3> QED
      BY <1>2, <1>4, <3>1 DEF n
  <2>2. 0 + n <= z
    BY <1>1, <1>6
  <2>3. Slice(p, 0, n) = a
    BY <1>4, <2>1, <2>2, SliceIs DEF n, z
  <2>4. 0 + 1 = 1 /\ 0 + n = n
    BY <1>1
  <2> QED
    BY <1>5, <2>3, <2>4 DEF Slice
<1>8. ASSUME j = Len(d) PROVE x.tag = b
  <2> DEFINE e == z - 16
  <2>1. e \in Nat /\ e + 16 = z
    BY <1>1, <1>6
  <2>2. \A m \in 1..16 : p[e + m] = b[m]
    <3> TAKE m \in 1..16
    <3>1. e + m \in 1..(j - i + 1)
      BY <1>4, <2>1
    <3>2. i + (e + m) - 1 = n + k + m
      <4>1. j = n + k + 16 /\ z = j - i + 1
        BY <1>3, <1>4, <1>8 DEF l
      <4> QED
        BY <1>1, <4>1
    <3>3. p[e + m] = d[i + (e + m) - 1]
      BY <1>4, <3>1
    <3>4. d[n + k + m] = b[m]
      BY <1>1, <1>2 DEF n, k
    <3> QED
      BY <3>2, <3>3, <3>4
  <2>3. e + 1 = z - TagSize + 1
    BY <1>1, <1>6
  <2> HIDE DEF e
  <2>4. Slice(p, e, 16) = b
    <3>1. Len(b) = 16
      BY <1>1
    <3>2. e + 16 <= z
      BY <1>6, <2>1
    <3> QED
      BY <1>4, <2>1, <2>2, <3>1, <3>2, SliceIs DEF z
  <2> QED
    BY <1>5, <2>1, <2>4, <2>3 DEF Slice
<1>9. ASSUME ~(i = 1 /\ j = Len(d)) PROVE x.ct # c
  <2>1. z < l
    <3>1. CASE i # 1
      BY <1>3, <1>4, <3>1 DEF l
    <3>2. CASE j # Len(d)
      BY <1>3, <1>4, <3>2 DEF l
    <3> QED
      BY <1>9, <3>1, <3>2
  <2>2. Len(x.ct) < k
    BY <1>1, <1>3, <1>5, <1>6, <2>1
  <2> QED
    BY <1>1, <2>2 DEF k
<1> QED
  BY <1>5, <1>7, <1>8, <1>9 DEF Fits

(* The beginning or the end of a message opens to nothing.                 *)
LEMMA PieceLost ==
  ASSUME TypeOK, SealsKept, NEW s \in seals, s.key = key, ~IsText(s),
         NEW i \in 1..Len(BinaryData(s)), NEW j \in i..Len(BinaryData(s)),
         i = 1 \/ j = Len(BinaryData(s)), ~(i = 1 /\ j = Len(BinaryData(s)))
  PROVE  DecryptBinary(SubSeq(BinaryData(s), i, j)) = {}
<1>1. PICK a, b, c, d : a = s.nonce /\ b = s.tag /\ c = s.ct /\ d = BinaryData(s)
  OBVIOUS
<1> SUFFICES ASSUME NEW x \in DecryptBinary(SubSeq(d, i, j)) PROVE FALSE
  BY <1>1
<1>2. /\ a \in Seq(0..255) /\ Len(a) = NonceSize(cipher)
      /\ b \in Seq(0..255) /\ Len(b) = TagSize
      /\ c \in Seq(0..255) /\ cipher \in Ciphers
  BY <1>1, SealShape DEF TypeOK
<1>3. d = a \o c \o b
  BY <1>1 DEF BinaryData
<1>4. i \in 1..Len(d) /\ j \in i..Len(d) /\ (i = 1 \/ j = Len(d)) /\ ~(i = 1 /\ j = Len(d))
  BY <1>1
<1>5. Fits(x, a, c, b, d, i, j)
  BY <1>2, <1>3, <1>4, PieceShape
<1>6. x = s
  BY <1>1, <1>4, <1>5, OneSeal DEF Fits
<1> QED
  BY <1>1, <1>4, <1>5, <1>6 DEF Fits

-----------------------------------------------------------------------------
(* Deliveries.                                                             *)

(* What a delivered binary message of this session says to the             *)
(* application: all of it, or nothing when it comes in pieces.             *)
LEMMA FrameDelivered ==
  ASSUME TypeOK, SealsKept, NEW s \in seals, DeliverBinary(s),
         s.says \in FrameType, ready, s.key = key
  PROVE  last'.got = IF Whole(s) THEN Says(s.says) ELSE Nothing
<1> DEFINE d == BinaryData(s)
           l == Len(d)
<1>1. ~IsText(s)
  BY DEF DeliverBinary
<1>2. PICK p \in DataPieces(s) : Take(s, DecryptBinary(p))
  <2>1. PICK p \in DataPieces(s) : Take(s, IF ready THEN DecryptBinary(p) ELSE {})
    BY DEF DeliverBinary
  <2> QED
    BY <2>1
<1>3. last'.got = IF DecryptBinary(p) = {} THEN Nothing
                  ELSE Dispatch(CHOOSE o \in DecryptBinary(p) : TRUE)
  BY <1>2 DEF Take
<1>4. WsBuffer \in Nat \ {0}
  BY LinkAssumption DEF LinkAssumption
<1>5. l \in Nat /\ Size(s) = l
  <2>1. /\ s.nonce \in Seq(0..255) /\ s.ct \in Seq(0..255) /\ s.tag \in Seq(0..255)
    BY <1>1, SealShape
  <2>2. d \in Seq(0..255)
    BY <2>1 DEF BinaryData
  <2> QED
    BY <1>1, <2>2 DEF Size
<1>6. CASE Whole(s)
  <2>1. p = d
    BY <1>2, <1>6 DEF DataPieces, Whole
  <2>2. DecryptBinary(p) = {s}
    BY <1>1, <2>1, WholeOpens
  <2>3. last'.got = Dispatch(s)
    <3>1. (CHOOSE o \in {s} : TRUE) = s
      OBVIOUS
    <3> QED
      BY <1>3, <2>2, <3>1
  <2>4. Dispatch(s) = DispatchBinary(FrameOf(s.says))
    BY <1>1, SealShape DEF Dispatch, FrameData
  <2> QED
    BY <1>6, <2>3, <2>4, FrameDispatch
<1>7. CASE ~Whole(s)
  <2>1. WsBuffer < l
    BY <1>4, <1>5, <1>7 DEF Whole
  <2>2. p \in {SubSeq(d, 1, WsBuffer), SubSeq(d, WsBuffer + 1, Len(d))}
    BY <1>2, <1>7 DEF DataPieces, Whole
  <2>3. /\ 1 \in 1..l /\ WsBuffer \in 1..l /\ WsBuffer # l
        /\ WsBuffer + 1 \in 1..l /\ l \in (WsBuffer + 1)..l /\ WsBuffer + 1 # 1
    BY <1>4, <1>5, <2>1
  <2>4. DecryptBinary(SubSeq(d, 1, WsBuffer)) = {}
    BY <1>1, <2>3, PieceLost
  <2>5. DecryptBinary(SubSeq(d, WsBuffer + 1, l)) = {}
    BY <1>1, <2>3, PieceLost
  <2> QED
    BY <1>7, <1>3, <2>2, <2>4, <2>5
<1> QED
  BY <1>6, <1>7

(* Only the delivery of a binary message can disturb FrameComesBack.       *)
LEMMA FrameComesBackStep ==
  TypeOK /\ SealsKept /\ FrameComesBack /\ [Next]_vars => FrameComesBack'
<1> SUFFICES ASSUME TypeOK, SealsKept, FrameComesBack, [Next]_vars
             PROVE  FrameComesBack'
  OBVIOUS
<1>1. CASE last'.event # "delivered"
  BY <1>1 DEF FrameComesBack, Delivered
<1>2. CASE UNCHANGED vars
  BY <1>2 DEF FrameComesBack, Delivered, Own, Whole, vars
<1>3. ASSUME NEW s \in seals, DeliverText(s) \/ DeliverBinary(s)
      PROVE  FrameComesBack'
  <2>1. last'.seal = s /\ UNCHANGED <<ready, key>>
    BY <1>3 DEF DeliverText, DeliverBinary, Take, context
  <2>2. ASSUME s.says \in FrameType, ready, s.key = key
        PROVE  last'.got = IF Whole(s) THEN Says(s.says) ELSE Nothing
    <3>1. s.says \notin Envelopes
      BY <2>2, LinkAssumption DEF LinkAssumption
    <3>2. DeliverBinary(s)
      BY <1>3, <3>1 DEF DeliverText, IsText
    <3> QED
      BY <2>2, <3>2, FrameDelivered
  <2> QED
    BY <2>1, <2>2 DEF FrameComesBack, Own, Whole
<1>4. ASSUME NEW n \in Sizes, SendBus(n) \/ SendBinary(n) PROVE last'.event # "delivered"
  BY <1>4, SendEvents
<1>5. ASSUME Connect \/ Disconnected \/ HubSealText \/ HubSealBinary
             \/ \E e \in Named, c \in Ciphers \cup {None} : ShakeResponse(e, c)
      PROVE  last'.event # "delivered"
  BY <1>5 DEF Connect, Disconnected, HubSealText, HubSealBinary, HubSeal, ShakeResponse,
              NoEvent, None
<1> QED
  BY <1>1, <1>2, <1>3, <1>4, <1>5 DEF Next

-----------------------------------------------------------------------------
(* A JSON message of this session.                                         *)

(* It has a nonce, a tag and a ciphertext, in the encoding of the session. *)
LEMMA TextShape ==
  ASSUME TypeOK, SealsKept, NEW s \in seals, s.key = key, IsText(s)
  PROVE  /\ s.enc = enc /\ enc \in Encodings
         /\ s.nonce \in Seq(0..255) /\ Len(s.nonce) = NonceSize(cipher)
         /\ s.tag \in Seq(0..255) /\ Len(s.tag) = TagSize
         /\ s.ct \in Seq(0..255) /\ s.ct # <<>>
<1>1. PICK r \in Random[cipher] : s.nonce = r.nonce /\ s.tag = r.tag
  BY DEF SealsKept
<1>2. cipher \in Ciphers /\ enc \in Encodings /\ s.enc = enc
  BY DEF TypeOK, SealsKept
<1>3. /\ r.nonce \in Seq(0..255) /\ Len(r.nonce) = NonceSize(cipher)
      /\ r.tag \in Seq(0..255) /\ Len(r.tag) = TagSize
  BY <1>2, LinkAssumption DEF LinkAssumption
<1>4. s.ct \in Ciphertexts
  BY DEF SealsKept, Sealed, IsText
<1>5. s.ct \in Seq(0..255) /\ s.ct # <<>>
  BY <1>4, LinkAssumption DEF LinkAssumption
<1> QED
  BY <1>1, <1>2, <1>3, <1>5

(* Its nonce opens it, with its tag and ciphertext, and nothing else.      *)
LEMMA OpensOnly ==
  ASSUME TypeOK, SealsKept, NEW s \in seals, s.key = key, NEW tag, NEW ct
  PROVE  Opened(s.nonce, tag, ct) = IF tag = s.tag /\ ct = s.ct THEN {s} ELSE {}
<1>1. \A t \in Opened(s.nonce, tag, ct) : t = s
  BY OneSeal DEF Opened
<1>2. s \in Opened(s.nonce, tag, ct) <=> tag = s.tag /\ ct = s.ct
  BY DEF Opened
<1> QED
  BY <1>1, <1>2

(* What a decoder makes of a field: the bytes, or something of no use.     *)
Decoded(r, e, bytes) == IF Spoilt(e, bytes) THEN Lost(r, bytes) ELSE r = bytes

(* No nonce is as short as nothing or as an error return.                  *)
LEMMA Apart ==
  ASSUME NEW x \in {0, 1}, NEW y \in {12, 16}
  PROVE  x # y
OBVIOUS

(* An error return is no bytes.                                            *)
LEMMA NotRefused ==
  ASSUME NEW b \in Seq(0..255)
  PROVE  b # Refused
<1> SUFFICES ASSUME b = Refused PROVE FALSE
  OBVIOUS
<1>1. Len(b) = 1 /\ b[1] = 256
  BY DEF Refused
<1>2. 1 \in 1..Len(b)
  BY <1>1
<1>3. b[1] \in 0..255
  BY <1>2, ElementOfSeq
<1> QED
  BY <1>1, <1>3

(* The nonce and the tag are 16 bytes at most, and whole words of four.    *)
LEMMA SmallFieldBack ==
  ASSUME NEW e \in Encodings, NEW b \in Seq(0..255), Len(b) \in {12, 16},
         NEW r, r = Decode(e, Field(e, Encode(e, b)), 16)
  PROVE  Decoded(r, e, b) /\ (Spoilt(e, b) => Len(r) # Len(b))
<1>1. Room(e, b, 16)
  <2>1. PICK n \in {12, 16} : n = Len(b)
    OBVIOUS
  <2>2. Rest(12, 4) = 0 /\ Rest(16, 4) = 0
    BY DEF Rest
  <2>3. Rest(n, 4) = 0 /\ n + 0 <= 16
    BY <2>2
  <2> QED
    BY <2>1, <2>3 DEF Room
<1>2. b # <<>>
  OBVIOUS
<1>3. Decoded(r, e, b)
  BY <1>1, <1>2, FieldBackOrLost DEF Decoded
<1>4. r = Refused => Len(r) # Len(b)
  <2>1. Len(Refused) = 1 /\ 1 \in {0, 1}
    BY DEF Refused
  <2>2. Len(Refused) # Len(b)
    BY <2>1, Apart
  <2> QED
    BY <2>2
<1>5. Spoilt(e, b) => r = Refused \/ Len(r) # Len(b)
  BY <1>3 DEF Decoded, Lost
<1> QED
  BY <1>3, <1>4, <1>5

(* The ciphertext has the room of its field.                               *)
LEMMA LargeFieldBack ==
  ASSUME NEW e \in Encodings, NEW b \in Seq(0..255), b # <<>>,
         NEW r, r = Decode(e, Field(e, Encode(e, b)), Len(Encode(e, b)))
  PROVE  Decoded(r, e, b)
<1>1. PICK l \in Nat : l = Len(Encode(e, b)) /\ Room(e, b, l)
  BY FieldRoomEnough
<1>2. r = Decode(e, Field(e, Encode(e, b)), l)
  BY <1>1
<1> QED
  BY <1>1, <1>2, FieldBackOrLost DEF Decoded

(* The three of them, whole.                                               *)
Unspoilt(s) == \A bytes \in {s.nonce, s.tag, s.ct} : ~Spoilt(s.enc, bytes)

(* They open what the hub sealed if they all come back and it is not too   *)
(* long.                                                                   *)
LEMMA WholeTextOpens ==
  ASSUME TypeOK, SealsKept, NEW s \in seals, s.key = key, IsText(s)
  PROVE  DecryptJson(TextFields(s)) =
           IF Len(s.ct) < EnvelopeBuffer /\ Unspoilt(s) THEN {s} ELSE {}
<1> DEFINE m == TextFields(s)
<1>1. /\ s.enc = enc /\ enc \in Encodings
      /\ s.nonce \in Seq(0..255) /\ Len(s.nonce) = NonceSize(cipher)
      /\ s.tag \in Seq(0..255) /\ Len(s.tag) = TagSize
      /\ s.ct \in Seq(0..255) /\ s.ct # <<>>
  BY TextShape
<1>2. /\ m.nonce = Encode(enc, s.nonce) /\ m.tag = Encode(enc, s.tag)
      /\ m.ct = Encode(enc, s.ct)
  BY <1>1 DEF TextFields
<1> HIDE DEF m
<1>3. PICK nonce : nonce = Decode(enc, Field(enc, m.nonce), 16)
  OBVIOUS
<1>4. PICK tag : tag = Decode(enc, Field(enc, m.tag), TagSize)
  OBVIOUS
<1>5. PICK ct : ct = Decode(enc, Field(enc, m.ct), Len(m.ct))
  OBVIOUS
<1>6. Decoded(nonce, enc, s.nonce) /\ (Spoilt(enc, s.nonce) => Len(nonce) # Len(s.nonce))
  <2>1. Len(s.nonce) \in {12, 16}
    BY <1>1, NonceSizes DEF TypeOK
  <2> QED
    BY <1>1, <1>2, <1>3, <2>1, SmallFieldBack
<1>7. Decoded(tag, enc, s.tag) /\ (Spoilt(enc, s.tag) => Len(tag) # Len(s.tag))
  <2>1. Len(s.tag) \in {12, 16} /\ TagSize = 16
    BY <1>1 DEF TagSize
  <2> QED
    BY <1>1, <1>2, <1>4, <2>1, SmallFieldBack
<1>8. Decoded(ct, enc, s.ct)
  BY <1>1, <1>2, <1>5, LargeFieldBack
<1>9. DecryptJson(m) = IF /\ Len(nonce) = NonceSize(cipher) /\ Len(tag) = TagSize
                          /\ ct # Refused /\ Len(ct) <= EnvelopeBuffer - 1
                       THEN Opened(nonce, tag, ct) ELSE {}
  BY <1>3, <1>4, <1>5 DEF DecryptJson
<1>10. CASE Spoilt(enc, s.nonce) \/ Spoilt(enc, s.tag)
  <2>1. DecryptJson(m) = {}
    BY <1>1, <1>6, <1>7, <1>9, <1>10
  <2> QED
    BY <1>1, <1>10, <2>1 DEF Unspoilt, m
<1>11. CASE ~(Spoilt(enc, s.nonce) \/ Spoilt(enc, s.tag))
  <2>1. nonce = s.nonce /\ tag = s.tag
    BY <1>6, <1>7, <1>11 DEF Decoded
  <2>2. Opened(nonce, tag, ct) = IF ct = s.ct THEN {s} ELSE {}
    BY <2>1, OpensOnly
  <2>3. CASE Spoilt(enc, s.ct)
    <3>1. ct = Refused \/ ct # s.ct
      BY <1>8, <2>3 DEF Decoded, Lost
    <3>2. DecryptJson(m) = {}
      BY <1>9, <2>2, <3>1
    <3> QED
      BY <1>1, <2>3, <3>2 DEF Unspoilt, m
  <2>4. CASE ~Spoilt(enc, s.ct)
    <3>1. ct = s.ct
      BY <1>8, <2>4 DEF Decoded
    <3>2. ct # Refused
      <4>1. s.ct # Refused
        BY <1>1, NotRefused
      <4> QED
        BY <3>1, <4>1
    <3>3. Len(s.ct) <= EnvelopeBuffer - 1 <=> Len(s.ct) < EnvelopeBuffer
      BY <1>1 DEF EnvelopeBuffer
    <3>4. Unspoilt(s)
      BY <1>1, <1>11, <2>4 DEF Unspoilt
    <3>5. DecryptJson(m) = IF Len(s.ct) < EnvelopeBuffer THEN {s} ELSE {}
      BY <1>1, <1>9, <2>1, <2>2, <3>1, <3>2, <3>3
    <3> QED
      BY <3>4, <3>5 DEF m
  <2> QED
    BY <2>3, <2>4
<1> QED
  BY <1>10, <1>11

(* A piece of it lacks the nonce or the ciphertext and opens nothing.      *)
LEMMA TextPieceLost ==
  ASSUME TypeOK, SealsKept, NEW s \in seals, s.key = key, IsText(s),
         NEW m, m \in {[TextFields(s) EXCEPT !.nonce = <<>>],
                       [TextFields(s) EXCEPT !.ct = <<>>]}
  PROVE  DecryptJson(m) = {}
<1>1. /\ s.enc = enc /\ enc \in Encodings
      /\ s.nonce \in Seq(0..255) /\ Len(s.nonce) = NonceSize(cipher)
      /\ s.ct \in Seq(0..255) /\ s.ct # <<>>
  BY TextShape
<1>2. NonceSize(cipher) \in {12, 16}
  BY NonceSizes DEF TypeOK
<1>3. PICK nonce : nonce = Decode(enc, Field(enc, m.nonce), 16)
  OBVIOUS
<1>4. PICK tag : tag = Decode(enc, Field(enc, m.tag), TagSize)
  OBVIOUS
<1>5. PICK ct : ct = Decode(enc, Field(enc, m.ct), Len(m.ct))
  OBVIOUS
<1>6. DecryptJson(m) = IF /\ Len(nonce) = NonceSize(cipher) /\ Len(tag) = TagSize
                          /\ ct # Refused /\ Len(ct) <= EnvelopeBuffer - 1
                       THEN Opened(nonce, tag, ct) ELSE {}
  BY <1>3, <1>4, <1>5 DEF DecryptJson
<1>7. Len(<<>>) = 0 /\ Len(Refused) = 1 /\ 0 \in Nat /\ 16 \in Nat
  BY DEF Refused
<1>8. CASE m = [TextFields(s) EXCEPT !.nonce = <<>>]
  <2>1. m.nonce = <<>>
    BY <1>8 DEF TextFields
  <2>2. nonce \in {<<>>, Refused}
    BY <1>1, <1>3, <1>7, <2>1, EmptyBack
  <2>3. Len(nonce) \in {0, 1}
    BY <1>7, <2>2
  <2>4. Len(nonce) # NonceSize(cipher)
    BY <1>2, <2>3, Apart
  <2> QED
    BY <1>6, <2>4
<1>9. CASE m = [TextFields(s) EXCEPT !.ct = <<>>]
  <2>1. m.ct = <<>> /\ m.nonce = Encode(enc, s.nonce)
    BY <1>1, <1>9 DEF TextFields
  <2>2. ct \in {<<>>, Refused}
    BY <1>1, <1>5, <1>7, <2>1, EmptyBack
  <2>3. Decoded(nonce, enc, s.nonce) /\ (Spoilt(enc, s.nonce) => Len(nonce) # Len(s.nonce))
    BY <1>1, <1>2, <1>3, <2>1, SmallFieldBack
  <2>4. CASE Len(nonce) # NonceSize(cipher) \/ ct = Refused
    BY <1>6, <2>4
  <2>5. CASE Len(nonce) = NonceSize(cipher) /\ ct # Refused
    <3>1. nonce = s.nonce /\ ct # s.ct
      BY <1>1, <2>2, <2>3, <2>5 DEF Decoded
    <3>2. Opened(nonce, tag, ct) = {}
      BY <3>1, OpensOnly
    <3> QED
      BY <1>6, <3>2
  <2> QED
    BY <2>4, <2>5
<1> QED
  BY <1>8, <1>9

(* What a delivered JSON message of this session says to the application.  *)
LEMMA TextDelivered ==
  ASSUME TypeOK, SealsKept, NEW s \in seals, DeliverText(s), s.key = key,
         DispatchEnvelope(s.says) # Nothing
  PROVE  last'.got = DispatchEnvelope(s.says) <=>
           Whole(s) /\ Len(s.ct) < EnvelopeBuffer /\ Unspoilt(s)
<1>1. IsText(s)
  BY DEF DeliverText
<1>2. PICK m \in TextPieces(s) : Take(s, DecryptJson(m))
  BY DEF DeliverText
<1>3. last'.got = IF DecryptJson(m) = {} THEN Nothing
                  ELSE Dispatch(CHOOSE o \in DecryptJson(m) : TRUE)
  BY <1>2 DEF Take
<1>4. CASE Whole(s)
  <2>1. m = TextFields(s)
    BY <1>2, <1>4 DEF TextPieces, Whole
  <2>2. DecryptJson(m) = IF Len(s.ct) < EnvelopeBuffer /\ Unspoilt(s) THEN {s} ELSE {}
    BY <1>1, <2>1, WholeTextOpens
  <2>3. CASE Len(s.ct) < EnvelopeBuffer /\ Unspoilt(s)
    <3>1. DecryptJson(m) = {s} /\ {s} # {} /\ (CHOOSE o \in {s} : TRUE) = s
      BY <2>2, <2>3
    <3>2. last'.got = Dispatch(s)
      BY <1>3, <3>1
    <3>3. Dispatch(s) = DispatchEnvelope(s.says)
      BY <1>1 DEF Dispatch
    <3> QED
      BY <1>4, <2>3, <3>2, <3>3
  <2>4. CASE ~(Len(s.ct) < EnvelopeBuffer /\ Unspoilt(s))
    BY <1>3, <2>2, <2>4
  <2> QED
    BY <2>3, <2>4
<1>5. CASE ~Whole(s)
  <2>1. m \in {[TextFields(s) EXCEPT !.nonce = <<>>], [TextFields(s) EXCEPT !.ct = <<>>]}
    BY <1>2, <1>5 DEF TextPieces, Whole
  <2>2. DecryptJson(m) = {}
    BY <1>1, <2>1, TextPieceLost
  <2> QED
    BY <1>3, <1>5, <2>2
<1> QED
  BY <1>4, <1>5

(* Only the delivery of a JSON message can disturb TextComesBack.          *)
LEMMA TextComesBackStep ==
  TypeOK /\ SealsKept /\ TextComesBack /\ [Next]_vars => TextComesBack'
<1> SUFFICES ASSUME TypeOK, SealsKept, TextComesBack, [Next]_vars
             PROVE  TextComesBack'
  OBVIOUS
<1>1. CASE last'.event # "delivered"
  BY <1>1 DEF TextComesBack, Delivered
<1>2. CASE UNCHANGED vars
  BY <1>2 DEF TextComesBack, Delivered, Own, Whole, vars
<1>3. ASSUME NEW s \in seals, DeliverText(s) \/ DeliverBinary(s)
      PROVE  TextComesBack'
  <2>1. last'.seal = s /\ UNCHANGED <<ready, key>>
    BY <1>3 DEF DeliverText, DeliverBinary, Take, context
  <2>2. ASSUME IsText(s), s.key = key, DispatchEnvelope(s.says) # Nothing
        PROVE  last'.got = DispatchEnvelope(s.says) <=>
                 Whole(s) /\ Len(s.ct) < EnvelopeBuffer /\ Unspoilt(s)
    <3>1. DeliverText(s)
      BY <1>3, <2>2 DEF DeliverBinary
    <3> QED
      BY <2>2, <3>1, TextDelivered
  <2> QED
    BY <2>1, <2>2 DEF TextComesBack, Own, Whole, Unspoilt
<1>4. ASSUME NEW n \in Sizes, SendBus(n) \/ SendBinary(n) PROVE last'.event # "delivered"
  BY <1>4, SendEvents
<1>5. ASSUME Connect \/ Disconnected \/ HubSealText \/ HubSealBinary
             \/ \E e \in Named, c \in Ciphers \cup {None} : ShakeResponse(e, c)
      PROVE  last'.event # "delivered"
  BY <1>5 DEF Connect, Disconnected, HubSealText, HubSealBinary, HubSeal, ShakeResponse,
              NoEvent, None
<1> QED
  BY <1>1, <1>2, <1>3, <1>4, <1>5 DEF Next

(* The bytes of a seal are decoded inside their bounds, whatever they are. *)
LEMMA SealsInBounds == SealsKept => InBounds
<1> SUFFICES ASSUME SealsKept, NEW s \in seals, ~IsText(s), DecodeFrame(s.ct).ok
             PROVE  LET f == DecodeFrame(s.ct) IN
                    /\ f.metaLen > 0 => f.metaAt + f.metaLen <= Len(s.ct)
                    /\ f.payLen > 0 => f.payAt + f.payLen <= Len(s.ct)
  BY DEF InBounds
<1>1. s.ct \in Seq(0..255)
  BY FrameDataBytes DEF SealsKept, Sealed, IsText
<1> QED
  BY <1>1, DecodeInside

-----------------------------------------------------------------------------
(* What holds in every reachable state.                                    *)

(* All parts of the inductive invariant do.                                *)
LEMMA Invariance == Spec => []IInv
<1>1. Init => IInv
  <2>1. Init => last.event = None /\ seals = {}  BY DEF Init, NoEvent
  <2>2. Init => SealsKept  BY <2>1 DEF SealsKept
  <2>3. Init => Authentic /\ TextComesBack /\ FrameComesBack /\ SendsFit
    BY <2>1 DEF Authentic, TextComesBack, FrameComesBack, Delivered, SendsFit, None
  <2> QED BY <2>2, <2>3, TypeInit DEF IInv
<1>2. IInv /\ [Next]_vars => IInv'
  BY TypeStep, SealsKeptStep, AuthenticStep, TextComesBackStep, FrameComesBackStep,
     SendsFitStep DEF IInv
<1> QED BY <1>1, <1>2, PTL DEF Spec

(* Every variable keeps its type; a key is of a session that began.        *)
THEOREM TypeCorrect == Spec => []TypeOK
<1>1. IInv => TypeOK  BY DEF IInv
<1> QED BY <1>1, Invariance, PTL

(* A legacy session dispatches what its hub said in it and nothing else,   *)
(* whatever the link does with the messages of all sessions.               *)
THEOREM LegacyAuthentic == Spec => []Authentic
<1>1. IInv => Authentic  BY DEF IInv
<1> QED BY <1>1, Invariance, PTL

(* No message of the application meets a buffer too small for it, short of *)
(* the limits of the envelope and of the JSON.                             *)
THEOREM SendsAlwaysFit == Spec => []SendsFit
<1>1. IInv => SendsFit  BY DEF IInv
<1> QED BY <1>1, Invariance, PTL

(* A JSON message of this session reaches the application as the hub wrote *)
(* it, through each of the seven encodings, unless a field is one its      *)
(* encoding spoils or the message is too long for a buffer: then it does   *)
(* not reach it at all.                                                    *)
THEOREM TextsComeBack == Spec => []TextComesBack
<1>1. IInv => TextComesBack  BY DEF IInv
<1> QED BY <1>1, Invariance, PTL

(* A binary frame of this session reaches the application as the hub wrote *)
(* it: through the bit-packed header, versioned or not, the nonce and tag  *)
(* around the ciphertext and the dispatch; one longer than the buffer of   *)
(* the websocket library reaches it not at all.                            *)
THEOREM FramesComeBack == Spec => []FrameComesBack
<1>1. IInv => FrameComesBack  BY DEF IInv
<1> QED BY <1>1, Invariance, PTL

(* hm_binary_decode never points outside the bytes it was given, whatever  *)
(* bytes a hub seals.                                                      *)
THEOREM FramesInBounds == Spec => []InBounds
<1>1. IInv => InBounds  BY SealsInBounds DEF IInv
<1> QED BY <1>1, Invariance, PTL
=============================================================================
