------------------------------ MODULE BinaryFrame ------------------------------
(***************************************************************************)
(* The bit-packed frames of hivemind_binary.c.  Zeros and a marker bit     *)
(* stand in front, so that a frame ends on a byte:                         *)
(*   0.. 1 versioned [version:8] type:5 compressed:1 metalen:8 meta        *)
(*   [bintype:4] payload                                                   *)
(* where BINARY frames alone have a bintype.                               *)
(***************************************************************************)
EXTENDS Encodings

BINARY   == 12
BUS      == 1
MsgTypes == 0..13
BinTypes == 0..6

(* What a frame says, in no more than 255 bytes of metadata.  The client   *)
(* writes versioned frames, a hub may not.                                 *)
FrameType ==
  {f \in [type : MsgTypes, bin : BinTypes, versioned : BOOLEAN,
          meta : Seq(0..255), payload : Seq(0..255)] : Len(f.meta) <= 255}

BitsOf(v, w) == [i \in 1..w |-> (v \div 2^(w - i)) % 2]
BytesToBits(bytes) == [k \in 1..(8 * Len(bytes)) |-> Bit(bytes, k - 1)]

-----------------------------------------------------------------------------
(* hm_binary_encode.                                                       *)

(* The bytes of a frame with m bytes of metadata and n of payload.         *)
FrameBytes(type, m, n) ==
  (24 + 8 * m + 8 * n + (IF type = BINARY THEN 4 ELSE 0) + 7) \div 8

Content(f) ==
  <<1>> \o (IF f.versioned THEN <<1>> \o BitsOf(1, 8) ELSE <<0>>)
  \o BitsOf(f.type, 5) \o <<0>> \o BitsOf(Len(f.meta), 8) \o BytesToBits(f.meta)
  \o (IF f.type = BINARY THEN BitsOf(f.bin, 4) ELSE <<>>) \o BytesToBits(f.payload)

FrameOf(f) ==
  LET bits == [i \in 1..Rest(Len(Content(f)), 8) |-> 0] \o Content(f)
  IN  [i \in 1..(Len(bits) \div 8) |-> Value(SubSeq(bits, 8*i - 7, 8*i))]

-----------------------------------------------------------------------------
(* hm_binary_decode.                                                       *)

NoFrame == [ok |-> FALSE]

(* br_read_bits: past the end nothing is shifted in.                       *)
Read(data, k, w) ==
  LET total == 8 * Len(data)
  IN  IF k >= total THEN 0
      ELSE IF k + w > total THEN Word(data, k, total - k) ELSE Word(data, k, w)

(* br_read_bytes: whole bytes, inside the data.                            *)
Readable_Anywhere(data, k, n) == k % 8 = 0
Readable(data, k, n) == k % 8 = 0 /\ k \div 8 + n <= Len(data)

(* The flag and, where it is set, the version stand before the type.       *)
HeadBits_Versioned(versioned) == 9
HeadBits(versioned) == IF versioned THEN 9 ELSE 1

DecodeAfter(data, marker) ==
  LET versioned == Read(data, marker + 1, 1) = 1
      head      == marker + 1 + HeadBits(versioned)
      type      == Read(data, head, 5)
      metaLen   == Read(data, head + 6, 8)
      metaAt    == head + 14
      binAt     == metaAt + 8 * metaLen
      payAt     == IF type = BINARY THEN binAt + 4 ELSE binAt
  IN  IF \/ metaLen > 0 /\ ~Readable(data, metaAt, metaLen)
         \/ payAt % 8 # 0
      THEN NoFrame
      ELSE [ok |-> TRUE, type |-> type,
            bin |-> IF type = BINARY THEN Read(data, binAt, 4) ELSE 0,
            metaAt |-> metaAt \div 8, metaLen |-> metaLen,
            payAt  |-> payAt \div 8,
            payLen |-> IF payAt \div 8 < Len(data) THEN Len(data) - payAt \div 8 ELSE 0]

(* The marker is the first 1; it may not be the last bit.                  *)
DecodeFrame(data) ==
  LET ones == {k \in 0..(8 * Len(data) - 1) : Word(data, k, 1) = 1}
  IN  IF \A k \in ones : k = 8 * Len(data) - 1 THEN NoFrame
      ELSE DecodeAfter(data, CHOOSE k \in ones : \A l \in ones : k <= l)

(* n bytes from offset at on.                                              *)
Slice(data, at, n) == SubSeq(data, at + 1, at + n)

(* hm_msg_type_str.                                                        *)
TypeName(type) == IF type \in MsgTypes THEN type ELSE "UNKNOWN"
=============================================================================
