------------------------------- MODULE Encodings -------------------------------
(***************************************************************************)
(* The seven encodings of the fields of a sealed JSON message              *)
(* (hivemind_crypto.c).  Bytes are 0..255; a character is its index in the *)
(* alphabet of its encoding.  Case, and which alphabet a digit is written  *)
(* in, are left out; how bits become digits is not.                        *)
(***************************************************************************)
EXTENDS Naturals, SequencesExt

Encodings == {"HEX", "B64", "URLSAFE", "B32", "Z85B", "Z85P", "B91"}

Pad     == 100     \* "="
Quote   == 90      \* the last letter of the base91 alphabet, a quotation mark
Refused == <<256>> \* an error return

Base(enc) ==
  CASE enc = "HEX" -> 16 [] enc \in {"B64", "URLSAFE"} -> 64 [] enc = "B32" -> 32
    [] enc \in {"Z85B", "Z85P"} -> 85 [] enc = "B91" -> 91

(* Bit i of numbers of v bits, the first being bit 0 and the highest of    *)
(* its number; past the end it is 0.                                       *)
BitOf(s, v, i) ==
  IF i < v * Len(s) THEN (s[i \div v + 1] \div 2^(v - 1 - (i % v))) % 2 ELSE 0

Bit(bytes, i) == BitOf(bytes, 8, i)

(* The number that bits make, shifted in one by one.                       *)
Value(bits) ==
  LET v[n \in 0..Len(bits)] == IF n = 0 THEN 0 ELSE 2 * v[n - 1] + bits[n]
  IN  v[Len(bits)]

(* The w bits from bit k on.                                               *)
Word(bytes, k, w) == Value([n \in 1..w |-> Bit(bytes, k + n - 1)])

Rest(n, k) == (k - (n % k)) % k   \* what n lacks to a multiple of k

Filled(s, k, c) == s \o [i \in 1..Rest(Len(s), k) |-> c]

Unpadded(chars) ==
  SubSeq(chars, 1, Len(chars) - Cardinality({i \in DOMAIN chars :
                     \A j \in i..Len(chars) : chars[j] = Pad}))

-----------------------------------------------------------------------------
(* Base 16, 32 and 64: digits of w bits.                                   *)

Digits(bytes, w) ==
  [i \in 1..((8 * Len(bytes) + w - 1) \div w) |-> Word(bytes, (i - 1) * w, w)]

(* Every eight bits of the digits are a byte; what is left in the end is   *)
(* dropped.                                                                *)
Gather(chars, w) ==
  [i \in 1..((w * Len(chars)) \div 8) |->
     Value([n \in 1..8 |-> BitOf(chars, w, 8 * i - 8 + n - 1)])]

-----------------------------------------------------------------------------
(* Z85: four bytes, a 32-bit word, make five digits.  A word is <<h, l>>,  *)
(* its upper and lower 16 bits.                                            *)

Div85(v) == <<v[1] \div 85, ((v[1] % 85) * 65536 + v[2]) \div 85>>
Mod85(v) == ((v[1] % 85) * 65536 + v[2]) % 85
Times85Plus(v, c) ==
  <<(v[1] * 85 + (v[2] * 85 + c) \div 65536) % 65536, (v[2] * 85 + c) % 65536>>

Z85Digits(v) ==
  LET a == Div85(v)
      b == Div85(a)
      c == Div85(b)
      d == Div85(c)
  IN  <<Mod85(d), Mod85(c), Mod85(b), Mod85(a), Mod85(v)>>

(* z85b_encode fills the last word with zeros, z85_encode_padded with the  *)
(* number of the bytes it fills.                                           *)
EncodeZ85(bytes, fill) ==
  LET p == Filled(bytes, 4, fill)
      Group(i) == Z85Digits(<<256 * p[4*i + 1] + p[4*i + 2],
                              256 * p[4*i + 3] + p[4*i + 4]>>)
  IN  [k \in 1..(5 * (Len(p) \div 4)) |-> Group((k - 1) \div 5)[((k - 1) % 5) + 1]]

Z85Word(a, b, c, d, e) ==
  Times85Plus(Times85Plus(Times85Plus(Times85Plus(Times85Plus(<<0, 0>>, a), b), c), d), e)

Z85Bytes(chars) ==
  LET Group(i) ==
        LET v == Z85Word(chars[5*i + 1], chars[5*i + 2], chars[5*i + 3],
                         chars[5*i + 4], chars[5*i + 5])
        IN  <<v[1] \div 256, v[1] % 256, v[2] \div 256, v[2] % 256>>
  IN  [k \in 1..(4 * (Len(chars) \div 5)) |-> Group((k - 1) \div 4)[((k - 1) % 4) + 1]]

(* The decoder of Z85P takes a last byte of 1, 2 or 3 for a fill count.    *)
StripFill_Any(bytes) ==
  IF bytes # <<>> /\ Last(bytes) \in 1..(Len(bytes) - 1)
  THEN SubSeq(bytes, 1, Len(bytes) - Last(bytes)) ELSE bytes

StripFill(bytes) ==
  IF bytes # <<>> /\ Last(bytes) \in 1..3 /\ Last(bytes) < Len(bytes)
  THEN SubSeq(bytes, 1, Len(bytes) - Last(bytes)) ELSE bytes

-----------------------------------------------------------------------------
(* Base91: 13 bits, or 14 if the 13 are worth 88 at most, make two digits. *)
(* The code moves bits through a queue; here a word is named by the bit it *)
(* begins at.                                                              *)

(* The width of the pair whose low 13 bits are these.                      *)
PairBits(low13) == IF low13 > 88 THEN 13 ELSE 14

(* Here the lowest bit of a byte comes first.                              *)
LowBit(bytes, i) == (bytes[i \div 8 + 1] \div 2^(i % 8)) % 2
LowWord(bytes, k, w) == Value([n \in 1..w |-> LowBit(bytes, k + w - n)])
LowBits(val, w) == [n \in 1..w |-> (val \div 2^(n - 1)) % 2]

(* The width of the word that begins at bit p: a pair as long as there are *)
(* 14 bits, then what is left.                                             *)
Width(bytes, p) ==
  LET n == 8 * Len(bytes) - p
  IN  IF n > 13 THEN PairBits(LowWord(bytes, p, 13)) ELSE n

(* What is left in the end makes two digits, one, or none.                 *)
DigitsAt(bytes, p) ==
  LET w == Width(bytes, p)
      q == LowWord(bytes, p, w)
  IN  IF w = 0 THEN <<>> ELSE IF w > 7 \/ q > 90 THEN <<q % 91, q \div 91>> ELSE <<q>>

EncodeB91(bytes) ==
  LET end == 8 * Len(bytes)
      rest[p \in 0..end] ==
        DigitsAt(bytes, p) \o IF p + 13 < end THEN rest[p + Width(bytes, p)] ELSE <<>>
  IN  rest[0]

(* A last digit without a partner gives eight bits.                        *)
BitsAt(chars, i) ==
  LET val == chars[i + 1] + 91 * chars[i + 2]
  IN  IF i + 1 < Len(chars) THEN LowBits(val, PairBits(val % 8192))
      ELSE IF i < Len(chars) THEN LowBits(chars[i + 1], 8) ELSE <<>>

DecodeB91(chars) ==
  LET bits[i \in 0..Len(chars)] ==
        BitsAt(chars, i) \o IF i + 1 < Len(chars) THEN bits[i + 2] ELSE <<>>
      all == bits[0]
  IN  [k \in 1..(Len(all) \div 8) |-> Value([n \in 1..8 |-> all[8 * k + 1 - n]])]

-----------------------------------------------------------------------------
(* encode_field and decode_field.                                          *)

Encode(enc, bytes) ==
  CASE enc = "HEX"     -> Digits(bytes, 4)
    [] enc = "B64"     -> Filled(Digits(bytes, 6), 4, Pad)
    [] enc = "URLSAFE" -> Digits(bytes, 6)
    [] enc = "B32"     -> Filled(Digits(bytes, 5), 8, Pad)
    [] enc = "Z85B"    -> EncodeZ85(bytes, 0)
    [] enc = "Z85P"    -> EncodeZ85(bytes, Rest(Len(bytes), 4))
    [] enc = "B91"     -> EncodeB91(bytes)

(* The room an encoder asks for before it writes n bytes.                  *)
Need(enc, n) ==
  CASE enc = "HEX"                 -> 2 * n + 1
    [] enc \in {"B64", "URLSAFE"}  -> ((n + 2) \div 3) * 4 + 1
    [] enc = "B32"                 -> ((n + 4) \div 5) * 8 + 1
    [] enc \in {"Z85B", "Z85P"}    -> ((n + 3) \div 4) * 5 + 1
    [] enc = "B91"                 -> (n * 16) \div 13 + 3

(* What the decoders check before they decode.                             *)
WellFormed(enc, chars) ==
  /\ enc = "HEX" => Len(chars) % 2 = 0
  /\ enc = "B64" => Len(chars) % 4 = 0 /\ Len(chars) - Len(Unpadded(chars)) <= 2
  /\ enc = "URLSAFE" => Len(chars) % 4 # 1
  /\ enc \in {"Z85B", "Z85P"} => Len(chars) % 5 = 0
  /\ LET digits == IF enc \in {"B64", "B32"} THEN Unpadded(chars) ELSE chars
     IN  \A i \in DOMAIN digits : digits[i] < Base(enc)

Raw(enc, chars) ==
  CASE enc = "HEX"                -> Gather(chars, 4)
    [] enc \in {"B64", "URLSAFE"} -> Gather(Unpadded(chars), 6)
    [] enc = "B32"                -> Gather(Unpadded(chars), 5)
    [] enc \in {"Z85B", "Z85P"}   -> Z85Bytes(chars)
    [] enc = "B91"                -> DecodeB91(chars)

(* Into a buffer of this size.                                             *)
Decode(enc, chars, room) ==
  IF ~WellFormed(enc, chars) \/ Len(Raw(enc, chars)) > room THEN Refused
  ELSE IF enc = "Z85P" THEN StripFill(Raw(enc, chars)) ELSE Raw(enc, chars)

(* json_extract_field: up to the first quotation mark.  (A JSON writer     *)
(* that escapes it does not help: nothing here takes an escape back.)      *)
Field(enc, chars) ==
  LET cuts == {i \in DOMAIN chars : enc = "B91" /\ chars[i] = Quote}
  IN  IF cuts = {} THEN chars
      ELSE SubSeq(chars, 1, (CHOOSE i \in cuts : \A j \in cuts : i <= j) - 1)
=============================================================================
