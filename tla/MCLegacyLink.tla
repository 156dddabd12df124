------------------------------ MODULE MCLegacyLink -----------------------------
(***************************************************************************)
(* LegacyLink under TLC.  The buffer of the websocket library is cut to    *)
(* 109 bytes: all JSON messages but the longest in hexadecimal fit, and    *)
(* all binary ones but the longest.                                        *)
(***************************************************************************)
EXTENDS LegacyLink

Bytes(n, end) == [i \in 1..n |-> IF i = n THEN end ELSE (37 * i) % 256]

(* Plain ones, nonces and tags that Z85P spoils.                           *)
MCRandom == [c \in Ciphers |->
  {[nonce |-> Bytes(NonceSize(c), a[1]), tag |-> Bytes(TagSize, a[2])] :
     a \in {<<200, 5>>, <<3, 200>>, <<200, 1>>}}]

MCEnvelopes ==
  {[msg_type |-> BUS, payload |-> "payload", type |-> None, data |-> None],
   [msg_type |-> BUS, payload |-> "payload", type |-> "speak", data |-> "data"],
   [msg_type |-> 6, payload |-> "payload"], [msg_type |-> NoType, payload |-> "payload"]}

MCCiphertexts == {<<0>>, <<7, 200, 1, 3>>, <<0, 255, 90, 4>>, <<9, 8, 7, 6, 2>>}

Json == <<123, 125>>
MCJsonTexts == {Json}

MCFrames ==
  {[type |-> y, bin |-> IF y = BINARY THEN 6 ELSE 0, versioned |-> v, meta |-> m, payload |-> p] :
     y \in {BUS, BINARY}, v \in BOOLEAN, m \in {<<>>, Json}, p \in {<<>>, <<200, 1>>}}
  \cup {[type |-> 13, bin |-> 0, versioned |-> TRUE, meta |-> <<1>>, payload |-> <<>>],
        [type |-> BINARY, bin |-> 6, versioned |-> TRUE, meta |-> <<>>,
         payload |-> [i \in 1..80 |-> 0]]}
  \cup [raw : {<<0>>, <<1>>, <<128>>, <<130, 255>>, <<190, 0, 9>>}]

MCNamed == Encodings \cup {None, "JSON-OTHER"}
MCSizes == {1, 4045, 4046, 4096}
=============================================================================
