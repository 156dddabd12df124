---------------------------- MODULE MCHmProtocol ----------------------------
(* Small instances of HmProtocol for TLC.                                  *)
EXTENDS HmProtocol

CONSTANTS hello1, hello2, key1, key2

MCHellos == {hello1, hello2}
MCKeys   == {key1, key2}

Offer(patterns, handshake) ==
  [max3 |-> TRUE, suite |-> TRUE, patterns |-> patterns, handshake |-> handshake]

(* A current hub, a hub without KKpsk0, a hub with KKpsk0 only, and a      *)
(* legacy hub.                                                             *)
MCOffers ==
  {Offer(Patterns, FALSE), Offer({"XXpsk2"}, FALSE), Offer({"KKpsk0"}, FALSE),
   [max3 |-> FALSE, suite |-> FALSE, patterns |-> {}, handshake |-> TRUE]}
=============================================================================
