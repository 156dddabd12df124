------------------------------ MODULE MCHmEvents ------------------------------
(* Small instances of HmEvents for TLC.                                    *)
EXTENDS HmEvents

CONSTANTS hello1, key1, key2

MCHellos == {hello1}
MCKeys   == {key1, key2}

(* A current hub and a legacy hub.                                         *)
MCOffers ==
  {[max3 |-> TRUE, suite |-> TRUE, patterns |-> Patterns, handshake |-> FALSE],
   [max3 |-> FALSE, suite |-> FALSE, patterns |-> {}, handshake |-> TRUE]}
=============================================================================
