------------------------------ MODULE MCHmClient ------------------------------
(***************************************************************************)
(* HmClient under TLC.                                                     *)
(***************************************************************************)
EXTENDS HmClient

(* An application that connects once, with the tasks as the code has them; *)
(* one that calls at will, with connects that fail, one task at a time;    *)
(* and one that calls at will while the other tasks are inside the client. *)
MCScenarios ==
  {[serial |-> FALSE, calls |-> 1, drops |-> 5, failures |-> 0],
   [serial |-> TRUE,  calls |-> 4, drops |-> 4, failures |-> 1],
   [serial |-> FALSE, calls |-> 2, drops |-> 3, failures |-> 0]}

(* One call, one drop, one failure.                                        *)
MCOneFailure == {[serial |-> TRUE, calls |-> 1, drops |-> 1, failures |-> 1]}
=============================================================================
