------------------------------ MODULE MCSatellite ------------------------------
(***************************************************************************)
(* Satellite under TLC.                                                    *)
(***************************************************************************)
EXTENDS Satellite

Wav(offset, size, len, sample) ==
  [riff |-> TRUE, data |-> TRUE, offset |-> offset, size |-> size, len |-> len,
   sample |-> sample]

(* A WAV that announces more than it holds, one that announces so much     *)
(* that the sum wraps around, raw PCM of an odd length.  With a ring of    *)
(* three samples: as long, (over HTTP) longer, shorter.                    *)
MCBodies ==
  {Wav(44, 9, 50, -32768), Wav(44, 127, 50, 1),
   [riff |-> FALSE, data |-> FALSE, offset |-> 0, size |-> 0, len |-> 3,
    sample |-> 32767]}

(* A response that fits, and one whose second piece does not.              *)
MCResponses == {<<50>>, <<44, 20, 2>>}

(* A satellite in use, at first without audio to play, then with one reply; *)
(* and one left to itself, with two replies and a dial that turns.         *)
MCScenarios ==
  {[listen |-> "wake", stt |-> "http", tts |-> "http", bodies |-> {},
    used |-> TRUE, replies |-> 0, turns |-> 0],
   [listen |-> "vad", stt |-> "binary", tts |-> "binary", bodies |-> {Wav(44, 4, 48, 1)},
    used |-> TRUE, replies |-> 1, turns |-> 0]}
  \cup [listen : {"vad"}, stt : {"b64"}, tts : {"binary", "http"}, bodies : {MCBodies},
        used : {FALSE}, replies : {2}, turns : {1}]
=============================================================================
