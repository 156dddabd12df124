---------------------------- MODULE MCVoiceSession ----------------------------
(* Constants of VoiceSession for TLC.                                      *)
EXTENDS VoiceSession

Mode(l, s, b) == [listen |-> l, stt |-> s, buf |-> b]

(* Both tasks, with and without a recording, and with none to be had.      *)
MCModes ==
  {Mode("wake", "b64", TRUE), Mode("wake", "http", FALSE), Mode("wake", "binary", FALSE),
   Mode("vad", "b64", TRUE), Mode("vad", "binary", FALSE)}

MCStreaming == {Mode("vad", "binary", FALSE)}
=============================================================================
