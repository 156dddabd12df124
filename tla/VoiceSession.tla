----------------------------- MODULE VoiceSession -----------------------------
(***************************************************************************)
(* The Voice PE satellite (examples/voice_pe_satellite/main): a recording  *)
(* session opened and closed by two tasks, the one that listens            *)
(* (vad_only_task or wake_word_task) and ui_task, while the callbacks of   *)
(* the client, on the websocket task, reset it.  They share s_streaming    *)
(* and s_rec_count without a lock.                                         *)
(*                                                                         *)
(* A step ends where another task can get between: after a test and before *)
(* the writes it guards, between two writes of a session call, and before  *)
(* and after each call that may block; only the two writes of the callback *)
(* are one step.  s_state, which drives the LEDs, is left out: the one     *)
(* test of it, in UiMuted, may go either way.  So are playback and the bus *)
(* messages, which touch nothing else.                                     *)
(* What the senders do with a message is in NoiseSend.  Detection itself   *)
(* (energy, WakeNet, the AFE) is external: someone speaks or does not, and *)
(* the wake word is heard at any frame.                                    *)
(***************************************************************************)
EXTENDS Naturals

CONSTANTS
  Modes,        \* the menuconfig choices a build can be made with
  Chunk,        \* vad_only_task's CHUNK, 480 samples
  FeedChunk,    \* speech_detect_feed_chunksize, chosen by esp-sr
  FetchChunk,   \* speech_detect_fetch_chunksize, the same
  MicWords,     \* length of i2s_mic_read's local buffer, 512
  RecMax,       \* REC_MAX_SAMPLES
  MaxSilence    \* frames: VP_MAX_SILENCE_MS / VP_VAD_FRAME_MS, or
                \* VAD_SILENCE_FRAMES_THRESHOLD

(* buf: s_rec_buf was allocated, which only the batch modes try.           *)
ModeType == [listen : {"vad", "wake"}, stt : {"binary", "b64", "http"}, buf : BOOLEAN]

ASSUME VoiceAssumption ==
  /\ Modes \subseteq ModeType
  /\ Chunk \in Nat \ {0} /\ FeedChunk \in Nat \ {0} /\ FetchChunk \in Nat \ {0}
  /\ MicWords \in Nat /\ RecMax \in Nat /\ MaxSilence \in Nat \ {0}

Tasks == {"listen", "ui"}

VARIABLES
  mode,
  link,           \* hm_client_get_state is READY: "up"; or "down"
  muted, pressed, voice,   \* the switch, the pending press, someone speaks
  s_streaming, s_rec_count,
  pc, ret,        \* of the two tasks; ret: where a session call returns to
  ws,             \* the websocket task: the callback due, or "idle"
  in_speech,      \* of vad_only_task; s_in_session of speech_detect.c
  silence,        \* silence_ms in frames; s_silence_frames
  to_copy, count, \* of the listening task, between a load and its use
  top,            \* one past the last sample ever copied to s_rec_buf
  btn_listening

shared == <<s_streaming, s_rec_count>>
local  == <<in_speech, silence, to_copy, count, top>>
world  == <<mode, link, muted, pressed, voice, ws>>
vars   == <<world, shared, pc, ret, local, btn_listening>>

Goto(t, l)    == pc' = [pc EXCEPT ![t] = l] /\ UNCHANGED ret
Call(t, l, r) == pc' = [pc EXCEPT ![t] = l] /\ ret' = [ret EXCEPT ![t] = r]
Return(t)     == Goto(t, ret[t])

MinOf(a, b) == IF a < b THEN a ELSE b
Batch == mode.stt # "binary"

-----------------------------------------------------------------------------
(* stt_session_start and stt_session_stop, called by task t.               *)

SessionStart(t) ==
  /\ pc[t] = "start"
  /\ IF s_streaming THEN Return(t) ELSE Goto(t, "open")
  /\ UNCHANGED <<world, shared, local, btn_listening>>

OpenSession(t) ==
  /\ pc[t] = "open" /\ Goto(t, "discard")
  /\ s_streaming' = TRUE
  /\ UNCHANGED <<world, s_rec_count, local, btn_listening>>

SessionStop(t) ==
  /\ pc[t] = "stop"
  /\ IF s_streaming THEN Goto(t, "close") ELSE Return(t)
  /\ UNCHANGED <<world, shared, local, btn_listening>>

CloseSession(t) ==
  /\ pc[t] = "close" /\ Goto(t, "submit")
  /\ s_streaming' = FALSE
  /\ UNCHANGED <<world, s_rec_count, local, btn_listening>>

(* submit_stt_recording: only a batch mode submits, and no empty recording. *)
SubmitSttRecording(t) ==
  /\ pc[t] = "submit"
  /\ Goto(t, IF Batch /\ s_rec_count # 0 THEN "answer" ELSE "discard")
  /\ UNCHANGED <<world, shared, local, btn_listening>>

(* The message is sent, or the HTTP server answers.                        *)
SttAnswered(t) ==
  /\ pc[t] = "answer" /\ Goto(t, "discard")
  /\ UNCHANGED <<world, shared, local, btn_listening>>

(* s_rec_count = 0, at the end of a start and of a stop.                   *)
DiscardRecording(t) ==
  /\ pc[t] = "discard" /\ Return(t)
  /\ s_rec_count' = 0
  /\ UNCHANGED <<world, s_streaming, local, btn_listening>>

SessionStep(t) ==
  \/ SessionStart(t) \/ OpenSession(t) \/ SessionStop(t) \/ CloseSession(t)
  \/ SubmitSttRecording(t) \/ SttAnswered(t) \/ DiscardRecording(t)

-----------------------------------------------------------------------------
(* The listening task.                                                     *)

(* i2s_mic_read: stereo frames of two words, clipped to its local buffer.  *)
MicSamples_OfBytes(n) == MinOf(2 * n, MicWords) \div 8

MicSamples(n) == MinOf(2 * n, MicWords) \div 2
ReadChunk == IF mode.listen = "vad" THEN Chunk ELSE FeedChunk

(* Muted, both tasks end what they began; vad_only_task does not end what  *)
(* the button began.                                                       *)
StopOnMute_Ignored ==
  /\ Goto("listen", "loop")
  /\ UNCHANGED <<in_speech, silence>>

StopOnMute ==
  \/ /\ mode.listen = "wake"
     /\ Call("listen", "stop", "loop") /\ UNCHANGED <<in_speech, silence>>
  \/ /\ mode.listen = "vad" /\ in_speech
     /\ in_speech' = FALSE /\ silence' = 0 /\ Call("listen", "stop", "loop")

ListenLoop ==
  /\ pc["listen"] = "loop" /\ link = "up"
  /\ \/ muted /\ StopOnMute
     \/ ~muted /\ Goto("listen", "read") /\ UNCHANGED <<in_speech, silence>>
  /\ UNCHANGED <<world, shared, to_copy, count, top, btn_listening>>

(* A failed or short read is thrown away, a failed fetch brings nothing.   *)
ReadNothing ==
  /\ pc["listen"] = "read" /\ Goto("listen", "loop")
  /\ UNCHANGED <<world, shared, local, btn_listening>>

FullRead == pc["listen"] = "read" /\ MicSamples(ReadChunk) >= ReadChunk

(* vad_only_task, one frame.                                               *)
VadFrame ==
  /\ mode.listen = "vad" /\ FullRead
  /\ \/ /\ voice /\ ~in_speech
        /\ in_speech' = TRUE /\ silence' = 0 /\ Call("listen", "start", "audio")
     \/ /\ voice /\ in_speech
        /\ silence' = 0 /\ Goto("listen", "audio") /\ UNCHANGED in_speech
     \/ /\ ~voice /\ in_speech
        /\ silence' = silence + 1 /\ Goto("listen", "audio") /\ UNCHANGED in_speech
     \/ /\ ~voice /\ ~in_speech
        /\ Goto("listen", "loop") /\ UNCHANGED <<in_speech, silence>>
  /\ UNCHANGED <<world, shared, to_copy, count, top, btn_listening>>

(* wake_word_task, one frame: speech_detect_fetch and what its event does. *)
WakeFrame ==
  /\ mode.listen = "wake" /\ FullRead
  /\ \/ /\ in_speech' = TRUE /\ silence' = 0 /\ Call("listen", "start", "audio")
     \/ /\ in_speech /\ voice
        /\ silence' = 0 /\ Call("listen", "start", "audio") /\ UNCHANGED in_speech
     \/ /\ in_speech /\ ~voice /\ silence + 1 < MaxSilence
        /\ silence' = silence + 1 /\ Goto("listen", "audio") /\ UNCHANGED in_speech
     \/ /\ in_speech /\ ~voice /\ silence + 1 >= MaxSilence
        /\ in_speech' = FALSE /\ silence' = 0 /\ Call("listen", "stop", "audio")
     \/ /\ ~in_speech
        /\ Goto("listen", "audio") /\ UNCHANGED <<in_speech, silence>>
  /\ UNCHANGED <<world, shared, to_copy, count, top, btn_listening>>

(* How many samples of the frame go into s_rec_buf: vad_only_task takes    *)
(* all or nothing, wake_word_task what there is room for.                  *)
Room_Unclipped(n) == IF n < RecMax THEN FetchChunk ELSE 0

Room(n) ==
  IF mode.listen = "vad" THEN (IF n + Chunk <= RecMax THEN Chunk ELSE 0)
  ELSE MinOf(FetchChunk, RecMax - n)

(* vad_only_task does not look at s_streaming, only at in_speech.  Sending *)
(* the frame changes nothing here.                                         *)
TakeAudio ==
  /\ pc["listen"] = "audio"
  /\ to_copy' = IF mode.buf /\ Batch /\ (mode.listen = "wake" => s_streaming)
                  THEN Room(s_rec_count) ELSE 0
  /\ Goto("listen", IF mode.listen = "wake" /\ ~s_streaming THEN "loop"
                    ELSE IF to_copy' > 0 THEN "copy" ELSE "after")
  /\ UNCHANGED <<world, shared, in_speech, silence, count, top, btn_listening>>

(* memcpy, then s_rec_count += to_copy as a load and a store; the load may *)
(* come with the memcpy's own or after it.                                 *)
CopyAudio ==
  /\ pc["listen"] = "copy" /\ Goto("listen", "store")
  /\ count' = s_rec_count
  /\ top' = IF s_rec_count + to_copy > top THEN s_rec_count + to_copy ELSE top
  /\ UNCHANGED <<world, shared, in_speech, silence, to_copy, btn_listening>>

CountAudio ==
  /\ pc["listen"] = "store" /\ Goto("listen", "after")
  /\ \E n \in {count, s_rec_count} : s_rec_count' = n + to_copy
  /\ count' = 0 /\ to_copy' = 0
  /\ UNCHANGED <<world, s_streaming, in_speech, silence, top, btn_listening>>

SilenceLasted_Beyond == silence > MaxSilence
SilenceLasted == silence >= MaxSilence

RecordingFull_Beyond == s_rec_count > RecMax
RecordingFull == s_rec_count >= RecMax

(* A recording that is full ends in wake_word_task, a silence that lasted  *)
(* in vad_only_task.                                                       *)
AfterFrame ==
  /\ pc["listen"] = "after"
  /\ \/ /\ mode.listen = "wake"
        /\ IF Batch /\ mode.buf /\ RecordingFull
             THEN Call("listen", "stop", "loop") ELSE Goto("listen", "loop")
        /\ UNCHANGED <<in_speech, silence>>
     \/ /\ mode.listen = "vad"
        /\ IF SilenceLasted
             THEN in_speech' = FALSE /\ silence' = 0 /\ Call("listen", "stop", "loop")
             ELSE Goto("listen", "loop") /\ UNCHANGED <<in_speech, silence>>
  /\ UNCHANGED <<world, shared, to_copy, count, top, btn_listening>>

Frame == VadFrame \/ WakeFrame
ListenStep ==
  \/ ListenLoop \/ ReadNothing \/ Frame \/ TakeAudio \/ CopyAudio \/ CountAudio
  \/ AfterFrame \/ SessionStep("listen")

-----------------------------------------------------------------------------
(* ui_task.                                                                *)

(* Skipped when s_state is SAT_MUTED already.                              *)
UiMuted ==
  /\ pc["ui"] = "loop" /\ muted /\ btn_listening
  /\ btn_listening' = FALSE
  /\ UNCHANGED <<world, shared, pc, ret, local>>

UiButton ==
  /\ pc["ui"] = "loop" /\ ~muted
  /\ pressed' = FALSE
  /\ btn_listening' = (IF pressed THEN ~btn_listening ELSE btn_listening)
  /\ IF ~pressed THEN Goto("ui", "sync")
     ELSE Call("ui", IF btn_listening THEN "stop" ELSE "start", "sync")
  /\ UNCHANGED <<mode, link, muted, voice, ws, shared, local>>

(* A session that ended without the button: the next press begins one.     *)
UiSync ==
  /\ pc["ui"] = "sync" /\ Goto("ui", "loop")
  /\ btn_listening' = (btn_listening /\ s_streaming)
  /\ UNCHANGED <<world, shared, local>>

UiStep == UiButton \/ UiSync \/ SessionStep("ui")

-----------------------------------------------------------------------------
(* The connection comes and goes; on_state_change hears of it.  READY is   *)
(* announced twice (HmEvents).                                             *)

Connected ==
  /\ ws = "idle" /\ link = "down" /\ link' = "up" /\ ws' = "ready"
  /\ UNCHANGED <<mode, muted, pressed, voice, shared, pc, ret, local, btn_listening>>

Dropped ==
  /\ ws = "idle" /\ link = "up" /\ link' = "down" /\ ws' = "lost"
  /\ UNCHANGED <<mode, muted, pressed, voice, shared, pc, ret, local, btn_listening>>

OnStateChange ==
  /\ ws # "idle"
  /\ ws' = (IF ws = "ready" THEN "ready again" ELSE "idle")
  /\ s_streaming' = FALSE /\ s_rec_count' = 0
  /\ UNCHANGED <<mode, link, muted, pressed, voice, pc, ret, local, btn_listening>>

(* The mute switch, the button, the voice.                                 *)
User ==
  /\ \/ muted' = ~muted /\ UNCHANGED <<pressed, voice>>
     \/ pressed' = TRUE /\ UNCHANGED <<muted, voice>>
     \/ voice' = ~voice /\ UNCHANGED <<muted, pressed>>
  /\ UNCHANGED <<mode, link, ws, shared, pc, ret, local, btn_listening>>

Init ==
  /\ mode \in Modes /\ link = "down" /\ ws = "idle"
  /\ muted \in BOOLEAN /\ pressed = FALSE /\ voice = FALSE
  /\ s_streaming = FALSE /\ s_rec_count = 0
  /\ pc = [t \in Tasks |-> "loop"] /\ ret = [t \in Tasks |-> "loop"]
  /\ in_speech = FALSE /\ silence = 0 /\ to_copy = 0 /\ count = 0 /\ top = 0
  /\ btn_listening = FALSE

Next ==
  ListenStep \/ UiStep \/ UiMuted \/ OnStateChange \/ User \/ Connected \/ Dropped

(* The tasks are scheduled, the client reconnects, and the microphone does *)
(* not fail for ever.                                                      *)
Fairness ==
  /\ WF_vars(ListenStep) /\ WF_vars(UiStep) /\ WF_vars(OnStateChange)
  /\ WF_vars(Connected) /\ SF_vars(Frame)

Spec == Init /\ [][Next]_vars
FairSpec == Spec /\ Fairness

-----------------------------------------------------------------------------
Session == {"loop", "start", "open", "stop", "close", "submit", "answer", "discard"}

InFrame == {"audio", "copy", "store", "after"}

FlagsOK ==
  /\ muted \in BOOLEAN /\ pressed \in BOOLEAN /\ voice \in BOOLEAN
  /\ s_streaming \in BOOLEAN /\ in_speech \in BOOLEAN /\ btn_listening \in BOOLEAN

CountsOK ==
  /\ s_rec_count \in Nat /\ to_copy \in Nat /\ count \in Nat /\ top \in Nat
  /\ silence \in 0..MaxSilence

PlacesOK ==
  /\ mode \in Modes /\ link \in {"up", "down"}
  /\ pc \in [Tasks -> Session \cup InFrame \cup {"read", "sync"}]
  /\ ret \in [Tasks -> {"loop", "audio", "sync"}]
  /\ ws \in {"idle", "ready", "ready again", "lost"}

TypeOK == FlagsOK /\ CountsOK /\ PlacesOK

(* main.c:440 and 522: the bound is checked, then the count is read again  *)
(* for the copy and again for the sum, while other tasks reset it.  No     *)
(* copy goes past the end of s_rec_buf all the same.                       *)
InBuffer == top <= RecMax /\ s_rec_count <= RecMax

(* main.c:484: muted for good, a satellite with a wake word ends its       *)
(* session and opens no other, whoever began it and whatever the link does.*)
MuteEndsSession ==
  mode.listen = "wake" => (<>[]muted => <>[]~s_streaming)

(* main.c:529: without the wake word's VAD to end it, the buffer does: a   *)
(* batch recording does not go on for ever.                                *)
SessionEnds ==
  (s_streaming /\ mode.listen = "wake" /\ Batch /\ mode.buf) ~> ~s_streaming

(* voice_pe_hw.h:65, "Streams raw audio to hub whenever VAD detects speech".*)
(* Speech that lasts, with vad_only_task not in the middle of an utterance *)
(* already, opens a session.                                               *)
SpeechIsHeard ==
  (mode.listen = "vad" /\ ~in_speech /\ [](voice /\ ~muted /\ link = "up"))
    ~> s_streaming
=============================================================================
