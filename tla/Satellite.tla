------------------------------- MODULE Satellite -------------------------------
(***************************************************************************)
(* What the Voice PE satellite shows and plays: s_state, which every task  *)
(* writes and ui_task puts on the LED ring, and the speaker's ring buffer, *)
(* which the websocket task fills and playback_task empties.  None of it   *)
(* has a lock but the ring buffer itself.                                  *)
(*                                                                         *)
(* A step ends where another task can get between: after a test and before *)
(* the write it guards, between two writes, around each call that blocks.  *)
(* How a session comes about and what it records is in VoiceSession; here  *)
(* the listening task begins and ends sessions at will, and a recording    *)
(* may be empty.  The audio of a reply is one sample value and its length. *)
(***************************************************************************)
EXTENDS Audio

CONSTANTS
  Scenarios,    \* builds, and how far each is exercised
  Responses,    \* the pieces in which a server's response arrives
  HttpCap,      \* bytes of ovos_http_tts's buffer, 512 KB
  MaxSamples,   \* samples request_tts has room for, 480000
  RingSize,     \* of the ring buffer in samples, SPK_RINGBUF_SIZE / 2
  IdleSlack,    \* i2s_spk_is_idle calls so much idle, 32 samples
  PlayChunk,    \* playback_task's CHUNK, 128 samples
  VolStep, VolDefault

(* The menuconfig choices of the build; what audio hub and server send;    *)
(* bounds: someone speaks, presses and mutes or not, how many replies with *)
(* audio, how many turns of the dial.                                      *)
ScenarioType ==
  [listen : {"vad", "wake"}, stt : {"binary", "b64", "http"},
   tts : {"binary", "b64", "http"}, bodies : SUBSET BodyType,
   used : BOOLEAN, replies : Nat, turns : Nat]

ASSUME SatelliteAssumption ==
  /\ Scenarios \subseteq ScenarioType
  /\ Responses \subseteq Seq(Nat)
  /\ HttpCap \in Nat /\ MaxSamples \in Nat
  /\ RingSize \in Nat /\ IdleSlack \in Nat /\ PlayChunk \in Nat \ {0}
  /\ VolStep \in Nat /\ VolDefault \in 0..100

Tasks    == {"listen", "ui", "ws"}
SatState == {"IDLE", "WAKE_DETECTED", "LISTENING", "THINKING", "SPEAKING",
             "ERROR", "MUTED"}
NoBody   == [riff |-> FALSE, data |-> FALSE, offset |-> 0, size |-> 0, len |-> 0,
             sample |-> 0]

VARIABLES
  scenario,
  link,               \* hm_client_get_state is READY: "up"; or "down"
  muted,              \* the switch
  s_volume, turns,
  s_state, led,       \* led: the state last given to led_set_state
  s_streaming, btn_listening,
  in_speech,          \* vad_only_task's
  pc,                 \* of each task
  body,               \* what the websocket task is about to play
  pcm,                \* its samples, scaled: [n, level]
  replies,            \* pushed so far: [n, sample, free], free: the ring was
                      \* empty and the reply is no longer than it
  ring,               \* samples to play: [reply, level]
  heard,              \* how many samples of each reply were played
  read_to             \* one past the last byte copied of a hub's body

session == <<s_streaming, btn_listening, in_speech>>
dial    == <<s_volume, turns>>
world   == <<scenario, link, muted>>
sound   == <<body, pcm, replies, ring, heard, read_to>>
vars    == <<world, dial, s_state, led, session, pc, sound>>

Goto(t, l) == pc' = [pc EXCEPT ![t] = l]
Return(t)  == Goto(t, IF t = "ui" THEN "sync" ELSE "rest")
Batch      == scenario.stt # "binary"

-----------------------------------------------------------------------------
(* stt_session_start and stt_session_stop, called by task t.               *)

SessionStart(t) ==
  /\ pc[t] = "start"
  /\ IF s_streaming THEN Return(t) ELSE Goto(t, "open")
  /\ UNCHANGED <<world, dial, s_state, led, session, sound>>

OpenSession(t) ==
  /\ pc[t] = "open" /\ Goto(t, "listening")
  /\ s_streaming' = TRUE
  /\ UNCHANGED <<world, dial, s_state, led, btn_listening, in_speech, sound>>

ShowListening(t) ==
  /\ pc[t] = "listening" /\ Return(t)
  /\ s_state' = "LISTENING"
  /\ UNCHANGED <<world, dial, led, session, sound>>

SessionStop(t) ==
  /\ pc[t] = "stop"
  /\ IF s_streaming THEN Goto(t, "close") ELSE Return(t)
  /\ UNCHANGED <<world, dial, s_state, led, session, sound>>

CloseSession(t) ==
  /\ pc[t] = "close" /\ Goto(t, "submit")
  /\ s_streaming' = FALSE
  /\ UNCHANGED <<world, dial, s_state, led, btn_listening, in_speech, sound>>

(* submit_stt_recording in the batch modes; an empty recording leaves      *)
(* s_state alone.                                                          *)
SubmitSttRecording(t) ==
  /\ pc[t] = "submit"
  /\ \/ ~Batch /\ s_state' = "IDLE" /\ Return(t)
     \/ Batch /\ Return(t) /\ UNCHANGED s_state
     \/ /\ Batch /\ s_state' = "THINKING"
        /\ IF scenario.stt = "http" THEN Goto(t, "answer") ELSE Return(t)
  /\ UNCHANGED <<world, dial, led, session, sound>>

(* ovos_http_stt returns: a transcript, which is sent, or nothing.         *)
SttAnswered(t) ==
  /\ pc[t] = "answer" /\ Return(t)
  /\ s_state' \in {s_state, "IDLE"}
  /\ UNCHANGED <<world, dial, led, session, sound>>

SessionStep(t) ==
  \/ SessionStart(t) \/ OpenSession(t) \/ ShowListening(t)
  \/ SessionStop(t) \/ CloseSession(t)
  \/ SubmitSttRecording(t) \/ SttAnswered(t)

(* vad_only_task and wake_word_task: the loop's two tests, then a frame.   *)
(* vad_only_task ends what it began itself, wake_word_task any session.    *)
ByItself == scenario.listen = "vad"

Listen ==
  /\ scenario.used /\ pc["listen"] = "rest" /\ link = "up"
  /\ IF muted THEN (ByItself => in_speech) /\ Goto("listen", "stop") /\ in_speech' = FALSE
     ELSE Goto("listen", "frame") /\ UNCHANGED in_speech
  /\ UNCHANGED <<world, dial, s_state, led, s_streaming, btn_listening, sound>>

(* vad_only_task: nothing, the first speech, the end of a silence.         *)
VadFrame ==
  /\ ByItself /\ pc["listen"] = "frame"
  /\ \/ Goto("listen", "rest") /\ UNCHANGED in_speech
     \/ in_speech' = ~in_speech /\ Goto("listen", IF in_speech THEN "stop" ELSE "start")
  /\ UNCHANGED <<world, dial, s_state, led, s_streaming, btn_listening, sound>>

(* wake_word_task: the wake word or an event of the detector.              *)
WakeFrame ==
  /\ ~ByItself /\ pc["listen"] = "frame"
  /\ \/ \E l \in {"rest", "stop", "start"} : Goto("listen", l) /\ UNCHANGED s_state
     \/ s_state' = "WAKE_DETECTED" /\ Goto("listen", "start")
  /\ UNCHANGED <<world, dial, led, session, sound>>

-----------------------------------------------------------------------------
(* ui_task.                                                                *)

UiMuted ==
  /\ pc["ui"] = "rest" /\ muted /\ s_state # "MUTED"
  /\ Goto("ui", "mute")
  /\ UNCHANGED <<world, dial, s_state, led, session, sound>>

UiMute ==
  /\ pc["ui"] = "mute" /\ Goto("ui", "orange")
  /\ s_state' = "MUTED" /\ btn_listening' = FALSE
  /\ UNCHANGED <<world, dial, led, s_streaming, in_speech, sound>>

UiOrange_OfState ==
  /\ pc["ui"] = "orange" /\ Goto("ui", "rest")
  /\ led' = s_state
  /\ UNCHANGED <<world, dial, s_state, session, sound>>

UiOrange ==
  /\ pc["ui"] = "orange" /\ Goto("ui", "rest")
  /\ led' = "MUTED"
  /\ UNCHANGED <<world, dial, s_state, session, sound>>

(* s_btn_pressed, which this reads and clears, may have been set at any    *)
(* moment before.                                                          *)
UiButton ==
  /\ pc["ui"] = "rest" /\ ~muted
  /\ \/ Goto("ui", "sync") /\ UNCHANGED btn_listening
     \/ /\ scenario.used /\ btn_listening' = ~btn_listening
        /\ Goto("ui", IF btn_listening THEN "stop" ELSE "start")
  /\ UNCHANGED <<world, dial, s_state, led, s_streaming, in_speech, sound>>

UiSync ==
  /\ pc["ui"] = "sync" /\ Goto("ui", "settle")
  /\ btn_listening' = (btn_listening /\ s_streaming)
  /\ UNCHANGED <<world, dial, s_state, led, s_streaming, in_speech, sound>>

(* i2s_spk_is_idle.                                                        *)
SpkIsIdle_Inverted == RingSize - Len(ring) <= IdleSlack
SpkIsIdle == RingSize - Len(ring) >= RingSize - IdleSlack

UiSettle ==
  /\ pc["ui"] = "settle"
  /\ Goto("ui", IF s_state = "SPEAKING" /\ SpkIsIdle THEN "idle" ELSE "show")
  /\ UNCHANGED <<world, dial, s_state, led, session, sound>>

UiIdle ==
  /\ pc["ui"] = "idle" /\ Goto("ui", "show")
  /\ s_state' = "IDLE"
  /\ UNCHANGED <<world, dial, led, session, sound>>

UiShow ==
  /\ pc["ui"] = "show" /\ Goto("ui", "rest")
  /\ led' = s_state
  /\ UNCHANGED <<world, dial, s_state, session, sound>>

UiStep ==
  \/ UiMuted \/ UiMute \/ UiOrange \/ UiButton \/ UiSync \/ UiSettle \/ UiIdle
  \/ UiShow \/ SessionStep("ui")

-----------------------------------------------------------------------------
(* The websocket task: on_state_change, on_bus_message, on_binary.         *)

WsIdle == pc["ws"] = "rest"

(* READY is announced twice (HmEvents).                                    *)
Connected ==
  /\ WsIdle /\ link = "down" /\ link' = "up" /\ Goto("ws", "ready")
  /\ UNCHANGED <<scenario, muted, dial, s_state, led, session, sound>>

Dropped ==
  /\ WsIdle /\ link = "up" /\ link' = "down" /\ Goto("ws", "lost")
  /\ UNCHANGED <<scenario, muted, dial, s_state, led, session, sound>>

OnReady_KeepsState ==
  /\ pc["ws"] \in {"ready", "ready again"}
  /\ Goto("ws", IF pc["ws"] = "ready" THEN "ready again" ELSE "rest")
  /\ s_streaming' = FALSE
  /\ UNCHANGED <<world, dial, s_state, led, btn_listening, in_speech, sound>>

OnReady ==
  /\ pc["ws"] \in {"ready", "ready again"}
  /\ Goto("ws", IF pc["ws"] = "ready" THEN "ready again" ELSE "rest")
  /\ s_streaming' = FALSE /\ s_state' = "IDLE"
  /\ UNCHANGED <<world, dial, led, btn_listening, in_speech, sound>>

OnDisconnected ==
  /\ pc["ws"] = "lost" /\ Goto("ws", "rest")
  /\ s_streaming' = FALSE /\ s_state' = "ERROR"
  /\ UNCHANGED <<world, dial, led, btn_listening, in_speech, sound>>

Receives == WsIdle /\ link = "up"

(* recognizer_loop:wakeword, recognizer_loop:utterance, a transcription.   *)
HubEvent ==
  /\ Receives /\ s_state' \in {"WAKE_DETECTED", "THINKING"}
  /\ UNCHANGED <<world, dial, led, session, pc, sound>>

(* recognizer_loop:audio_output_end and ovos.utterance.handled.            *)
HubHandled ==
  /\ Receives /\ s_state \in {"SPEAKING", "THINKING"} /\ Goto("ws", "handled")
  /\ UNCHANGED <<world, dial, s_state, led, session, sound>>

Handled ==
  /\ pc["ws"] = "handled" /\ Goto("ws", "rest")
  /\ s_state' = "IDLE"
  /\ UNCHANGED <<world, dial, led, session, sound>>

(* speak: only a build with TTS over HTTP does anything but send.          *)
Speak ==
  /\ Receives /\ scenario.tts = "http" /\ Goto("ws", "fetch")
  /\ s_state' = "SPEAKING"
  /\ UNCHANGED <<world, dial, led, session, sound>>

(* speak:b64_audio.response with a WAV; whoever asked for it.              *)
HubWav ==
  /\ Receives /\ Len(replies) < scenario.replies
  /\ \E b \in scenario.bodies : HasPcm(b) /\ body' = b
  /\ s_state' = "SPEAKING" /\ Goto("ws", "load")
  /\ UNCHANGED <<world, dial, led, session, pcm, replies, ring, heard, read_to>>

(* HM_BIN_TTS_AUDIO.                                                       *)
HubBinary ==
  /\ Receives /\ scenario.tts = "binary" /\ Len(replies) < scenario.replies
  /\ \E b \in scenario.bodies : body' = b
  /\ s_state' = "SPEAKING" /\ Goto("ws", "load")
  /\ UNCHANGED <<world, dial, led, session, pcm, replies, ring, heard, read_to>>

Prepared(n, sample) == [n |-> n, level |-> Scaled(sample, s_volume)]

(* Without memory, or without a data chunk, there is nothing to play.      *)
LoadFails ==
  /\ pc["ws"] = "load" /\ Goto("ws", "rest")
  /\ body' = NoBody /\ read_to' = 0
  /\ UNCHANGED <<world, dial, s_state, led, session, pcm, replies, ring, heard>>

LoadBody ==
  /\ pc["ws"] = "load" /\ (IsWav(body) => HasPcm(body)) /\ Allocates(Samples(body))
  /\ Goto("ws", "push")
  /\ read_to' = CopyEnd(body) /\ pcm' = Prepared(Samples(body), body.sample)
  /\ UNCHANGED <<world, dial, s_state, led, session, body, replies, ring, heard>>

(* ovos_http_tts.  Without memory for its result request_tts leaves        *)
(* s_state alone.                                                          *)
FetchFails ==
  /\ pc["ws"] = "fetch" /\ Goto("ws", "rest")
  /\ s_state' \in {s_state, "IDLE"}
  /\ UNCHANGED <<world, dial, led, session, sound>>

FetchBody ==
  /\ pc["ws"] = "fetch" /\ Len(replies) < scenario.replies
  /\ \E b \in scenario.bodies, pieces \in Responses :
       LET n == Fetched([b EXCEPT !.len = Collected(pieces, HttpCap)], MaxSamples)
       IN  n > 0 /\ pcm' = Prepared(n, b.sample) /\ body' = b
  /\ Goto("ws", "push")
  /\ UNCHANGED <<world, dial, s_state, led, session, replies, ring, heard, read_to>>

(* i2s_spk_push: all of it, or nothing after 100 ms without room.          *)
HasRoom_Strict(n) == Len(ring) + n < RingSize
HasRoom(n) == Len(ring) + n <= RingSize

Queued(n) == [i \in 1..n |-> [reply |-> Len(replies) + 1, level |-> pcm.level]]

Pushed(units) ==
  /\ Goto("ws", "rest")
  /\ ring' = ring \o units
  /\ replies' = Append(replies, [n |-> pcm.n, sample |-> body.sample,
                                 free |-> ring = <<>> /\ pcm.n <= RingSize])
  /\ heard' = Append(heard, 0)
  /\ body' = NoBody /\ pcm' = [n |-> 0, level |-> 0] /\ read_to' = 0
  /\ UNCHANGED <<world, dial, s_state, led, session>>

Push     == pc["ws"] = "push" /\ pcm.n > 0 /\ HasRoom(pcm.n) /\ Pushed(Queued(pcm.n))
NoRoom   == pc["ws"] = "push" /\ (pcm.n > 0 => ~HasRoom(pcm.n))

PushLate_WhatFits == NoRoom /\ Pushed(Queued(MinOf(pcm.n, RingSize - Len(ring))))
PushLate          == NoRoom /\ Pushed(<<>>)

WsStep ==
  \/ OnReady \/ OnDisconnected \/ Handled \/ LoadFails \/ LoadBody
  \/ FetchFails \/ FetchBody \/ Push \/ PushLate

-----------------------------------------------------------------------------
(* playback_task.  Where the ring buffer wraps around, or holds less, it   *)
(* gets less than it asks for.                                             *)
Play ==
  /\ ring # <<>>
  /\ \E k \in 1..MinOf(PlayChunk, Len(ring)) :
       /\ ring' = SubSeq(ring, k + 1, Len(ring))
       /\ heard' = [r \in DOMAIN heard |->
                      heard[r] + Cardinality({i \in 1..k : ring[i].reply = r})]
  /\ UNCHANGED <<world, dial, s_state, led, session, pc, body, pcm, replies, read_to>>

(* rotary_isr_a.                                                           *)
Clipped_Off(v) == v
Clipped(v) == IF v > 100 THEN 100 ELSE IF v < 0 THEN 0 ELSE v

Turn ==
  /\ turns < scenario.turns /\ turns' = turns + 1
  /\ s_volume' \in {Clipped(s_volume + VolStep), Clipped(s_volume - VolStep)}
  /\ UNCHANGED <<world, s_state, led, session, pc, sound>>

(* The mute switch.                                                        *)
Switch ==
  /\ scenario.used /\ muted' = ~muted
  /\ UNCHANGED <<scenario, link, dial, s_state, led, session, pc, sound>>

Init ==
  /\ scenario \in Scenarios /\ link = "down" /\ muted \in BOOLEAN
  /\ s_volume = VolDefault /\ turns = 0
  /\ s_state = "IDLE" /\ led = "IDLE" /\ s_streaming = FALSE /\ btn_listening = FALSE
  /\ in_speech = FALSE
  /\ pc = [t \in Tasks |-> "rest"]
  /\ body = NoBody /\ pcm = [n |-> 0, level |-> 0] /\ replies = <<>> /\ ring = <<>>
  /\ heard = <<>> /\ read_to = 0

ListenStep == Listen \/ VadFrame \/ WakeFrame \/ SessionStep("listen")
Arrives    == HubEvent \/ HubHandled \/ Speak \/ HubWav \/ HubBinary

Next ==
  \/ ListenStep \/ UiStep \/ WsStep \/ Arrives \/ Connected \/ Dropped
  \/ Play \/ Turn \/ Switch

(* The tasks are scheduled, and the servers answer or time out.            *)
Fairness ==
  WF_vars(ListenStep) /\ WF_vars(UiStep) /\ WF_vars(WsStep) /\ WF_vars(Play)

Spec == Init /\ [][Next]_vars
FairSpec == Spec /\ Fairness

-----------------------------------------------------------------------------
InSession == {"start", "open", "listening", "stop", "close", "submit", "answer"}

StatesOK ==
  /\ scenario \in Scenarios /\ link \in {"up", "down"}
  /\ muted \in BOOLEAN /\ s_state \in SatState /\ led \in SatState
  /\ s_streaming \in BOOLEAN /\ btn_listening \in BOOLEAN /\ in_speech \in BOOLEAN

PlacesOK ==
  /\ DOMAIN pc = Tasks
  /\ pc["listen"] \in {"rest", "frame"} \cup InSession
  /\ pc["ui"] \in {"rest", "mute", "orange", "sync", "settle", "idle", "show"} \cup InSession
  /\ pc["ws"] \in {"rest", "ready", "ready again", "lost", "handled", "load", "fetch", "push"}

DialOK == s_volume \in 0..100 /\ turns \in 0..scenario.turns

PcmType   == [n : Nat, level : Int]
ReplyType == [n : Nat, sample : SampleType, free : BOOLEAN]
UnitType  == [reply : Nat, level : Int]

SoundOK ==
  /\ body \in BodyType /\ pcm \in PcmType /\ read_to \in Nat
  /\ replies \in Seq(ReplyType) /\ ring \in Seq(UnitType) /\ heard \in Seq(Nat)
  /\ Len(ring) <= RingSize /\ Len(heard) = Len(replies)
  /\ Len(replies) <= scenario.replies

TypeOK == StatesOK /\ PlacesOK /\ DialOK /\ SoundOK

(* main.c:547: a switch left on mute turns the ring orange for good,       *)
(* whatever the other tasks write to s_state meanwhile (docs/examples.md:  *)
(* 181).                                                                   *)
MuteIsShown == <>[]muted => <>[](led = "MUTED")

(* main.c:356, led_ring.c:61: with a connection that stays up the ring does*)
(* not stay red, however the drops and reconnects before it interleave.    *)
RedEnds == <>[](link = "up") => <>[](led # "ERROR")

(* main.c:571: whatever became of a reply (no memory, no room, a server    *)
(* that failed, no word from the hub), SPEAKING ends.                      *)
SpeakingEnds == (s_state = "SPEAKING") ~> (s_state # "SPEAKING")

Count(r) == heard[r] + Cardinality({i \in DOMAIN ring : ring[i].reply = r})

(* i2s_spk.c:79: a reply is queued and played as a whole or not at all.    *)
WholeReplies == \A r \in DOMAIN replies : Count(r) \in {0, replies[r].n}

(* A reply that is no longer than the ring buffer and finds it empty is    *)
(* heard to its end, whatever happens to the connection meanwhile.         *)
ReplyIsHeard ==
  []<>(\A r \in DOMAIN replies : replies[r].free => heard[r] = replies[r].n)

(* audio_util.c:41: no byte beyond the end of what the hub sent is copied, *)
(* even when a WAV announces so many that the sum wraps around: what would *)
(* hold them cannot be allocated.                                          *)
ReadsInside == pc["ws"] = "push" => read_to <= body.len

(* audio_util.c:65: scaling makes no sample louder and turns no sample     *)
(* over, at any position of the dial.                                      *)
Within(level, sample) ==
  IF sample >= 0 THEN level \in 0..sample ELSE level \in sample..0

NeverLouder ==
  \A i \in DOMAIN ring : Within(ring[i].level, replies[ring[i].reply].sample)
=============================================================================
