# A TLA+ model of hivemind-esp32-client

These modules model the C client of `src/components/hivemind`: how it shakes
hands with a HiveMind hub, how a session, with Noise or with the legacy
encryption, then sends and receives, and how a connection is lost and made again;
and the Voice PE satellite in `src/examples/voice_pe_satellite`, which is built on
it: its recording sessions, what it shows and what it plays. TLC checks them on
small instances; TLAPS proves the main safety properties for every value of the
constants.

## The system

| Component | State it keeps | Operations | What is hard |
| --- | --- | --- | --- |
| Protocol, `hivemind_protocol.c` | `hm_protocol_ctx_t`: `state`, the pin of the session, canonical HELLO, `use_noise`, `pending_bin`, legacy key | one handler per state, envelopes, Noise frames | many error paths that leave a half-done handshake; downgrade; TOFU pin |
| Noise, `hivemind_noise.c` | `hm_noise_ctx_t`: transcript hash and chaining key, `msg_index`, two cipher states | init, write and read message, encrypt, decrypt | a refused message has already changed the transcript; nonces strictly sequential |
| Client, `hivemind.c` | `hm_client_t`: websocket handle, reconnect timer, pin, callbacks | init, connect, disconnect, send, event handler, timer callback | three tasks, no lock; two reconnect mechanisms; callbacks before replies |
| Crypto and encodings, `hivemind_crypto.c` | session key, cipher, encoding | PBKDF2, AEAD, hsub, seven encodings | padding and fill counts, fields cut out of JSON, sizes of buffers, no memory of nonces |
| Binary framing, `hivemind_binary.c` | none | bit-packed header encode and decode | the header is no whole number of bytes: what stands on a byte depends on all fields |
| Text satellite | client handle | sends at READY | sends from inside the callback |
| Microphone satellite | client handle | one capture task per READY callback | concurrent senders |
| Voice PE satellite | `s_state`, `s_streaming`, recording buffer, ring buffer, volume | VAD or wake-word task, UI task, hub callbacks, playback task | flags and `s_state` shared by four tasks, stuck UI states, ring buffer at its limit, sizes announced by WAV headers |

The client runs in three kinds of task. The **websocket task** of the library
calls `ws_event_handler`: connected, data, disconnected. The **timer task** of
`esp_timer` runs `reconnect_timer_cb`, which calls `hm_client_connect`. Tasks of
the **application** call `hm_client_connect`, `hm_client_disconnect` and the two
send functions; the application is called back (`state_cb`, `bus_cb`,
`binary_cb`) on the websocket task. All share `hm_client_t` without a lock.

The Voice PE satellite adds a **listening task** (`vad_only_task` or
`wake_word_task`), **ui_task** and a speaker task; its callbacks run on the
websocket task, and so do its HTTP requests for speech. They share `s_streaming`,
`s_rec_count` and `s_state` without a lock, and the ring buffer of the speaker, which
has its own. The dial changes the volume from an interrupt.

`PROJECT.json` lists every component with what is left out of it, and the
hazards at their lines.

## Modules

`HmProtocol` - the handshake. One action per handler of
`hm_protocol_handle_message` (`HandleHello`, `StartNoiseHandshake`,
`HandleShakeRequest`, `HandleShakeResponse`, `RefuseMessage2`, `CompleteNoise`,
`Reject`) and one for what `ws_event_handler` does after it (`FinishEvent`),
plus `Connect` and `Drop`. A handler that can fail half-way is a disjunction: what
was assigned before the failure stays assigned. Cryptography is symbolic: the
transcript hash `h` is the record of what was mixed into it, a ciphertext opens
under an equal transcript only, and a refused message 2 marks the transcript
`dirty`, because `read_e` and the DH results were mixed before the AEAD failed.
The hub of a session is any hub: its HELLO, offer, static key and PSK are chosen
freely. The link delivers any HELLO, any offer and any answer a hub ever made to
any message 1, intact or damaged, in any order and any number of times.

`HmEvents` extends `HmProtocol` and takes the end of an event apart: callback,
reply, queued HELLO, freeing, second callback, with an application that sends at
the points of `AppSendsAt` ("notify": from the first READY callback, "ready":
from the second, "poll": from a task of its own at any time).

`NoiseSend` - `hm_send_bus_message` and `hm_send_binary` from the READY check to
the websocket write, one step per access to shared state: the check, the branch
on `use_noise`, the copy of the nonce, the seal with the key that is there by then, the
load and the store of `nonce++`, the write. Senders run concurrently with `Disconnected`
and with `Connect`, which clears the context at any time, in the middle of a send as well.
The hub is the other end of the Noise specification; it closes at the first frame that does
not open. Two variables only record, for the properties: `begun`, the session in which a
call began, and `overtaken`, that this session began while a send was under way.

`NoiseReceive` - binary frames of a v3 session: `handle_noise_frame`,
`hm_protocol_noise_decrypt_frame`, `cs_decrypt`, the dispatch, the disconnect
after a failure, and the frame that is dropped without memory.

`SecureChannel` - what one direction of a transport session promises: frames
arrive in order, once, with none left out. `NoiseSend` and `NoiseReceive`
both implement it (`ChannelSpec`).

`Encodings` - the seven encodings of `hivemind_crypto.c` as operators, bit by bit:
`Encode`, `Decode` into a buffer of a size, the room an encoder asks for, and
`Field`, what `json_extract_field` cuts out. A 32-bit word is a pair of 16-bit
halves, for TLC's integers end at 2^31. `Bit` and `Value` take bytes into bits and bits
into numbers; `Value` is a recursive function, so that proofs can reach it.

`BinaryFrame` - `hm_binary_encode` and `hm_binary_decode`, bit by bit, with the reads
of `br_read_bits` and `br_read_bytes` beyond the end of the data. A frame has at most 255
bytes of metadata: `hm_binary_encode` refuses more, and the length has eight bits.

`LegacyLink` extends both: a session with a legacy hub. `Connect`, `ShakeResponse`
(a key of its own for the session; the encoding and cipher the hub named, or the
preferred ones), then `DeliverText` and `DeliverBinary`, from a DATA event through
fields, decoding, sizes, opening, envelope or binary frame to the callback, and
`SendBus` and `SendBinary`, which say whether a message of that length fits all
buffers on its way. The link loses, repeats and reorders, over sessions as well; the
websocket library delivers what is longer than its buffer in pieces. The hub seals
with this repository's encoders.

`HmClient` - `hm_client_connect` (four steps) and `hm_client_disconnect` (six),
run by any of three tasks, the reconnect timer, lost connections and the frame
that does not decrypt. The handshake is one step. The websocket library is
external: it dials, reports, and dials again by itself, its default, which
`hm_client_connect` leaves on. `esp_websocket_client_stop` waits for the
websocket task unless that task is the caller. A scenario, chosen by `Init`, says
how the application uses the client (`calls`), whether calls of different tasks
overlap (`serial`), and how much goes wrong (`drops`, `failures`).

`VoiceSession` - `stt_session_start`, `stt_session_stop` with
`submit_stt_recording`, `vad_only_task`, `wake_word_task` with
`speech_detect_fetch` and `i2s_mic_read`, `ui_task`, `on_state_change`. A program
counter per task; a step ends where another task can get between, so the test of
`s_streaming` and the writes behind it are two steps, and `s_rec_count +=` is a
load and a store around the copy. The menuconfig choices are the variable `mode`,
fixed by `Init`. Detection is external: someone speaks or does not, the wake word
is heard at any frame. `s_state`, which drives the LEDs, is left to `Satellite`; the
one test of it that touches a variable of this module, in `UiMuted`, may go either way.

`Satellite` - `s_state` and its four writers (listening task, `ui_task`, callbacks,
`submit_stt_recording`), the LED ring as the state last given to `led_set_state`, the
hub's bus and binary messages, loading a reply (base64 WAV, binary WAV or raw PCM,
HTTP), `i2s_spk_push`, `playback_task`, the dial. A step ends where another task can
get between: `ui_task`'s tests of `s_state` and the writes behind them are two
steps, and so are the test of `s_streaming` and each write behind it in
`stt_session_start` and `stt_session_stop`. What is detected and how much is recorded
is a choice here, in the order the loops allow: `vad_only_task` ends what it began
itself (`in_speech`), `wake_word_task` any session. It is coarser than `VoiceSession` in
one place: what a frame of `wake_word_task` does after the detector's event, up to
ending a session whose buffer is full, is the next frame here, and so waits for a link
that is up. The two modules describe the same code; that one implements the other is not
checked. A press of the button is a choice at the moment `ui_task` looks: it may have come
at any time before. A reply is one sample value and its length.

`Audio` - what `Satellite` computes with: `audio_util.c` (WAV header, volume), what
`ovos_http.c` collects of a response and takes out of it. Sums of sizes wrap at `W`.

`MCHmProtocol`, `MCHmEvents`, `MCHmClient`, `MCVoiceSession`, `MCLegacyLink` and
`MCSatellite` give the constants their small sets. `HmEventsProofs` (with those of
`HmProtocol`), `HmClientProofs`, `NoiseSendProofs`, `NoiseReceiveProofs`,
`CodecProofs` (of `Encodings` and `BinaryFrame`), `LegacyLinkProofs`,
`VoiceSessionProofs` and `SatelliteProofs` hold the proofs.
Operators with a suffix (`Opens_AnySession`, `StopTimer_LeftRunning`, ...) are
plausible mistakes; `PROJECT.json` says which property fails when one replaces
its original.

## Runs

| Run | Question | Bounds | States |
| --- | --- | --- | --- |
| `HmProtocol_safety` | Does READY mean what it should, whatever hub and link do? | 2 sessions, 2 HELLOs, 2 keys, 4 offers | 167,592 |
| `HmEvents_patient` | What does an application see and write that sends from the last READY callback? | 2 sessions, 1 HELLO, 2 keys, 2 offers, 2 frames a session | 52,620 |
| `NoiseSend_one_task` | Under which key and nonce does one task send, whenever the client reconnects, under every link and failure? | 1 sender, 4 sends, 3 sessions, nonces to 3 | 331,272 |
| `NoiseReceive_link` | Is what the client dispatches what its hub sent? | 2 sessions, nonces to 3 | 11,031 |
| `HmClient_life` | Does a client that is down become READY again? Are handles used soundly, is disconnect complete? | 9 handles, three scenarios: 5 drops after one connect; 4 drops, 1 failure, 4 calls that do not overlap; 3 drops, 2 calls anywhere | 186,945 |
| `VoiceSession_tasks` | Do recording sessions stay within the buffer, begin and end, whatever the order of tasks, user and connection? | 5 build modes, chunks of 2, buffer of 3, 2 silent frames | 434,232 |
| `LegacyLink_codecs` | What comes back of what a legacy hub says, and does what the client says fit? | 2 sessions, 7 encodings, 2 ciphers, 1 message of the hub, of 136; see below | 306,631 |
| `Satellite_tasks` | Does the ring tell the truth in the end, is a reply heard, unharmed? | 4 scenarios, up to 2 replies, 3 bodies, ring of 3 samples, 1 turn of the dial | 681,583 |

Two sessions are what it takes for one to replay, pin or leave behind what
another one meets. Two HELLOs and two keys are enough to differ. The four
offers are: both patterns, one of each, and a legacy hub. `MaxNonce` = 3 puts the
reserved nonce within reach of four sends. In `NoiseSend` a third session
can follow one that overtook a send. `MaxHandles` = 9 is more than any scenario
of `HmClient_life` has calls and drops together, and every drop arms the timer once at
most, so that the bound never stops a reconnect.

In `LegacyLink_codecs` the hub says one thing in each behaviour, in the first session or
the second, and it is delivered any number of times, before and after READY and in the
session after it. Messages do not act on one another: there is no state between them,
so that one message shows what any number would. The ciphertexts have all lengths
modulo 4 that the encodings tell apart and contain what the fill count of Z85P and
base91's quotation mark turn on; nonces and tags are plain or end in a byte Z85P takes for
a fill count; the frames are BUS and BINARY ones, versioned or not, with and without
metadata and payload, and byte strings no encoder writes. The buffer of the websocket
library is cut to 109 bytes so that some messages come in pieces. The sizes
sent are those at which an answer changes: 1, 4045, 4046, 4096.

In `Satellite_tasks` a ring of three samples is as long as one body, longer than another and
shorter than what HTTP may yield; the three bodies are a WAV that announces more than
it has, one whose announced size wraps around the sum that checks it (`W` = 128 stands
for 2^32, `MaxAlloc` = 20 for the memory there is), and raw PCM of odd length.
The scenarios share the work, for the product is out of reach: a satellite in use with
no audio, in use with one reply, and left to itself with two replies and a turn of the
dial, with TTS in binary and over HTTP. The proofs need none of this.

In `VoiceSession_tasks` the buffer is no multiple of a chunk, so that both the last
whole chunk and the clipped one occur; two silent frames make one that ends the
session and one that does not. The five modes are both tasks in a batch mode with
a buffer, in streaming mode, and a batch mode whose buffer could not be allocated.
`MicWords` = 4 lets a read return a chunk of 2: this is what the tasks
expect of `i2s_mic_read`; the sizes of the code are those of `VoiceSession_deaf`.
Nothing else is bounded: user, connection and tasks go on for ever.

`CHECK_DEADLOCK FALSE` is set in all runs but that of `Satellite`, which never stops: when
the bounds are used up, or a client is READY and nothing happens to it, there is
nothing left to do.

### What the runs found

| Run | The code | The text |
| --- | --- | --- |
| `HmEvents_eager` | calls `state_cb(READY)` before the reply and the HELLO are sent, so a send from the callback, as in README and text satellite, precedes them (`hivemind.c:245`) | "the encrypted HELLO rides as the first Noise transport message" (`hivemind.c:257`) |
| `NoiseSend_two_tasks` | two senders can seal under one nonce (`hivemind_noise.c:196`); the microphone satellite starts a sender at each announcement of READY, and there are two per session | "never reused or rewound" (`hivemind_noise.h:57`) |
| `HmClient_failure` | a failed connect in the timer callback is never retried (`hivemind.c:83`) | "reconnects after a drop" (`README.md:21`) |
| `VoiceSession_deaf` | reads at most 256 samples (`i2s_mic.c:54`) where `vad_only_task` wants 480 and throws away less (`main.c:420`), so the VAD never sees a frame; `wake_word_task` does the same with the chunk size of esp-sr | "Streams raw audio to hub whenever VAD detects speech." (`voice_pe_hw.h:65`) |

### What the assumptions hide

A single sender (`NoiseSend_one_task`) and the scenarios that are `serial` (`HmClient`)
are not guaranteed by the code. They say what a lock, or a careful application, would
give, and the runs and proofs under them show that nothing else is missing.

When `hm_client_connect` runs is not restricted in `NoiseSend`: the timer task clears the
context under a send. The documentation knows no such case ("At `HM_STATE_READY` all bus
and binary traffic is encrypted with the negotiated cipher.", `docs/configuration.md:55`),
and the properties name it where it makes a difference:

- `KeyedUnlessOvertaken`: a frame is under the key of its session's handshake, whatever
  other tasks send and fail, if its call began in that session. A call that a reconnect
  overtook after it looked at the state (`hivemind.c:687`) finds `use_noise` (717) or
  the key (723) cleared and sends a frame under the all-zero key. (Drop
  `f.body.begun = f.body.at`, and TLC finds it.)
- `NonceNeverReused` and `ChannelSpec` leave out the sessions that began while a send was
  under way. A call that copied its nonce before the reconnect and seals after the next
  handshake uses an old number under the new key, and the counter comes to that number
  again. So the reuse of `NoiseSend_two_tasks` does not take two senders: one and the
  timer are enough. (Drop `~overtaken`, and TLC finds it.)

The 32 bytes of a key are taken over at once: a key torn by `memset` in the middle of its
copy, which no hub has, is not modelled.

`RecoversUnlessFailed` is checked without `serial` too; `HandlesSound` and
`DisconnectIsComplete` need it. A DISCONNECTED event handled between the lines of
`hm_client_disconnect` that stop the timer and the websocket (567-571) arms the timer
again, and it later tears down the new session. If it fires while the websocket task is
in `hm_client_disconnect`, after a frame that did not decrypt, the handle is stopped
and destroyed twice. (Drop the condition from `HandlesSound`, and TLC finds it.)

`LegacyLink` takes the hub to encode as the client does; nothing of the hub's encoders
is in this repository. Its link does not turn the client's own messages round.

Remarks from reading and from trying properties that do not hold:

- `hm_client_init` turns `reconnect_ms` 0 into 5000 (`hivemind.c:374`), which
  `hivemind.h:37` calls "disabled"; the test for 0 in `start_reconnect_timer` never
  holds.
- `hm_client_disconnect` returns before it stops the timer when the handle is gone
  (`hivemind.c:562`), as after a frame that did not decrypt: the client
  connects again after the disconnect. `DisconnectIsComplete` is about the calls
  that get past that test.
- In VAD mode a reconnect clears `s_streaming` but not `in_speech`: what is said
  until the next silence belongs to no session and is not submitted. Mute does not
  end a session the button began (`main.c:409`), which is why `MuteEndsSession`
  is about the wake-word mode.
- `s_in_session` of `speech_detect.c` survives a reconnect and a stop by the
  button: the next speech opens a session without a wake word.
- Two tasks can be in `stt_session_stop` at once, past its test: two `record_end`.
- Z85B fills up with zeros nobody takes away, so a field whose length is no multiple of
  4 does not come back, although the comment says "caller must ensure src_len is already
  a multiple of 4" (`hivemind_crypto.c:272`). Z85P marks the fill count only where there
  is one: a field whose length is a multiple of 4, as all nonces and tags are, loses
  bytes if it ends in 1, 2 or 3 (`hivemind_crypto.c:335`; "the last byte of the padded
  input encodes the pad count", line 273). Base91's alphabet has the quotation mark, which
  ends the field in JSON. `TextComesBack` states exactly this (`Spoilt`), for texts that fit
  the envelope's buffer. The client
  prefers HEX; a hub that names another encoding is followed.
- A BINARY frame with metadata can be encoded and not decoded: its bintype puts either
  metadata or payload off a byte (`hivemind_binary.c:203`), although the format in
  `hivemind_binary.h:5` has both. Of frames of other types the payload is dropped
  (`hivemind.c:150`).
- With HEX a bus message of 4046 to 4095 characters fits its own buffer and not the
  JSON (`hivemind.c:663`).
- A legacy session opens a message again when it is repeated; `Authentic` excludes those
  of other sessions only.
- `hm_protocol_decrypt_message` is given no length: it searches `data_ptr` as a string.
- The ring stays orange after unmuting until something else changes `s_state`
  (`main.c:547`); the mute light is documented as "Mic disabled".
- An empty recording leaves LISTENING on (`main.c:165`), and so does a stop between the
  two writes of `stt_session_start`. THINKING waits for the hub for ever (`main.c:168`).
- The button, or an HTTP answer, or the end of playback may replace ERROR by another
  state while there is no connection (`main.c:195`, `368`, `572`).
- SPEAKING is set before the audio is there: `ui_task` finds an idle speaker and goes back
  to IDLE while the request is under way (`main.c:214`, `571`).
- A reply of more than 16384 samples, one second, never has room in the ring buffer and is
  dropped after 100 ms (`i2s_spk.c:79`); `WholeReplies` says it is dropped whole.
- Over HTTP the announced size is taken as it is (`ovos_http.c:225`): up to 960000 bytes
  are copied out of a buffer of 512 KB. A piece of a response that does not fit is
  skipped while later ones are kept (`ovos_http.c:92`). `ReadsInside` is about the other
  two ways in.
- Raw PCM of odd length is copied whole into a buffer of whole samples, one byte too
  many (`main.c:326`).
- The walk over the chunks of a WAV adds any 32-bit size to its position and may wrap
  around (`audio_util.c:49`); only where it ends is modelled.
- `speak:b64_audio.response` is played in every TTS mode (`main.c:252`).
- READY is announced twice to `state_cb` (`hivemind.c:245` and `281`).
- The legacy key is derived in every handshake (`hivemind_protocol.c:1020`)
  although `docs/configuration.md:55` says it is reused on reconnect.

### Fairness

Three specifications have fairness. `FairSpec` of `HmClient`: weak fairness of
the steps of connect and disconnect and of the two steps of the DISCONNECTED
event: FreeRTOS schedules tasks that are ready. Weak fairness of `TimerFires`:
`esp_timer` fires an armed timer. Weak fairness of `Opened` and `Handshake`: the
hub is there and answers; the client has no timeout of its own, so without this
it may wait in CONNECTING for ever. Nothing is assumed of the application or
of `Redial`. Drops are bounded: with endless drops nothing recovers. `Recovers`
promises nothing once a dead handle was used; `RecoversUnlessFailed` nothing once
`hm_client_connect` failed, which is what `HmClient_failure` is about.

`FairSpec` of `VoiceSession`: weak fairness of the listening task, of `ui_task` and
of the callback (scheduling; the calls they make return: HTTP
requests time out, writes end with the socket), and of `Connected` (the client reconnects). `SF(Frame)`, strong
because a failed read sends the task round its loop: a microphone that returns
frames again and again is listened to. Nothing is assumed of the user, of
`Dropped` or of `UiMuted`.

`FairSpec` of `Satellite`: weak fairness of the listening task, `ui_task`, the callback in
progress and `playback_task`: they are scheduled, and the calls they make return. Nothing is
assumed of user, hub, connection or dial; where a property needs it, it is a premise
(`<>[]muted`, `<>[](link = "up")`).

## Proofs

All proofs hold for any constants that satisfy the named assumptions; nothing is
bounded in them but by the guards that carry a bound's name.

`HmEventsProofs`, of `HmProtocol`: `Spec => []IInv`, and from it `TypeOK`, `Agreement`,
`RefusalIsFatal`, `LegacyByOptIn` and `OnePartner`. None of these but the first
is inductive. `IInv` adds: a refused message 2 leaves a dirty transcript and the
state where it was (`Poisoned`); a Noise handshake under way runs under this
session's ephemeral and, for KKpsk0, under the pinned key and the PSK
(`NoiseSent`); `use_noise` is not set before (`NoNoiseYet`); the pin of the
session is the client's pin if there is one (`PinInForce`); and every
partner is that pin, or is about to become it between READY and the end of the
event (`PartnersPinned`). The heart is `AuthenticAgrees`: a message 2 that opens was
sealed by a hub that had the client's transcript.

`HmEventsProofs`, of `HmEvents`: `EventSpec => Spec`: the steps of the event handler implement
`HmProtocol`, so all that is proved there holds here. `EventTypeOK` and `ReadyBelief`,
wherever the application sends from; `HandshakeFirst` if it waits for the second READY
callback (`Patient`), and `HmEvents_eager` shows that it does not hold otherwise. The
invariant adds that a handler starts from a state other than READY and
leaves nothing queued after an error (`EventInHand`), what the application believes
between the callback and the end of the event (`Belief`) and that nothing of the
application is on the link until the handshake is over (`AppAfterwards`).

`HmClientProofs`: `TypeOK` with any tasks inside the client at once; with one at a time
(`scenario.serial`), for any number of calls, drops and failures, `HandlesSound` and
`DisconnectIsComplete`. The invariant says what a call knows at each step: `ws_handle` is
the one client the library has, except between `destroy` and the assignment of
NULL (`HandleIsLive`), a stopped timer stays stopped until the call returns
(`TimerStays`), and who called (`CallersKnown`), without which the return is not typed.

`NoiseSendProofs`, first for every application, however many tasks send and whenever
they reconnect: `TypeOK` and `KeyedUnlessOvertaken`. Neither the key of a frame nor that
of the context says enough by itself. `KInv` adds that every key there is belongs to the
session or is none, and that READY means there is one (`KeysOfSession`); that a call
whose session lasts finds the key of the transport it chose, and that no handshake
completes under it (`CallsOfSession`); and that what is composed or on the link is keyed
so (`FramesKeyed`). A reconnect keeps it for free: no call under way began in the new
session. Then for one sending task (`OneSender`), whenever the client reconnects: in a
session that overtook no send (`OInv`), frame number i is sealed under nonce i and the
counter is one past the last frame, but for the moment between seal and store (`Counter`,
`CallInProgress`); every frame of this session on the link is the one sealed under its
nonce (`KnownFrames`). Hence `NonceNeverReused`, and `ChannelSpec`: every step is a
`Send`, `Receive`, `Reset` or stutter. That more than one task breaks it is
`NoiseSend_two_tasks`.

`NoiseReceiveProofs`: with no assumption on the environment, the receive counter
is the number of frames opened and a frame on the link is the one sealed under its
nonce, so what is opened is a prefix of what was sealed. Hence `TypeOK`,
`DispatchedInOrder`, `RefusalIsFinal` and `ChannelSpec`.

`VoiceSessionProofs`: `TypeOK` and `InBuffer` for every chunk size and buffer
length and with no assumption on the tasks. `InBuffer` is not inductive: the count
is checked in one step and used in two others, with resets in between. `IInv` adds
that there is room for what is about to be copied and for what is about to be
stored, and that the count has not grown since it was loaded (`RoomToCopy`): the
listening task is the only one to add to it. For the type of the silence counter,
that its limit is reached inside a frame of `vad_only_task` only
(`SilenceInFrame`, `Returns`).

`LegacyLinkProofs`: `TypeOK`, `Authentic`, `SendsFit`, `TextComesBack`, `FrameComesBack`
and `InBounds` for every set of messages, sizes, nonces and pieces. `Authentic` rests on
`Opened`: whatever `Field` and `Decode` make of a message, what opens was sealed under the
session's key. `SendsFit` is the arithmetic of seven encoders against the buffers of
`hm_crypto_encrypt_json` (`EncodingNeverFails`) and of the binary sender (`BinaryFits`), for
every length; TLC checks four.

`CodecProofs` inverts the pure code, with no state in it. `FieldBackOrLost` puts together
what it shows of the encodings: a field of any bytes comes back, or its encoding spoils it
(`Spoilt`) and it is refused or has another length (`Lost`).

- HEX, Base64, its URL-safe form and Base32 write the bits of the bytes in groups of 4, 6 or
  5 and `Gather` reads them back bit by bit (`GatherBack`); what fills up is recognised by
  its letter (`DigitCodec`).
- Z85 writes five remainders of divisions by 85. A word of 32 bits is a pair of halves, and
  multiplying by 85 undoes the division on pairs. What is left over is a matter of the fill:
  `Z85BCodec` and `Z85PCodec` say for which lengths and last bytes it can be told from data.
- Base91's words have 13 or 14 bits by their own value, so where a word begins depends on all
  before it. `Written91` and `Read91` say of the encoder and the decoder that they are at the
  same bit, and the induction is on the bits left (`DownTo`); `AllReadBack` is the whole
  text, `CutShort` what a quotation mark in it leaves.

A binary frame goes from the bits up. `Value` of bits written by `BitsOf` is the number
again (`BitsOfBack`), bits packed by eight are the bits of the bytes (`PackedBits`);
`FrameLayout` says at which bit each part of a frame stands, and that the zeros in front
put the end on a byte; `FrameRead` and `FrameBack` read the parts where they stand.
`InBounds` is `DecodeInside` for every sequence of bytes. The functions of these modules are
recursive over numbers; the library's induction theorems cannot be used here, so
`Counting` derives induction from a least element of a set of numbers (`Least`), and
`StepsExist` builds the functions.

Around field and frame, the two theorems about what comes back have the same shape. A whole
message gives the nonce, ciphertext and tag that were sealed (`WholeTextOpens`, `Unsealed`);
a piece opens to nothing (`TextPieceLost`, `PieceLost`): it has the nonce or the tag of the
message and a shorter ciphertext. A spoilt field opens to nothing for the same reason: the
fields that did come back name one seal, and the third is not that seal's. This needs that
two seals of a session differ in nonce and tag (`SealsKept`, the part `IInv` adds): the
nonces by the guard of `HubSeal`, the tags by `LinkAssumption`, which says that equal tags
come with equal nonces: a tag is a value of a keyed function of the nonce, 128 bits of it,
and the model's cryptography is symbolic. `LinkAssumption` also says what holds of the
texts: an envelope is JSON and no binary frame, JSON is not empty, and a ciphertext is as
long as its text and so not empty either.

`SatelliteProofs`: `TypeOK`, `ReadsInside` and `NeverLouder` for every body, memory size,
ring and dial. The invariant adds to the types that a reply being pushed was scaled from
the body in hand (`Levels`), that what was read of it ends inside it (`Copied`) and that
every unit in the ring names a reply that was pushed (`Counted`). `VolumeNeverAmplifies`
is the arithmetic of the shift. Most steps touch none of this (`Quiet`), so each part is proved once for them
and once for each step that handles audio. `WholeReplies` counts the ring's units of a
reply: playback moves one from the ring to what was heard, and a push adds all or nothing.

Every safety invariant and action property of a passing run is a theorem. Only
model-checked: `RecoversUnlessFailed`, `MuteEndsSession`, `SessionEnds`,
`SpeechIsHeard`, `MuteIsShown`, `RedEnds`, `SpeakingEnds` and `ReplyIsHeard`, liveness
properties under fairness, which are out of the prover's reach.

## Not modelled

Wording and layout of messages, the text of the canonical JSON, PBKDF2, HKDF, curve and
AEAD arithmetic: their results are compared, never computed. Which letters an encoding
uses and their case. What the library does when it is stopped and destroyed from its own
task; the model lets the stop succeed. `hm_client_free`, after which the handle is dead.
Of the Voice PE satellite: the energy threshold of the VAD and WakeNet, URLs and headers of
HTTP, upsampling, and its pin and codec set-up, which has no behaviour of its own. The
tests and the host build.

## Plan

Done: all modules above and their proofs. Left, in this order:

1. `Satellite` as a refinement of `VoiceSession`'s sessions, checked in one run.
2. The canonical JSON of the prologue as an operator on trees: equal prologues only for
   equal offers.
