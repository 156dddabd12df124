------------------------------ MODULE HmProtocol ------------------------------
(***************************************************************************)
(* The handshake of the HiveMind client: hm_protocol_ctx_t and the         *)
(* handlers of hivemind_protocol.c, with the Noise handshake state of      *)
(* hivemind_noise.c, run against any hub over any link.                    *)
(*                                                                         *)
(* Cryptography is symbolic.  The SymmetricState (h, ck, hs_cipher) is the *)
(* record of what was mixed into it (a transcript): SHA-256, HKDF and      *)
(* X25519 are taken as injective, so a ciphertext opens exactly under the  *)
(* transcript it was sealed under.  A transcript into which an ephemeral   *)
(* that was never answered for is mixed can equal no hub's: it is dirty.   *)
(*                                                                         *)
(* One client lives through several sessions (hm_client_connect); in each  *)
(* the hub may be another one, know another PSK, and the link may alter,   *)
(* replay, reorder or lose whatever the hub sends.                         *)
(***************************************************************************)
EXTENDS Naturals

CONSTANTS
  Hellos,       \* canonical payloads of the HELLO a hub may send
  Offers,       \* control fields of the parameter HANDSHAKE a hub may send
  Keys,         \* X25519 static keys hubs may own
  NoHello,      \* server_hello_canon = NULL
  NoKey,        \* has_server_static_key / has_rs = false
  MaxSessions   \* bound: connections of one client

Patterns == {"XXpsk2", "KKpsk0"}

(* What select_noise and handle_shake_request read in a payload: whether   *)
(* max_protocol_version >= 3, noise.suites has the ChaCha suite, which     *)
(* patterns noise.patterns lists, and the legacy flag "handshake".         *)
OfferType == [max3 : BOOLEAN, suite : BOOLEAN,
              patterns : SUBSET Patterns, handshake : BOOLEAN]
NoOffer == [max3 |-> FALSE, suite |-> FALSE, patterns |-> {}, handshake |-> FALSE]

ASSUME ConstantsAssumption ==
  /\ Offers \subseteq OfferType
  /\ NoHello \notin Hellos
  /\ NoKey \notin Keys
  /\ MaxSessions \in Nat

States == {"DISCONNECTED", "CONNECTING", "HELLO_RECEIVED", "HANDSHAKE_SENT",
           "KEY_DERIVED", "NOISE_HANDSHAKE_SENT", "READY"}
Psks    == {"ours", "other"}
Replies == {"none", "msg1", "msg3", "hsub", "hello"}

Transcripts ==
  [pattern : Patterns, hello : Hellos \cup {NoHello}, offer : OfferType,
   e : 0..MaxSessions, s : Keys \cup {NoKey}, psk : Psks \cup {"none"},
   dirty : BOOLEAN]

VARIABLES
  (* hm_protocol_ctx_t *)
  state, v3_enabled, legacy_hub,
  server_static_key,    \* the pin of this session, NoKey while has_server_static_key is false
  server_hello_canon, use_noise, pending_bin,
  crypto_key,           \* legacy session key: 0, or the session that derived it
  (* hm_noise_ctx_t *)
  msg_index, finished, rs, h,
  (* hm_client_t and the call in progress *)
  server_noise_key,     \* the pin kept across reconnects
  reply,                \* *reply_out of the last hm_protocol_handle_message
  err,                  \* that call did not return ESP_OK
  (* the hub of this session, and what reached any hub *)
  hub, msg1s,
  (* bookkeeping *)
  session,              \* connections so far
  failed,               \* a Noise message 2 was tried and refused in this session
  partners              \* static keys of the hubs of all completed Noise sessions

configVars == <<v3_enabled, legacy_hub>>
noiseVars  == <<msg_index, finished, rs, h>>
envVars    == <<hub, msg1s, session>>
vars == <<state, configVars, server_static_key, server_hello_canon, use_noise,
          pending_bin, crypto_key, noiseVars, server_noise_key, reply, err,
          envVars, failed, partners>>

-----------------------------------------------------------------------------
(* Messages of the hub as the handlers see them.                           *)

Shake(offer, envelope, noise) ==
  [type |-> "HANDSHAKE", offer |-> offer, envelope |-> envelope, noise |-> noise]
NoNoise == [kind |-> "absent"]

(* The transcript of a hub that answered message 1 m1: what it sent and    *)
(* knows, not what reached the client.                                     *)
HubTranscript(m1) ==
  [pattern |-> m1.pattern, hello |-> hub.hello, offer |-> hub.offer,
   e |-> m1.e, s |-> hub.key, psk |-> hub.psk, dirty |-> FALSE]

(* Noise message 2; the link may have damaged its static key (XX) or its   *)
(* payload, both sealed.                                                   *)
Message2(m1, damaged) ==
  [kind |-> "message2", t |-> HubTranscript(m1), damaged |-> damaged]

HelloMessages  == [type : {"HELLO"}, hello : Hellos]
OfferMessages  == {Shake(o, "absent", NoNoise) : o \in Offers \cup {NoOffer}}
LegacyMessages == {Shake(NoOffer, env, NoNoise) : env \in {"bad", "good"}}
NoiseMessages  ==
  {Shake(NoOffer, "absent", [kind |-> k]) : k \in {"unparsable", "short"}} \cup
  {Shake(NoOffer, "absent", Message2(m1, d)) :
      m1 \in msg1s, d \in {"no", "static", "payload"}}

(* "malformed" stands for every frame refused before the switch on the     *)
(* state; "BUS" for a well-formed envelope of any other type.              *)
OtherMessages == [type : {"malformed", "BUS"}]

-----------------------------------------------------------------------------
(* select_noise: the pattern to run, or "none".                            *)
SelectNoise(o) ==
  IF ~(v3_enabled /\ o.max3 /\ o.suite) THEN "none"
  ELSE IF server_static_key # NoKey /\ "KKpsk0" \in o.patterns THEN "KKpsk0"
  ELSE IF "XXpsk2" \in o.patterns THEN "XXpsk2"
  ELSE "none"

(* The handler returned an error and changed nothing but what is primed    *)
(* elsewhere.                                                              *)
Fail == err' = TRUE /\ reply' = "none"
Succeed(r) == err' = FALSE /\ reply' = r

(* handle_hello; without memory for the canonical payload it keeps NULL.   *)
HandleHello(m) ==
  /\ state = "CONNECTING" /\ m.type = "HELLO"
  /\ state' = "HELLO_RECEIVED"
  /\ server_hello_canon' \in
       IF v3_enabled THEN {m.hello, NoHello} ELSE {server_hello_canon}
  /\ Succeed("none")
  /\ UNCHANGED <<configVars, server_static_key, use_noise, pending_bin,
                 crypto_key, noiseVars, server_noise_key, envVars, failed,
                 partners>>

(* hm_noise_init and message 1: the prologue is HELLO, parameter HANDSHAKE *)
(* and protocol name; KKpsk0 mixes the pinned key and the PSK already.     *)
TranscriptAfterMessage1(pattern, o) ==
  [pattern |-> pattern, hello |-> server_hello_canon, offer |-> o, e |-> session,
   s     |-> IF pattern = "KKpsk0" THEN server_static_key ELSE NoKey,
   psk   |-> IF pattern = "KKpsk0" THEN "ours" ELSE "none",
   dirty |-> FALSE]

(* start_noise_handshake.  It can run out of memory before the Noise       *)
(* context is touched or after message 1 was written to it.                *)
StartNoiseHandshake(m) ==
  LET pattern == SelectNoise(m.offer)
  IN /\ state = "HELLO_RECEIVED" /\ m.type = "HANDSHAKE" /\ pattern # "none"
     /\ \/ Fail /\ UNCHANGED <<state, noiseVars>>
        \/ /\ msg_index' = 1 /\ finished' = FALSE
           /\ rs' = IF pattern = "KKpsk0" THEN server_static_key ELSE NoKey
           /\ h' = TranscriptAfterMessage1(pattern, m.offer)
           /\ \/ Fail /\ UNCHANGED state
              \/ Succeed("msg1") /\ state' = "NOISE_HANDSHAKE_SENT"
     /\ UNCHANGED <<configVars, server_static_key, server_hello_canon, use_noise,
                    pending_bin, crypto_key, server_noise_key, envVars, failed,
                    partners>>

LegacyAllowed_IgnoresOptIn == legacy_hub \/ ~v3_enabled
LegacyAllowed == legacy_hub

(* The rest of handle_shake_request: a hub that cannot complete Noise is   *)
(* refused unless legacy_hub is set and it announces handshake:true.       *)
HandleShakeRequest(m) ==
  /\ state = "HELLO_RECEIVED" /\ m.type = "HANDSHAKE"
  /\ SelectNoise(m.offer) = "none"
  /\ \/ Fail /\ UNCHANGED state
     \/ /\ LegacyAllowed /\ m.offer.handshake
        /\ Succeed("hsub") /\ state' = "HANDSHAKE_SENT"
  /\ UNCHANGED <<configVars, server_static_key, server_hello_canon, use_noise,
                 pending_bin, crypto_key, noiseVars, server_noise_key, envVars,
                 failed, partners>>

(* handle_shake_response: extract the IV, derive the key, build the        *)
(* encrypted HELLO; a failure of the last step leaves KEY_DERIVED.         *)
HandleShakeResponse(m) ==
  /\ state = "HANDSHAKE_SENT" /\ m.type = "HANDSHAKE"
  /\ \/ Fail /\ UNCHANGED <<state, crypto_key>>
     \/ /\ m.envelope = "good"
        /\ crypto_key' = session
        /\ \/ Fail /\ state' = "KEY_DERIVED"
           \/ Succeed("hello") /\ state' = "READY"
  /\ UNCHANGED <<configVars, server_static_key, server_hello_canon, use_noise,
                 pending_bin, noiseVars, server_noise_key, envVars, failed,
                 partners>>

-----------------------------------------------------------------------------
(* Reading Noise message 2 (hm_noise_read_message) and completing it.      *)

(* An AEAD ciphertext opens under the transcript it was sealed under.      *)
Opens_OfferUnbound(mine, sealed) == [mine EXCEPT !.offer = sealed.offer] = sealed
Opens(mine, sealed) == mine = sealed

(* XXpsk2: the hub's static key is sealed before it and the PSK are mixed. *)
StaticOpens(m2) ==
  /\ h.pattern = "XXpsk2" /\ m2.damaged # "static"
  /\ Opens(h, [m2.t EXCEPT !.s = NoKey, !.psk = "none"])

(* The transcript with everything message 2 brings.                        *)
Completed(m2) ==
  IF h.pattern = "XXpsk2" THEN [h EXCEPT !.s = m2.t.s, !.psk = "ours"] ELSE h

Authentic(m2) ==
  /\ h.pattern = "XXpsk2" => StaticOpens(m2)
  /\ m2.damaged = "no"
  /\ Opens(Completed(m2), m2.t)

(* The message in hand is a message 2 that hm_noise_read_message tries.    *)
Tries(m) ==
  /\ state = "NOISE_HANDSHAKE_SENT" /\ m.type = "HANDSHAKE"
  /\ m.noise.kind = "message2" /\ ~finished /\ msg_index = 1

(* A failed message leaves its ephemeral in h and ck.                      *)
AfterRefusal_Restored(t) == t
AfterRefusal(t) == [t EXCEPT !.dirty = TRUE]

RefuseMessage2(m) ==
  /\ Tries(m) /\ ~Authentic(m.noise)
  /\ h' = AfterRefusal(h)
  /\ rs' = IF StaticOpens(m.noise) THEN m.noise.t.s ELSE rs
  /\ failed' = TRUE /\ Fail
  /\ UNCHANGED <<state, configVars, server_static_key, server_hello_canon,
                 use_noise, pending_bin, crypto_key, msg_index, finished,
                 server_noise_key, envVars, partners>>

(* The TOFU pin: a pinned key must be met, an unpinned session learns one. *)
PinAccepts(pin, key) == pin \in {NoKey, key}

(* msg_index once the initiator is done.                                   *)
LastIndex_SplitCounts(XX) == IF XX THEN 4 ELSE 3
LastIndex(XX) == IF XX THEN 3 ELSE 2

(* handle_noise_shake_response after hm_noise_read_message returned OK:    *)
(* pin check, message 3 (XXpsk2), encrypted HELLO.  Every failure on the   *)
(* way keeps NOISE_HANDSHAKE_SENT and what was done so far.                *)
CompleteNoise(m) ==
  LET XX      == h.pattern = "XXpsk2"
      learned == IF XX THEN m.noise.t.s ELSE rs
  IN /\ Tries(m) /\ Authentic(m.noise)
     /\ h' = Completed(m.noise) /\ rs' = learned
     /\ \/ /\ \/ ~PinAccepts(server_static_key, learned) /\ UNCHANGED server_static_key
              \/ /\ XX /\ PinAccepts(server_static_key, learned)
                 /\ server_static_key' = learned
           /\ msg_index' = 2 /\ finished' = ~XX
           /\ Fail /\ UNCHANGED <<state, use_noise, pending_bin, partners>>
        \/ /\ PinAccepts(server_static_key, learned)
           /\ server_static_key' = learned
           /\ msg_index' = LastIndex(XX)
           /\ finished' = TRUE
           /\ \/ /\ Fail /\ use_noise' \in BOOLEAN
                 /\ UNCHANGED <<state, pending_bin, partners>>
              \/ /\ Succeed(IF XX THEN "msg3" ELSE "none")
                 /\ use_noise' = TRUE /\ pending_bin' = TRUE /\ state' = "READY"
                 /\ partners' = partners \cup {learned}
     /\ UNCHANGED <<configVars, server_hello_canon, crypto_key,
                    server_noise_key, envVars, failed>>

-----------------------------------------------------------------------------
(* Frames that change nothing: refused before the switch, of a type the    *)
(* state does not expect, arriving in a state without a handler, or a      *)
(* Noise response that hm_noise_read_message does not try.                 *)
Expected == CASE state = "CONNECTING" -> {"HELLO"}
              [] state \in {"HELLO_RECEIVED", "HANDSHAKE_SENT",
                            "NOISE_HANDSHAKE_SENT"} -> {"HANDSHAKE"}
              [] OTHER -> {}

Reject(m) ==
  /\ \/ m.type \notin Expected
     \/ state = "NOISE_HANDSHAKE_SENT" /\ ~Tries(m)
  /\ Fail
  /\ UNCHANGED <<state, configVars, server_static_key, server_hello_canon,
                 use_noise, pending_bin, crypto_key, noiseVars,
                 server_noise_key, envVars, failed, partners>>

HandleMessage(m) ==
  \/ HandleHello(m)
  \/ StartNoiseHandshake(m)
  \/ HandleShakeRequest(m)
  \/ HandleShakeResponse(m)
  \/ RefuseMessage2(m)
  \/ CompleteNoise(m)
  \/ Reject(m)

(* The websocket task is between two events.                               *)
HandlerIdle == reply = "none" /\ ~pending_bin

Messages == HelloMessages \cup OfferMessages \cup LegacyMessages \cup
            NoiseMessages \cup OtherMessages

(* WEBSOCKET_EVENT_DATA with a text frame before READY.                    *)
Deliver(m) ==
  session > 0 /\ HandlerIdle /\ state # "READY" /\ HandleMessage(m)

(* The rest of that event: the reply and the queued HELLO are sent (the    *)
(* link may lose them: the results are not looked at), the queue is freed  *)
(* and, at READY, the pin is kept for later sessions.                      *)
FinishEvent ==
  /\ ~HandlerIdle
  /\ reply' = "none" /\ pending_bin' = FALSE
  /\ msg1s' \in {msg1s} \cup
       (IF reply = "msg1" THEN {msg1s \cup {[pattern |-> h.pattern, e |-> h.e]}} ELSE {})
  /\ server_noise_key' =
       IF state = "READY" /\ server_noise_key = NoKey THEN server_static_key
       ELSE server_noise_key
  /\ UNCHANGED <<state, configVars, server_static_key, server_hello_canon,
                 use_noise, crypto_key, noiseVars, err, hub, session, failed,
                 partners>>

Hubs == [hello : Hellos, offer : Offers, key : Keys, psk : Psks]

BlankTranscript ==
  [pattern |-> "XXpsk2", hello |-> NoHello, offer |-> NoOffer, e |-> 0,
   s |-> NoKey, psk |-> "none", dirty |-> FALSE]

PinForSession_Forgotten == NoKey
PinForSession == IF v3_enabled THEN server_noise_key ELSE NoKey

(* hm_client_connect: the protocol context starts afresh with the pin the  *)
(* client kept; whoever answers is the hub of this session.                *)
Connect(newHub) ==
  /\ HandlerIdle /\ session < MaxSessions
  /\ session' = session + 1 /\ hub' = newHub
  /\ state' = "CONNECTING"
  /\ server_static_key' = PinForSession
  /\ server_hello_canon' = NoHello
  /\ use_noise' = FALSE /\ crypto_key' = 0
  /\ msg_index' = 0 /\ finished' = FALSE /\ rs' = NoKey /\ h' = BlankTranscript
  /\ err' = FALSE /\ failed' = FALSE
  /\ UNCHANGED <<configVars, pending_bin, server_noise_key, reply, msg1s,
                 partners>>

(* WEBSOCKET_EVENT_DISCONNECTED or hm_client_disconnect: notify_state.     *)
Drop ==
  /\ session > 0 /\ HandlerIdle /\ state # "DISCONNECTED"
  /\ state' = "DISCONNECTED"
  /\ UNCHANGED <<configVars, server_static_key, server_hello_canon, use_noise,
                 pending_bin, crypto_key, noiseVars, server_noise_key, reply,
                 err, envVars, failed, partners>>

(* hm_client_init: any provisioning of PSK and legacy_hub, and of a hub    *)
(* key when there is a PSK.  The protocol context is initialised as it is  *)
(* before every connection, so it says CONNECTING already.                 *)
Init ==
  /\ state = "CONNECTING"
  /\ v3_enabled \in BOOLEAN /\ legacy_hub \in BOOLEAN
  /\ server_noise_key \in IF v3_enabled THEN Keys \cup {NoKey} ELSE {NoKey}
  /\ server_static_key = server_noise_key /\ server_hello_canon = NoHello
  /\ use_noise = FALSE /\ pending_bin = FALSE /\ crypto_key = 0
  /\ msg_index = 0 /\ finished = FALSE /\ rs = NoKey /\ h = BlankTranscript
  /\ reply = "none" /\ err = FALSE
  /\ hub \in Hubs /\ msg1s = {} /\ session = 0
  /\ failed = FALSE /\ partners = {}

Next ==
  \/ \E m \in Messages : Deliver(m)
  \/ FinishEvent
  \/ \E newHub \in Hubs : Connect(newHub)
  \/ Drop

Spec == Init /\ [][Next]_vars

-----------------------------------------------------------------------------
(* Properties.                                                             *)

TypeOK ==
  /\ state \in States /\ v3_enabled \in BOOLEAN /\ legacy_hub \in BOOLEAN
  /\ server_static_key \in Keys \cup {NoKey}
  /\ server_hello_canon \in Hellos \cup {NoHello}
  /\ use_noise \in BOOLEAN /\ pending_bin \in BOOLEAN
  /\ crypto_key \in 0..MaxSessions
  /\ msg_index \in 0..3 /\ finished \in BOOLEAN
  /\ rs \in Keys \cup {NoKey} /\ h \in Transcripts
  /\ server_noise_key \in Keys \cup {NoKey}
  /\ reply \in Replies /\ err \in BOOLEAN
  /\ hub \in Hubs
  /\ msg1s \subseteq [pattern : Patterns, e : 0..MaxSessions]
  /\ session \in 0..MaxSessions
  /\ failed \in BOOLEAN /\ partners \subseteq Keys

(* A Noise session that is READY agrees with the hub it talks to on the    *)
(* whole negotiation: the HELLO and the offer the hub really sent (so that *)
(* nothing on the link talked the two down), this session's ephemeral, the *)
(* hub's static key and the PSK.                                           *)
Agreement ==
  state = "READY" /\ use_noise =>
    /\ finished
    /\ h = HubTranscript([pattern |-> h.pattern, e |-> session])
    /\ hub.psk = "ours" /\ rs = hub.key

(* hivemind_noise.h: "any failure [of message 2] is fatal for the          *)
(* connection".  Nothing closes it, so no later message, not even the      *)
(* hub's genuine answer, may complete the handshake.                       *)
RefusalIsFatal == failed => state # "READY"

(* The legacy handshake runs only by the operator's choice, whatever the   *)
(* hub advertises (handle_shake_request, hm_config_t.legacy_hub).          *)
LegacyByOptIn ==
  state \in {"HANDSHAKE_SENT", "KEY_DERIVED"} \/ (state = "READY" /\ ~use_noise)
    => legacy_hub

(* Trust on first use, then pin: across reconnects, with hubs that come    *)
(* and go, all completed Noise sessions are with one hub key.              *)
OnePartner == \A k1, k2 \in partners : k1 = k2
=============================================================================
