---------------------------- MODULE HmEventsProofs ----------------------------
(***************************************************************************)
(* Proofs about HmProtocol and HmEvents, for all sets of HELLOs, offers    *)
(* and keys and any number of sessions.                                    *)
(*                                                                         *)
(* First HmProtocol: the inductive invariant IInv adds to the safety       *)
(* properties what a running handshake knows (NoiseSent), where use_noise  *)
(* can be set and how the pin of the session relates to the pin of the     *)
(* client and to the hubs met so far.                                      *)
(*                                                                         *)
(* Then HmEvents: the handler taken apart implements HmProtocol, so that   *)
(* everything proved of it holds here too; what the application believes;  *)
(* and the order of the frames, for an application that sends from the     *)
(* second READY callback or later.                                         *)
(***************************************************************************)
EXTENDS HmEvents, TLAPS

-----------------------------------------------------------------------------
(* The handshake.                                                          *)

(* A refused message 2 leaves a dirty transcript, and the handshake where  *)
(* it was.                                                                 *)
Poisoned == failed => h.dirty /\ state \in {"NOISE_HANDSHAKE_SENT", "DISCONNECTED"}

(* What message 1 fixed: the ephemeral of this session and, for KKpsk0,    *)
(* the pinned key and the PSK.                                             *)
NoiseSent ==
  state = "NOISE_HANDSHAKE_SENT" =>
    /\ v3_enabled /\ h.e = session
    /\ h.pattern = "KKpsk0" => rs = h.s /\ h.psk = "ours"

NoNoiseYet ==
  state \in {"CONNECTING", "HELLO_RECEIVED", "HANDSHAKE_SENT", "KEY_DERIVED"}
    => ~use_noise

(* A session with v3 runs under the pin the client keeps, if it keeps one. *)
PinInForce ==
  v3_enabled /\ state # "DISCONNECTED" /\ server_noise_key # NoKey
    => server_static_key = server_noise_key

(* Every partner is the client's pin, or is about to become it.            *)
PartnersPinned ==
  \A k \in partners :
    \/ k = server_noise_key
    \/ /\ server_noise_key = NoKey /\ k = server_static_key
       /\ state = "READY" /\ ~HandlerIdle

IInv ==
  /\ TypeOK /\ Poisoned /\ LegacyByOptIn /\ NoiseSent /\ NoNoiseYet
  /\ Agreement /\ PinInForce /\ PartnersPinned

-----------------------------------------------------------------------------
(* The empty payload is an offer of nothing.                               *)
LEMMA NoOfferType == NoOffer \in OfferType
BY DEF NoOffer, OfferType

(* Messages have their types, and a message 2 carries the transcript of    *)
(* the hub of this session.                                                *)
LEMMA MessageTypes ==
  ASSUME TypeOK, NEW m \in Messages
  PROVE  /\ m.type = "HELLO" => m.hello \in Hellos
         /\ m.type = "HANDSHAKE" =>
              /\ m.offer \in OfferType
              /\ m.noise.kind = "message2" =>
                   \E m1 \in [pattern : Patterns, e : 0..MaxSessions] :
                     m.noise.t = HubTranscript(m1)
<1>1. CASE m \in HelloMessages
  BY <1>1 DEF HelloMessages
<1>2. CASE m \in OfferMessages
  <2>1. PICK o \in Offers \cup {NoOffer} : m = Shake(o, "absent", NoNoise)
    BY <1>2 DEF OfferMessages
  <2>2. o \in OfferType
    BY ConstantsAssumption, NoOfferType
  <2> QED
    BY <2>1, <2>2 DEF Shake, NoNoise
<1>5. CASE m \in LegacyMessages
  BY <1>5, NoOfferType DEF LegacyMessages, Shake, NoNoise
<1>3. CASE m \in NoiseMessages
  <2>1. CASE \E k \in {"unparsable", "short"} :
                m = Shake(NoOffer, "absent", [kind |-> k])
    BY <2>1 DEF Shake, NoOffer, OfferType
  <2>2. CASE \E m1 \in msg1s, d \in {"no", "static", "payload"} :
                m = Shake(NoOffer, "absent", Message2(m1, d))
    BY <2>2 DEF Shake, NoOffer, OfferType, Message2, TypeOK
  <2> QED
    BY <1>3, <2>1, <2>2 DEF NoiseMessages
<1>4. CASE m \in OtherMessages
  BY <1>4 DEF OtherMessages
<1> QED
  BY <1>1, <1>2, <1>3, <1>4, <1>5 DEF Messages

(* The transcript of a hub is one, and never dirty.                        *)
LEMMA HubTranscriptType ==
  ASSUME TypeOK, NEW m1 \in [pattern : Patterns, e : 0..MaxSessions]
  PROVE  /\ HubTranscript(m1) \in Transcripts
         /\ HubTranscript(m1).dirty = FALSE
         /\ HubTranscript(m1).s = hub.key /\ hub.key \in Keys
         /\ HubTranscript(m1).psk = hub.psk
         /\ HubTranscript(m1).e = m1.e
         /\ HubTranscript(m1).pattern = m1.pattern
         /\ HubTranscript(m1) =
              HubTranscript([pattern |-> m1.pattern, e |-> m1.e])
BY ConstantsAssumption DEF TypeOK, HubTranscript, Transcripts, Hubs, Psks

(* What message 2 completes is exactly the hub's transcript.               *)
LEMMA AuthenticAgrees ==
  ASSUME IInv, NEW m \in Messages, Tries(m), Authentic(m.noise)
  PROVE  \E m1 \in [pattern : Patterns, e : 0..MaxSessions] :
           /\ Completed(m.noise) = HubTranscript(m1)
           /\ m.noise.t = HubTranscript(m1)
           /\ m1.e = session /\ m1.pattern = h.pattern
           /\ hub.psk = "ours" /\ ~h.dirty
           /\ (IF h.pattern = "XXpsk2" THEN m.noise.t.s ELSE rs) = hub.key
<1>1. PICK m1 \in [pattern : Patterns, e : 0..MaxSessions] :
        m.noise.t = HubTranscript(m1)
  BY MessageTypes DEF Tries, IInv
<1>2. Completed(m.noise) = HubTranscript(m1)
  BY <1>1 DEF Authentic, Opens
<1>3. h \in Transcripts /\ h.e = session
      /\ (h.pattern = "KKpsk0" => rs = h.s /\ h.psk = "ours")
  BY DEF IInv, TypeOK, NoiseSent, Tries
<1>6. /\ HubTranscript(m1).s = hub.key /\ HubTranscript(m1).psk = hub.psk
      /\ HubTranscript(m1).e = m1.e /\ HubTranscript(m1).pattern = m1.pattern
      /\ HubTranscript(m1).dirty = FALSE
  BY HubTranscriptType DEF IInv
<1>4. CASE h.pattern = "XXpsk2"
  <2>1. Completed(m.noise) = [h EXCEPT !.s = m.noise.t.s, !.psk = "ours"]
    BY <1>4 DEF Completed
  <2>2. /\ Completed(m.noise).psk = "ours" /\ Completed(m.noise).e = h.e
        /\ Completed(m.noise).pattern = h.pattern
        /\ Completed(m.noise).dirty = h.dirty
    BY <2>1, <1>3 DEF Transcripts
  <2> QED
    BY <1>1, <1>2, <1>3, <1>4, <1>6, <2>2
<1>5. CASE h.pattern = "KKpsk0"
  <2>1. Completed(m.noise) = h
    BY <1>5 DEF Completed
  <2> QED
    BY <1>1, <1>2, <1>3, <1>5, <1>6, <2>1
<1> QED
  BY <1>3, <1>4, <1>5 DEF Transcripts, Patterns

-----------------------------------------------------------------------------
(* The invariant holds at first (hm_client_init).                          *)
LEMMA InitInv == Init => IInv
<1> SUFFICES ASSUME Init PROVE IInv
  OBVIOUS
<1>1. BlankTranscript \in Transcripts
  BY NoOfferType, ConstantsAssumption DEF BlankTranscript, Transcripts, Patterns
<1>2. TypeOK
  <2>1. /\ crypto_key \in 0..MaxSessions /\ session \in 0..MaxSessions
        /\ msg_index \in 0..3
    BY ConstantsAssumption DEF Init
  <2>2. /\ state \in States /\ reply \in Replies /\ h \in Transcripts
        /\ msg1s \subseteq [pattern : Patterns, e : 0..MaxSessions]
        /\ partners \subseteq Keys
    BY <1>1 DEF Init, States, Replies
  <2> QED
    BY <2>1, <2>2 DEF Init, TypeOK
<1> QED
  BY <1>2 DEF Init, IInv, Poisoned, LegacyByOptIn, NoiseSent, NoNoiseYet,
              Agreement, PinInForce, PartnersPinned

(* The parts of IInv an action leaves alone when it changes neither the    *)
(* handshake nor the pins.                                                 *)
LEMMA StutterInv == IInv /\ UNCHANGED vars => IInv'
BY DEF vars, configVars, noiseVars, envVars, IInv, TypeOK, Poisoned,
       LegacyByOptIn, NoiseSent, NoNoiseYet, Agreement, HubTranscript,
       PinInForce, PartnersPinned, HandlerIdle

(* A HELLO of the hub keeps the invariant (handle_hello).                  *)
LEMMA HelloInv ==
  ASSUME IInv, NEW m \in Messages, HandlerIdle, HandleHello(m)
  PROVE  IInv'
<1> USE DEF HandleHello, configVars, noiseVars, envVars, Succeed, IInv
<1>1. m.hello \in Hellos
  BY MessageTypes
<1>2. TypeOK'
  BY <1>1 DEF TypeOK, States, Replies
<1>3. Poisoned'
  BY DEF Poisoned
<1>4. LegacyByOptIn' /\ NoiseSent' /\ NoNoiseYet' /\ Agreement'
  BY DEF LegacyByOptIn, NoiseSent, NoNoiseYet, Agreement
<1>5. PinInForce' /\ PartnersPinned'
  BY DEF PinInForce, PartnersPinned
<1> QED
  BY <1>2, <1>3, <1>4, <1>5

(* Writing Noise message 1 keeps it (start_noise_handshake).               *)
LEMMA StartInv ==
  ASSUME IInv, NEW m \in Messages, HandlerIdle, StartNoiseHandshake(m)
  PROVE  IInv'
<1> USE DEF StartNoiseHandshake, configVars, noiseVars, envVars, Succeed, Fail, IInv
<1>1. m.offer \in OfferType /\ v3_enabled /\ SelectNoise(m.offer) \in Patterns
  BY MessageTypes DEF SelectNoise, Patterns, TypeOK
<1>2. TranscriptAfterMessage1(SelectNoise(m.offer), m.offer) \in Transcripts
  BY <1>1 DEF TypeOK, TranscriptAfterMessage1, Transcripts, Psks
<1>3. TypeOK'
  <2>0. \/ msg_index' = msg_index /\ finished' = finished
        \/ msg_index' = 1 /\ finished' = FALSE
    OBVIOUS
  <2>1. msg_index' \in 0..3
    BY <2>0 DEF TypeOK
  <2>4. finished' \in BOOLEAN
    BY <2>0, Zenon DEF TypeOK
  <2>2. rs' \in Keys \cup {NoKey} /\ h' \in Transcripts
    BY <1>2 DEF TypeOK
  <2>3. state' \in States /\ reply' \in Replies /\ err' \in BOOLEAN
    BY DEF TypeOK, States, Replies
  <2> QED
    BY <2>1, <2>2, <2>3, <2>4 DEF TypeOK
<1>4. Poisoned'
  BY DEF Poisoned
<1>5. LegacyByOptIn' /\ NoNoiseYet' /\ Agreement'
  BY DEF LegacyByOptIn, NoNoiseYet, Agreement
<1>6. NoiseSent'
  BY <1>1 DEF NoiseSent, TranscriptAfterMessage1
<1>7. PinInForce' /\ PartnersPinned'
  BY DEF PinInForce, PartnersPinned
<1> QED
  BY <1>3, <1>4, <1>5, <1>6, <1>7

(* The legacy answer to an offer keeps it (handle_shake_request).          *)
LEMMA LegacyRequestInv ==
  ASSUME IInv, NEW m \in Messages, HandlerIdle, HandleShakeRequest(m)
  PROVE  IInv'
<1> USE DEF HandleShakeRequest, configVars, noiseVars, envVars, Succeed, Fail, IInv
<1>1. TypeOK'
  BY DEF TypeOK, States, Replies
<1>2. Poisoned' /\ NoiseSent' /\ NoNoiseYet' /\ Agreement'
  BY DEF Poisoned, NoiseSent, NoNoiseYet, Agreement
<1>3. LegacyByOptIn'
  BY DEF LegacyByOptIn, LegacyAllowed
<1>4. PinInForce' /\ PartnersPinned'
  BY DEF PinInForce, PartnersPinned
<1> QED
  BY <1>1, <1>2, <1>3, <1>4

(* Deriving the legacy key keeps it (handle_shake_response).               *)
LEMMA LegacyResponseInv ==
  ASSUME IInv, NEW m \in Messages, HandlerIdle, HandleShakeResponse(m)
  PROVE  IInv'
<1> USE DEF HandleShakeResponse, configVars, noiseVars, envVars, Succeed, Fail, IInv
<1>1. TypeOK'
  <2>1. crypto_key' \in 0..MaxSessions
    BY DEF TypeOK
  <2>2. state' \in States /\ reply' \in Replies /\ err' \in BOOLEAN
    BY DEF TypeOK, States, Replies
  <2> QED
    BY <2>1, <2>2 DEF TypeOK
<1>2. Poisoned' /\ NoiseSent' /\ NoNoiseYet'
  BY DEF Poisoned, NoiseSent, NoNoiseYet
<1>3. Agreement' /\ LegacyByOptIn'
  BY DEF Agreement, LegacyByOptIn, NoNoiseYet
<1>4. PinInForce' /\ PartnersPinned'
  BY DEF PinInForce, PartnersPinned
<1> QED
  BY <1>1, <1>2, <1>3, <1>4

(* Refusing a message 2 keeps it (handle_noise_shake_response, read_e).    *)
LEMMA RefuseInv ==
  ASSUME IInv, NEW m \in Messages, HandlerIdle, RefuseMessage2(m)
  PROVE  IInv'
<1> USE DEF RefuseMessage2, Tries, configVars, noiseVars, envVars, Fail, IInv
<1>1. /\ h' \in Transcripts /\ h'.dirty = TRUE
      /\ h'.e = h.e /\ h'.pattern = h.pattern /\ h'.s = h.s /\ h'.psk = h.psk
  BY DEF AfterRefusal, TypeOK, Transcripts
<1>2. PICK m1 \in [pattern : Patterns, e : 0..MaxSessions] :
        m.noise.t = HubTranscript(m1)
  BY MessageTypes
<1>3. rs' \in Keys \cup {NoKey} /\ (h.pattern = "KKpsk0" => rs' = rs)
  BY <1>2, HubTranscriptType DEF StaticOpens, TypeOK
<1>4. TypeOK'
  BY <1>1, <1>3 DEF TypeOK, Replies
<1>5. Poisoned' /\ NoNoiseYet' /\ Agreement' /\ LegacyByOptIn'
  BY <1>1 DEF Poisoned, NoNoiseYet, Agreement, LegacyByOptIn
<1>6. NoiseSent'
  BY <1>1, <1>3 DEF NoiseSent
<1>7. PinInForce' /\ PartnersPinned'
  BY DEF PinInForce, PartnersPinned
<1> QED
  BY <1>4, <1>5, <1>6, <1>7

(* Accepting a message 2 keeps it: it is authentic, and from the pinned    *)
(* hub.                                                                    *)
LEMMA CompleteInv ==
  ASSUME IInv, NEW m \in Messages, HandlerIdle, CompleteNoise(m)
  PROVE  IInv'
<1> DEFINE XX      == h.pattern = "XXpsk2"
           learned == IF XX THEN m.noise.t.s ELSE rs
           Waits   == UNCHANGED <<state, pending_bin, partners>>
                      /\ use_noise' \in BOOLEAN /\ Fail
           Ready   == /\ state' = "READY" /\ use_noise' = TRUE /\ pending_bin' = TRUE
                      /\ partners' = partners \cup {learned} /\ finished' = TRUE
                      /\ server_static_key' = learned
                      /\ Succeed(IF XX THEN "msg3" ELSE "none")
<1> USE DEF configVars, envVars, IInv
<1>0. /\ Tries(m) /\ Authentic(m.noise) /\ h' = Completed(m.noise) /\ rs' = learned
      /\ UNCHANGED <<v3_enabled, legacy_hub, server_hello_canon, crypto_key,
                    server_noise_key, hub, msg1s, session, failed>>
  BY DEF CompleteNoise
<1>1. PICK m1 \in [pattern : Patterns, e : 0..MaxSessions] :
        /\ h' = HubTranscript(m1) /\ m1.e = session /\ m1.pattern = h.pattern
        /\ hub.psk = "ours" /\ ~h.dirty /\ learned = hub.key
  BY <1>0, AuthenticAgrees
<1>2. /\ h' \in Transcripts /\ h'.e = session /\ h'.pattern = h.pattern
      /\ h'.s = hub.key /\ h'.psk = "ours" /\ h'.dirty = FALSE
      /\ h' = HubTranscript([pattern |-> h'.pattern, e |-> session])
      /\ hub.key \in Keys /\ hub.key # NoKey
  BY <1>1, HubTranscriptType, ConstantsAssumption
<1>3. rs' = hub.key
  BY <1>0, <1>1
<1>4. /\ state = "NOISE_HANDSHAKE_SENT" /\ v3_enabled /\ ~failed
      /\ server_noise_key # NoKey => server_static_key = server_noise_key
  BY <1>0, <1>1 DEF Tries, Poisoned, NoiseSent, PinInForce
<1>5. \/ server_static_key' = server_static_key
      \/ server_static_key \in {NoKey, hub.key} /\ server_static_key' = hub.key
  BY <1>1 DEF CompleteNoise, PinAccepts
<1>6. Waits \/ Ready
  <2>1. CASE use_noise' = use_noise
    BY <2>1, Zenon DEF CompleteNoise, TypeOK
  <2>2. CASE use_noise' # use_noise
    BY <2>2, Zenon DEF CompleteNoise
  <2> QED
    BY <2>1, <2>2
<1>7. PinInForce'
  BY <1>0, <1>4, <1>5 DEF PinInForce
<1>8. msg_index' \in 0..3
  <2>1. msg_index' \in {2, 3}
    BY DEF CompleteNoise, LastIndex
  <2> QED
    BY <2>1
<1>9. finished' \in BOOLEAN
  BY Zenon DEF CompleteNoise
<1>10. server_static_key' \in Keys \cup {NoKey}
  BY <1>2, <1>5 DEF TypeOK
<1>11. CASE Waits
  <2>1. TypeOK'
    <3>1. reply' \in Replies /\ err' \in BOOLEAN /\ use_noise' \in BOOLEAN
      BY <1>11 DEF Replies, Fail
    <3> QED
      BY <1>0, <1>2, <1>3, <1>8, <1>9, <1>10, <1>11, <3>1 DEF TypeOK
  <2>2. Poisoned' /\ LegacyByOptIn' /\ NoNoiseYet' /\ Agreement'
    BY <1>0, <1>4, <1>11 DEF Poisoned, LegacyByOptIn, NoNoiseYet, Agreement
  <2>3. NoiseSent'
    BY <1>0, <1>2, <1>3, <1>4, <1>11 DEF NoiseSent
  <2>4. PartnersPinned'
    BY <1>0, <1>4, <1>11 DEF PartnersPinned
  <2> QED
    BY <1>7, <2>1, <2>2, <2>3, <2>4
<1>12. CASE Ready
  <2>1. TypeOK'
    <3>1. /\ reply' \in Replies /\ err' \in BOOLEAN /\ state' \in States
          /\ use_noise' \in BOOLEAN /\ pending_bin' \in BOOLEAN
      BY <1>12 DEF Replies, Succeed, States
    <3>2. partners' \subseteq Keys
      BY <1>1, <1>2, <1>12 DEF TypeOK
    <3> QED
      BY <1>0, <1>2, <1>3, <1>8, <1>9, <1>10, <3>1, <3>2 DEF TypeOK
  <2>2. Poisoned' /\ LegacyByOptIn' /\ NoNoiseYet' /\ NoiseSent'
    BY <1>0, <1>4, <1>12 DEF Poisoned, LegacyByOptIn, NoNoiseYet, NoiseSent
  <2>3. Agreement'
    BY <1>0, <1>1, <1>2, <1>3, <1>12 DEF Agreement, HubTranscript
  <2>4. PartnersPinned'
    <3>1. pending_bin'
      BY <1>12
    <3>2. ASSUME NEW k \in partners'
          PROVE  \/ k = server_noise_key
                 \/ server_noise_key = NoKey /\ k = hub.key
      BY <1>1, <1>4, <1>5, <1>12, <3>2, <1>2, ConstantsAssumption
         DEF PartnersPinned, TypeOK
    <3> QED
      BY <1>0, <1>1, <1>12, <3>1, <3>2 DEF PartnersPinned, HandlerIdle
  <2> QED
    BY <1>7, <2>1, <2>2, <2>3, <2>4
<1> QED
  BY <1>6, <1>11, <1>12

(* A message the state does not expect keeps it.                           *)
LEMMA RejectInv ==
  ASSUME IInv, NEW m \in Messages, HandlerIdle, Reject(m)
  PROVE  IInv'
<1> USE DEF Reject, configVars, noiseVars, envVars, Fail, IInv
<1>1. TypeOK'
  BY DEF TypeOK, Replies
<1>2. Poisoned' /\ LegacyByOptIn' /\ NoiseSent' /\ NoNoiseYet'
  BY DEF Poisoned, LegacyByOptIn, NoiseSent, NoNoiseYet
<1>3. Agreement'
  BY DEF Agreement, HubTranscript
<1>4. PinInForce' /\ PartnersPinned'
  BY DEF PinInForce, PartnersPinned, HandlerIdle
<1> QED
  BY <1>1, <1>2, <1>3, <1>4

(* The rest of the event, reply, HELLO and pin, keeps it.                  *)
LEMMA FinishInv == IInv /\ FinishEvent => IInv'
<1> SUFFICES ASSUME IInv, FinishEvent PROVE IInv'
  OBVIOUS
<1> USE DEF FinishEvent, configVars, noiseVars, IInv
<1>1. TypeOK'
  <2>1. msg1s' \subseteq [pattern : Patterns, e : 0..MaxSessions]
    <3>1. [pattern |-> h.pattern, e |-> h.e] \in [pattern : Patterns, e : 0..MaxSessions]
      BY DEF TypeOK, Transcripts
    <3> QED
      BY <3>1 DEF TypeOK
  <2>2. server_noise_key' \in Keys \cup {NoKey} /\ reply' \in Replies
        /\ pending_bin' \in BOOLEAN
    BY DEF TypeOK, Replies
  <2> QED
    BY <2>1, <2>2 DEF TypeOK
<1>2. Poisoned' /\ LegacyByOptIn' /\ NoiseSent' /\ NoNoiseYet'
  BY DEF Poisoned, LegacyByOptIn, NoiseSent, NoNoiseYet
<1>3. Agreement'
  BY DEF Agreement, HubTranscript
<1>4. PinInForce' /\ PartnersPinned'
  BY ConstantsAssumption DEF TypeOK, PinInForce, PartnersPinned
<1> QED
  BY <1>1, <1>2, <1>3, <1>4

(* A new session keeps it; only the pin is carried over.                   *)
LEMMA ConnectInv ==
  ASSUME IInv, NEW newHub \in Hubs, Connect(newHub)
  PROVE  IInv'
<1> USE DEF Connect, configVars, IInv
<1>1. BlankTranscript \in Transcripts
  BY NoOfferType, ConstantsAssumption DEF BlankTranscript, Transcripts, Patterns
<1>2. TypeOK'
  <2>1. /\ session' \in 0..MaxSessions /\ crypto_key' \in 0..MaxSessions
        /\ msg_index' \in 0..3
    BY ConstantsAssumption DEF TypeOK
  <2>2. /\ state' \in States /\ h' \in Transcripts /\ hub' \in Hubs
        /\ server_static_key' \in Keys \cup {NoKey}
    BY <1>1 DEF TypeOK, States, PinForSession
  <2> QED
    BY <2>1, <2>2 DEF TypeOK
<1>3. Poisoned' /\ LegacyByOptIn' /\ NoiseSent' /\ NoNoiseYet' /\ Agreement'
  BY DEF Poisoned, LegacyByOptIn, NoiseSent, NoNoiseYet, Agreement
<1>4. PinInForce' /\ PartnersPinned'
  BY DEF PinInForce, PartnersPinned, PinForSession
<1> QED
  BY <1>2, <1>3, <1>4

(* The loss of the connection keeps it.                                    *)
LEMMA DropInv == IInv /\ Drop => IInv'
<1> SUFFICES ASSUME IInv, Drop PROVE IInv'
  OBVIOUS
<1> USE DEF Drop, configVars, noiseVars, envVars, IInv
<1>1. TypeOK'
  BY DEF TypeOK, States
<1>2. Poisoned' /\ LegacyByOptIn' /\ NoiseSent' /\ NoNoiseYet' /\ Agreement'
  BY DEF Poisoned, LegacyByOptIn, NoiseSent, NoNoiseYet, Agreement
<1>3. PinInForce' /\ PartnersPinned'
  BY DEF PinInForce, PartnersPinned
<1> QED
  BY <1>1, <1>2, <1>3

-----------------------------------------------------------------------------
(* IInv is inductive: every step of the client, the hub and the link keeps *)
(* it.                                                                     *)
THEOREM Invariance == Spec => []IInv
<1>1. IInv /\ [Next]_vars => IInv'
  <2> SUFFICES ASSUME IInv, [Next]_vars PROVE IInv'
    OBVIOUS
  <2>1. ASSUME NEW m \in Messages, Deliver(m) PROVE IInv'
    BY <2>1, HelloInv, StartInv, LegacyRequestInv, LegacyResponseInv, RefuseInv,
       CompleteInv, RejectInv DEF Deliver, HandleMessage
  <2>2. CASE FinishEvent
    BY <2>2, FinishInv
  <2>3. ASSUME NEW newHub \in Hubs, Connect(newHub) PROVE IInv'
    BY <2>3, ConnectInv
  <2>4. CASE Drop
    BY <2>4, DropInv
  <2>5. CASE UNCHANGED vars
    BY <2>5, StutterInv
  <2> QED
    BY <2>1, <2>2, <2>3, <2>4, <2>5 DEF Next
<1> QED
  BY InitInv, <1>1, PTL DEF Spec

(* The handshake state always has its type.                                *)
THEOREM TypeCorrectness == Spec => []TypeOK
<1>1. IInv => TypeOK
  BY DEF IInv
<1> QED
  BY Invariance, <1>1, PTL

(* A READY Noise session and its hub agree on the whole negotiation.       *)
THEOREM ReadyAgreement == Spec => []Agreement
<1>1. IInv => Agreement
  BY DEF IInv
<1> QED
  BY Invariance, <1>1, PTL

(* A session that refused a Noise message 2 never becomes READY.           *)
THEOREM RefusedNeverReady == Spec => []RefusalIsFatal
<1>1. IInv => RefusalIsFatal
  BY DEF IInv, Poisoned, RefusalIsFatal
<1> QED
  BY Invariance, <1>1, PTL

(* Without the operator's opt-in no step of the legacy handshake is taken. *)
THEOREM NoUnaskedLegacy == Spec => []LegacyByOptIn
<1>1. IInv => LegacyByOptIn
  BY DEF IInv
<1> QED
  BY Invariance, <1>1, PTL

(* All Noise sessions a client ever completes are with the same hub key.   *)
THEOREM PinnedForGood == Spec => []OnePartner
<1>1. IInv => OnePartner
  BY ConstantsAssumption DEF IInv, TypeOK, PartnersPinned, OnePartner
<1> QED
  BY Invariance, <1>1, PTL

-----------------------------------------------------------------------------
(* The events of the websocket, taken apart.                               *)

(* An event is in hand until its frames are written.                       *)
Busy == {"notify", "reply", "hello", "finish"}

(* Between events nothing is queued; a handler ran, in a session, from a   *)
(* state other than READY.                                                 *)
EventInHand ==
  /\ ev \notin Busy => HandlerIdle
  /\ ev = "ready" => state = "READY"
  /\ old_state # "READY"
  /\ session = 0 => state = "CONNECTING" /\ ev = "idle"

(* What the application believes: it hears of READY at the first callback  *)
(* and not before.                                                         *)
Belief ==
  /\ ev = "notify" => told # "READY"
  /\ ev # "notify" => (told = "READY" <=> state = "READY")

NoAppFrame == \A i \in DOMAIN written : written[i] # "app"

(* Nothing of the application is written before the handshake is over.     *)
AppAfterwards ==
  ev \in Busy \/ state \notin {"READY", "DISCONNECTED"} => NoAppFrame

(* An application that waits for the second callback of READY, the one     *)
(* after the handshake's last frame.                                       *)
Patient == AppSendsAt \subseteq {"ready"}

OrderInv == Patient => AppAfterwards /\ HandshakeFirst

EInv == EventTypeOK /\ EventInHand /\ Belief /\ OrderInv

-----------------------------------------------------------------------------
(* Every step of the event is a step of HmProtocol or none of its concern. *)
LEMMA StepIsProtocolStep == EventNext => [Next]_vars
<1> SUFFICES ASSUME EventNext PROVE [Next]_vars
  OBVIOUS
<1>1. ASSUME NEW m \in Messages, Handle(m) PROVE Next
  BY <1>1 DEF Handle, Next
<1>2. CASE FinishHandle
  BY <1>2 DEF FinishHandle, Next
<1>3. CASE Disconnect
  BY <1>3 DEF Disconnect, Next
<1>4. ASSUME NEW newHub \in Hubs, Reconnect(newHub) PROVE Next
  BY <1>4 DEF Reconnect, Next
<1>5. CASE Notify \/ Reply \/ SendPending \/ NotifyReady \/ SocketConnected \/ AppSend
  BY <1>5 DEF Notify, Reply, SendPending, NotifyReady, SocketConnected, AppSend
<1> QED
  BY <1>1, <1>2, <1>3, <1>4, <1>5 DEF EventNext

(* The handler, taken apart, implements the handler of HmProtocol: what    *)
(* holds of every session there holds of every session here.               *)
THEOREM EventsImplementProtocol == EventSpec => Spec
<1>1. EventInit => Init
  BY DEF EventInit
<1>2. [EventNext]_allVars => [Next]_vars
  BY StepIsProtocolStep DEF allVars
<1> QED
  BY <1>1, <1>2, PTL DEF EventSpec, Spec

(* The types of the protocol's variables, for the lemmas below.            *)
LEMMA ProtocolTypes == EventSpec => []TypeOK
BY EventsImplementProtocol, TypeCorrectness, PTL

-----------------------------------------------------------------------------
(* What a handler leaves: an error leaves nothing queued and no READY, and *)
(* only a session that is not closed gets further.                         *)
LEMMA HandleEffect ==
  ASSUME TypeOK, HandlerIdle, state # "READY", NEW m \in Messages, HandleMessage(m)
  PROVE  /\ session' = session
         /\ err' => reply' = "none" /\ ~pending_bin' /\ state' # "READY"
         /\ ~err' => state # "DISCONNECTED"
         /\ state = "DISCONNECTED" => state' = state
         /\ state' # "DISCONNECTED" \/ state = "DISCONNECTED"
<1> USE DEF HandlerIdle, Fail, Succeed, envVars
<1>1. CASE HandleHello(m)
  BY <1>1 DEF HandleHello
<1>2. CASE StartNoiseHandshake(m) \/ HandleShakeRequest(m)
  BY <1>2 DEF StartNoiseHandshake, HandleShakeRequest
<1>3. CASE HandleShakeResponse(m)
  BY <1>3 DEF HandleShakeResponse
<1>4. CASE RefuseMessage2(m)
  BY <1>4 DEF RefuseMessage2, Tries
<1>5. CASE CompleteNoise(m)
  BY <1>5 DEF CompleteNoise, Tries
<1>6. CASE Reject(m)
  BY <1>6 DEF Reject
<1> QED
  BY <1>1, <1>2, <1>3, <1>4, <1>5, <1>6 DEF HandleMessage

(* A frame is added to the end, or none is.                                *)
LEMMA WrittenFrames ==
  ASSUME NEW f, NEW S, written \in Seq(S), f \in S, WriteFrame(f)
  PROVE  /\ written' \in Seq(S)
         /\ NoAppFrame /\ f # "app" => NoAppFrame'
         /\ HandshakeFirst /\ NoAppFrame /\ f # "app" => HandshakeFirst'
         /\ HandshakeFirst /\ f = "app" => HandshakeFirst'
<1>1. CASE written' = written
  BY <1>1 DEF NoAppFrame, HandshakeFirst
<1>2. CASE written' = Append(written, f)
  <2>1. /\ written' \in Seq(S) /\ Len(written) \in Nat
        /\ DOMAIN written = 1..Len(written) /\ DOMAIN written' = 1..(Len(written) + 1)
        /\ \A i \in DOMAIN written : written'[i] = written[i]
        /\ written'[Len(written) + 1] = f
    BY <1>2
  <2> QED
    BY <2>1 DEF NoAppFrame, HandshakeFirst
<1> QED
  BY <1>1, <1>2 DEF WriteFrame

(* What a callback may do to the link.                                     *)
LEMMA CallbackFrames ==
  ASSUME NEW s, NEW point, StateCb(s, point)
  PROVE  /\ told' = s /\ WriteFrame("app")
         /\ point \notin AppSendsAt => written' = written
BY DEF StateCb, WriteFrame

-----------------------------------------------------------------------------
(* The invariant holds at first.                                           *)
LEMMA InitEInv == EventInit => EInv
<1> SUFFICES ASSUME EventInit PROVE EInv
  OBVIOUS
<1>1. TypeOK
  BY InitInv DEF EventInit, IInv
<1>2. written = <<>> /\ DOMAIN written = {}
  BY DEF EventInit
<1>3. EventTypeOK
  BY <1>1, <1>2 DEF EventInit, EventTypeOK, EventSteps, Init, States
<1> QED
  BY <1>2, <1>3 DEF EventInit, Init, EInv, EventInHand, Belief, OrderInv, AppAfterwards,
     HandshakeFirst, NoAppFrame, HandlerIdle, Busy

(* A handler runs.                                                         *)
LEMMA HandleEInv ==
  ASSUME EInv, TypeOK', NEW m \in Messages, Handle(m)
  PROVE  EInv'
<1>1. /\ TypeOK /\ HandlerIdle /\ state # "READY" /\ HandleMessage(m) /\ session > 0
      /\ session' = session /\ ev = "idle" /\ old_state' = state
      /\ told' = told /\ written' = written /\ ev' = IF err' THEN "idle" ELSE "notify"
  BY HandleEffect DEF EInv, EventTypeOK, Handle, Deliver
<1>2. EventTypeOK'
  BY <1>1 DEF EInv, EventTypeOK, EventSteps, TypeOK
<1>3. EventInHand'
  BY <1>1, HandleEffect DEF EInv, EventInHand, HandlerIdle, Busy
<1>4. Belief'
  BY <1>1, HandleEffect DEF EInv, Belief
<1>5. OrderInv'
  <2> SUFFICES ASSUME Patient, ev' \in Busy \/ state' \notin {"READY", "DISCONNECTED"}
               PROVE  NoAppFrame' /\ HandshakeFirst'
    BY <1>1 DEF EInv, OrderInv, AppAfterwards, HandshakeFirst, Patient
  <2>1. state # "DISCONNECTED"
    BY <1>1, HandleEffect DEF Busy
  <2> QED
    BY <1>1, <2>1 DEF EInv, OrderInv, AppAfterwards, HandshakeFirst, NoAppFrame
<1> QED
  BY <1>2, <1>3, <1>4, <1>5 DEF EInv

(* A frame of the handshake is written, or none, in the midst of an event. *)
LEMMA BusyWriteEInv ==
  ASSUME EInv, ev \in Busy \ {"notify"}, ev' \in Busy \ {"notify"},
         UNCHANGED <<vars, old_state, told>>,
         NEW f \in {"msg1", "msg3", "hsub", "hello", "HELLO"},
         written' = written \/ WriteFrame(f)
  PROVE  EInv'
<1>1. UNCHANGED <<TypeOK, HandlerIdle, state, session>>
  BY DEF vars, TypeOK, HandlerIdle, configVars, noiseVars, envVars
<1>2. EventTypeOK'
  BY <1>1, WrittenFrames DEF EInv, EventTypeOK, EventSteps, Busy
<1>3. EventInHand' /\ Belief'
  BY <1>1 DEF EInv, EventInHand, Belief, Busy
<1>4. OrderInv'
  <2> SUFFICES ASSUME Patient PROVE NoAppFrame' /\ HandshakeFirst'
    BY DEF OrderInv, AppAfterwards, Patient
  <2>1. NoAppFrame /\ HandshakeFirst
    BY DEF EInv, OrderInv, AppAfterwards
  <2> QED
    BY <2>1, WrittenFrames DEF EInv, EventTypeOK, NoAppFrame, HandshakeFirst
<1> QED
  BY <1>2, <1>3, <1>4 DEF EInv

(* The application is told, and may send.                                  *)
LEMMA CallbackEInv ==
  ASSUME EInv, NEW point \in SendPoints, StateCb(state, point),
         \/ ev = "notify" /\ ev' = "reply" /\ point = "notify"
         \/ ev = "idle" /\ ev' = "idle" /\ point = "notify"
         \/ ev = "ready" /\ ev' = "idle" /\ point = "ready",
         UNCHANGED <<vars, old_state>>
  PROVE  EInv'
<1>1. UNCHANGED <<TypeOK, HandlerIdle, state, session>>
  BY DEF vars, TypeOK, HandlerIdle, configVars, noiseVars, envVars
<1>2. told' = state /\ WriteFrame("app") /\ (point \notin AppSendsAt => written' = written)
  BY CallbackFrames
<1>3. EventTypeOK'
  BY <1>1, <1>2, WrittenFrames DEF EInv, EventTypeOK, EventSteps, TypeOK
<1>4. EventInHand' /\ Belief'
  BY <1>1, <1>2 DEF EInv, EventInHand, Belief, Busy
<1>5. OrderInv'
  <2> SUFFICES ASSUME Patient PROVE AppAfterwards' /\ HandshakeFirst'
    BY DEF OrderInv, Patient
  <2>1. AppAfterwards /\ HandshakeFirst
    BY DEF EInv, OrderInv
  <2>2. HandshakeFirst'
    BY <1>2, <2>1, WrittenFrames DEF EInv, EventTypeOK
  <2>3. CASE point = "notify"
    <3>1. written' = written
      BY <1>2, <2>3 DEF Patient
    <3> QED
      BY <1>1, <2>1, <2>2, <2>3, <3>1 DEF AppAfterwards, NoAppFrame, Busy
  <2>4. CASE point = "ready"
    BY <1>1, <2>2, <2>4 DEF EInv, EventInHand, AppAfterwards, Busy
  <2> QED
    BY <2>3, <2>4
<1> QED
  BY <1>3, <1>4, <1>5 DEF EInv

(* The first callback of an event, or none.                                *)
LEMMA NotifyEInv == EInv /\ Notify => EInv'
<1> SUFFICES ASSUME EInv, Notify PROVE EInv'
  OBVIOUS
<1>1. CASE state # old_state
  BY <1>1, CallbackEInv DEF Notify, SendPoints
<1>2. CASE state = old_state
  <2>1. UNCHANGED <<TypeOK, HandlerIdle, state, session, old_state, told, written>>
        /\ ev = "notify" /\ ev' = "reply" /\ state # "READY"
    BY <1>2 DEF Notify, vars, TypeOK, HandlerIdle, configVars, noiseVars, envVars, EInv,
       EventInHand
  <2> QED
    BY <2>1 DEF EInv, EventTypeOK, EventSteps, EventInHand, Belief, OrderInv, Busy,
       AppAfterwards, NoAppFrame, HandshakeFirst, Patient
<1> QED
  BY <1>1, <1>2

(* The reply and the queued HELLO are written.                             *)
LEMMA WritesEInv == EInv /\ (Reply \/ SendPending) => EInv'
<1>1. ASSUME EInv, Reply PROVE EInv'
  <2>1. reply = "none" \/ reply \in {"msg1", "msg3", "hsub", "hello"}
    BY <1>1 DEF EInv, EventTypeOK, TypeOK, Replies
  <2>2. ev \in Busy \ {"notify"} /\ ev' \in Busy \ {"notify"}
        /\ UNCHANGED <<vars, old_state, told>>
    BY <1>1 DEF Reply, Busy
  <2>3. CASE reply = "none"
    BY <1>1, <2>2, <2>3, BusyWriteEInv DEF Reply
  <2>4. CASE reply \in {"msg1", "msg3", "hsub", "hello"} /\ reply # "none"
    BY <1>1, <2>2, <2>4, BusyWriteEInv DEF Reply
  <2> QED
    BY <2>1, <2>3, <2>4
<1>2. ASSUME EInv, SendPending PROVE EInv'
  <2>1. ev \in Busy \ {"notify"} /\ ev' \in Busy \ {"notify"}
        /\ UNCHANGED <<vars, old_state, told>>
    BY <1>2 DEF SendPending, Busy
  <2> QED
    BY <1>2, <2>1, BusyWriteEInv DEF SendPending
<1> QED
  BY <1>1, <1>2

(* The queue is freed.                                                     *)
LEMMA FinishEInv ==
  ASSUME EInv, TypeOK', FinishHandle
  PROVE  EInv'
<1>1. /\ ev = "finish" /\ state' = state /\ session' = session /\ HandlerIdle'
      /\ old_state' = old_state /\ told' = told /\ written' = written
      /\ ev' = IF state = "READY" /\ old_state # "READY" THEN "ready" ELSE "idle"
  BY DEF FinishHandle, FinishEvent, HandlerIdle, vars, envVars
<1>2. EventTypeOK' /\ Belief'
  BY <1>1 DEF EInv, EventTypeOK, EventSteps, Belief
<1>3. EventInHand'
  BY <1>1 DEF EInv, EventInHand, Busy
<1>4. OrderInv'
  BY <1>1 DEF EInv, OrderInv, AppAfterwards, NoAppFrame, HandshakeFirst, Busy, Patient
<1> QED
  BY <1>2, <1>3, <1>4 DEF EInv

(* The second callback of READY, and the callback of a socket that opened. *)
LEMMA AnnounceEInv == EInv /\ (NotifyReady \/ SocketConnected) => EInv'
<1>1. ASSUME EInv, NotifyReady PROVE EInv'
  <2>1. state = "READY"
    BY <1>1 DEF NotifyReady, EInv, EventInHand
  <2> QED
    BY <1>1, <2>1, CallbackEInv DEF NotifyReady, SendPoints
<1>2. ASSUME EInv, SocketConnected PROVE EInv'
  BY <1>2, CallbackEInv DEF SocketConnected, SendPoints
<1> QED
  BY <1>1, <1>2

(* The connection is closed.                                               *)
LEMMA DisconnectEInv ==
  ASSUME EInv, TypeOK', Disconnect
  PROVE  EInv'
<1>1. /\ ev = "idle" /\ ev' = "idle" /\ session > 0 /\ session' = session
      /\ state # "DISCONNECTED" /\ state' = "DISCONNECTED" /\ HandlerIdle'
      /\ old_state' = old_state /\ told' = "DISCONNECTED" /\ written' = written
  BY DEF Disconnect, Drop, NotifyState, HandlerIdle, envVars
<1>2. EventTypeOK' /\ Belief'
  BY <1>1 DEF EInv, EventTypeOK, EventSteps, Belief, States
<1>3. EventInHand'
  BY <1>1 DEF EInv, EventInHand, EventTypeOK, TypeOK, Busy
<1>4. OrderInv'
  BY <1>1 DEF EInv, OrderInv, AppAfterwards, HandshakeFirst, Busy, Patient
<1> QED
  BY <1>2, <1>3, <1>4 DEF EInv

(* A new connection is asked for.                                          *)
LEMMA ReconnectEInv ==
  ASSUME EInv, TypeOK', NEW newHub \in Hubs, Reconnect(newHub)
  PROVE  EInv'
<1>1. /\ ev = "idle" /\ ev' = "idle" /\ session' = session + 1 /\ session \in Nat
      /\ state' = "CONNECTING" /\ HandlerIdle' /\ old_state' = old_state
      /\ written' = <<>> /\ DOMAIN written' = {}
  BY DEF Reconnect, Connect, HandlerIdle, EInv, EventTypeOK, TypeOK, ConstantsAssumption
<1>2. /\ told' \in States \/ told' = told
      /\ told' # "READY"
  <2>1. session = 0 => state # "READY"
    BY DEF EInv, EventInHand
  <2> QED
    BY <1>1, <2>1 DEF Reconnect, NotifyState, EInv, Belief, States
<1>3. EventTypeOK' /\ Belief'
  BY <1>1, <1>2 DEF EInv, EventTypeOK, EventSteps, Belief
<1>4. EventInHand'
  BY <1>1 DEF EInv, EventInHand, Busy
<1>5. OrderInv'
  BY <1>1 DEF OrderInv, AppAfterwards, NoAppFrame, HandshakeFirst
<1> QED
  BY <1>3, <1>4, <1>5 DEF EInv

(* The application sends.                                                  *)
LEMMA AppSendEInv == EInv /\ AppSend => EInv'
<1> SUFFICES ASSUME EInv, AppSend PROVE EInv'
  OBVIOUS
<1>1. UNCHANGED <<TypeOK, HandlerIdle, state, session, ev, old_state, told>>
      /\ state = "READY" /\ WriteFrame("app") /\ (Patient => ev = "idle")
  BY DEF AppSend, MaySend, WriteFrame, Patient, vars, TypeOK, HandlerIdle, configVars,
     noiseVars, envVars
<1>2. EventTypeOK'
  BY <1>1, WrittenFrames DEF EInv, EventTypeOK
<1>3. EventInHand' /\ Belief'
  BY <1>1 DEF EInv, EventInHand, Belief
<1>4. OrderInv'
  BY <1>1, WrittenFrames DEF EInv, OrderInv, EventTypeOK, AppAfterwards, Patient, Busy
<1> QED
  BY <1>2, <1>3, <1>4 DEF EInv

-----------------------------------------------------------------------------
(* EInv is inductive over what is proved of HmProtocol.                    *)
THEOREM EventInvariance == EventSpec => []EInv
<1>1. EInv /\ TypeOK' /\ [EventNext]_allVars => EInv'
  <2>1. EInv /\ UNCHANGED allVars => EInv'
    BY DEF allVars, eventVars, vars, configVars, noiseVars, envVars, EInv, EventTypeOK,
       TypeOK, EventInHand, Belief, OrderInv, AppAfterwards, NoAppFrame, HandshakeFirst,
       HandlerIdle, Patient
  <2> QED
    BY <2>1, HandleEInv, NotifyEInv, WritesEInv, FinishEInv, AnnounceEInv,
       DisconnectEInv, ReconnectEInv, AppSendEInv DEF EventNext
<1> QED
  BY InitEInv, ProtocolTypes, <1>1, PTL DEF EventSpec

(* Every reachable state of the handler is of the stated shape.            *)
THEOREM EventTypeCorrect == EventSpec => []EventTypeOK
<1>1. EInv => EventTypeOK
  BY DEF EInv
<1> QED
  BY EventInvariance, <1>1, PTL

(* At rest the application believes the client READY exactly when it is,   *)
(* wherever it sends from and however sessions end.                        *)
THEOREM BeliefIsRight == EventSpec => []ReadyBelief
<1>1. EInv => ReadyBelief
  BY DEF EInv, Belief, ReadyBelief
<1> QED
  BY EventInvariance, <1>1, PTL

(* An application that waits for the second READY callback never gets a    *)
(* frame between those of a handshake.                                     *)
THEOREM PatientIsOrdered == Patient => (EventSpec => []HandshakeFirst)
<1> SUFFICES ASSUME Patient PROVE EventSpec => []HandshakeFirst
  OBVIOUS
<1>1. EInv => HandshakeFirst
  BY DEF EInv, OrderInv
<1> QED
  BY EventInvariance, <1>1, PTL
===============================================================================
