---------------------------- MODULE NoiseSendProofs ----------------------------
(***************************************************************************)
(* Proofs about NoiseSend, for any number of sessions, sends and nonces.   *)
(*                                                                         *)
(* First what holds of every application, however many tasks send and      *)
(* whenever hm_client_connect clears the context: types, and under which   *)
(* key a frame is sealed (KInv).  Then what holds if one task sends, of the *)
(* sessions in whose beginning no send was under way (SInv).               *)
(***************************************************************************)
EXTENDS NoiseSend, SequenceTheorems, TLAPS

-----------------------------------------------------------------------------
(* Any application.                                                        *)

Composed(s) == pc[s] \in {"sealed", "loaded", "write"}

(* A key is the session's or none, and READY means that there is one.      *)
KeysOfSession ==
  /\ send.key \in {ZeroKey, session} /\ crypto_key \in {ZeroKey, session}
  /\ use_noise => send.key = session /\ session # ZeroKey
  /\ state = "READY" =>
       session # ZeroKey /\ (~use_noise => crypto_key = session)

(* What a call in progress has: a number, a session it began in, and, while*)
(* that session lasts, a key for the transport it chose.                   *)
CallsOfSession ==
  \A s \in Senders : pc[s] # "idle" =>
    /\ sends[s] # 0 /\ begun[s] \in 1..session
    /\ begun[s] = session =>
         /\ state # "CONNECTING"
         /\ ~use_noise => crypto_key = session
         /\ pc[s] = "legacy" => crypto_key = session
         /\ pc[s] = "numbered" => use_noise
    /\ pc[s] = "numbered" => loaded[s] < MaxNonce
    /\ Composed(s) => frame[s] # NoFrame

(* A frame is of a session there was, and sealed under the key of the      *)
(* session its call began in unless a reconnect overtook the call.         *)
Keyed(f) ==
  /\ f.key <= session /\ f.body.at <= session
  /\ f.body.begun = f.body.at => f.key = f.body.at /\ f.key # ZeroKey

FramesKeyed ==
  /\ \A f \in wire : Keyed(f)
  /\ \A s \in Senders : Composed(s) => Keyed(frame[s])

KInv == TypeOK /\ KeysOfSession /\ CallsOfSession /\ FramesKeyed

(* It holds at first.                                                      *)
LEMMA InitKInv == Init => KInv
<1> SUFFICES ASSUME Init PROVE KInv
  OBVIOUS
<1> USE DEF Init, ZeroKey
<1>1. TypeOK
  <2>1. /\ crypto_key \in 0..MaxSessions /\ session \in 0..MaxSessions
        /\ send \in [key : 0..MaxSessions, nonce : 0..MaxNonce]
        /\ loaded \in [Senders -> 0..MaxNonce] /\ sends \in [Senders -> 0..MaxSends]
        /\ begun \in [Senders -> 0..MaxSessions]
    BY SendAssumption
  <2>2. /\ pc \in [Senders -> PCs] /\ kind \in [Senders -> {"bus", "binary"}]
        /\ frame \in [Senders -> NoiseFrames \cup LegacyFrames \cup {NoFrame}]
    BY DEF PCs
  <2>3. sealed \in Seq(NoiseFrames) /\ got \in Seq(NoiseFrames)
    OBVIOUS
  <2> QED
    BY <2>1, <2>2, <2>3 DEF TypeOK
<1> QED
  BY <1>1 DEF KInv, KeysOfSession, CallsOfSession, FramesKeyed, Composed

(* It is about the variables only.                                         *)
LEMMA StutterKInv == KInv /\ UNCHANGED vars => KInv'
BY DEF KInv, vars, clientVars, hubVars, taskVars, TypeOK, KeysOfSession, CallsOfSession,
       FramesKeyed, Keyed, Composed

(* What a task seals says who it is and in which sessions.                 *)
LEMMA PayloadType ==
  ASSUME KInv, NEW s \in Senders, pc[s] # "idle"
  PROVE  /\ Payload(s) \in Payloads
         /\ Payload(s).begun = begun[s] /\ Payload(s).at = session
<1>1. sends[s] \in 1..MaxSends
  <2>1. sends[s] \in 0..MaxSends /\ sends[s] # 0
    BY DEF KInv, TypeOK, CallsOfSession
  <2> QED
    BY <2>1, SendAssumption
<1>2. begun[s] \in 0..MaxSessions /\ session \in 0..MaxSessions
  BY DEF KInv, TypeOK
<1> QED
  BY <1>1, <1>2 DEF Payload, Payloads

(* A step of a call that only moves on, while it composes its frame.       *)
LEMMA GotoKInv ==
  ASSUME KInv, NEW s \in Senders, NEW l \in {"idle", "noise", "legacy"}, Goto(s, l),
         pc[s] \in {"checked", "noise", "legacy"}, l = "legacy" => ~use_noise
  PROVE  KInv'
<1> USE DEF KInv, Goto, clientVars, hubVars
<1>1. TypeOK'
  BY DEF TypeOK, PCs
<1>2. /\ \A t \in Senders : t # s => pc'[t] = pc[t]
      /\ pc'[s] = l
  BY DEF TypeOK
<1>3. KeysOfSession'
  BY DEF KeysOfSession
<1>4. CallsOfSession'
  BY <1>2 DEF CallsOfSession, Composed
<1>5. FramesKeyed'
  BY <1>2 DEF FramesKeyed, Keyed, Composed
<1> QED
  BY <1>1, <1>3, <1>4, <1>5

(* A call begins in a session that is READY.                               *)
LEMMA CheckKInv ==
  ASSUME KInv, NEW s \in Senders, Check(s)
  PROVE  KInv'
<1> USE DEF KInv, Check, MaySend, clientVars, hubVars
<1>1. TypeOK'
  <2>1. sends'[s] \in 0..MaxSends
    BY SendAssumption DEF TypeOK
  <2>2. sends' \in [Senders -> 0..MaxSends] /\ begun' \in [Senders -> 0..MaxSessions]
    BY <2>1 DEF TypeOK
  <2>3. pc' \in [Senders -> PCs] /\ kind' \in [Senders -> {"bus", "binary"}]
    BY DEF TypeOK, PCs
  <2> QED
    BY <2>2, <2>3 DEF TypeOK
<1>2. /\ \A t \in Senders : t # s => /\ pc'[t] = pc[t] /\ sends'[t] = sends[t]
                                     /\ begun'[t] = begun[t]
      /\ pc'[s] = "checked" /\ sends'[s] # 0 /\ begun'[s] = session
  BY DEF TypeOK
<1>3. KeysOfSession'
  BY DEF KeysOfSession
<1>4. session \in 1..session
  BY DEF KeysOfSession, TypeOK, ZeroKey
<1>5. CallsOfSession'
  BY <1>2, <1>4 DEF CallsOfSession, KeysOfSession, Composed
<1>6. FramesKeyed'
  BY <1>2 DEF FramesKeyed, Keyed, Composed
<1> QED
  BY <1>1, <1>3, <1>5, <1>6

(* A nonce is read under the key of the session that is.                   *)
LEMMA ReadKInv ==
  ASSUME KInv, NEW s \in Senders, ReadNonce(s)
  PROVE  KInv'
<1> USE DEF KInv, ReadNonce, clientVars, hubVars
<1>1. use_noise /\ send.nonce < MaxNonce
  BY DEF NonceLeft
<1>2. /\ \A t \in Senders : t # s => pc'[t] = pc[t] /\ loaded'[t] = loaded[t]
      /\ pc'[s] = "numbered" /\ loaded'[s] = send.nonce
  BY DEF TypeOK
<1>3. TypeOK'
  <2>1. loaded' \in [Senders -> 0..MaxNonce]
    BY DEF TypeOK
  <2>2. pc' \in [Senders -> PCs]
    BY DEF TypeOK, PCs
  <2> QED
    BY <2>1, <2>2 DEF TypeOK
<1>4. KeysOfSession'
  BY DEF KeysOfSession
<1>5. CallsOfSession'
  BY <1>1, <1>2 DEF CallsOfSession, Composed
<1>6. FramesKeyed'
  BY <1>2 DEF FramesKeyed, Keyed, Composed
<1> QED
  BY <1>3, <1>4, <1>5, <1>6

(* Noise seals under the key of its session, or, overtaken, under the next *)
(* one's or none.                                                          *)
LEMMA SealKInv ==
  ASSUME KInv, NEW s \in Senders, Seal(s)
  PROVE  KInv'
<1> DEFINE f == [key |-> send.key, nonce |-> loaded[s], body |-> Payload(s)]
<1> USE DEF KInv
<1>1. /\ pc[s] = "numbered"
      /\ sealed' = (IF f.key = session THEN Append(sealed, f) ELSE sealed)
      /\ UNCHANGED <<state, use_noise, crypto_key, send, kind, loaded, sends, begun,
                    session, overtaken, wire, got, hubOpen>>
  BY DEF Seal, clientVars, hubVars
<1>2. f \in NoiseFrames /\ f # NoFrame /\ f.key = send.key
      /\ f.body.at = session /\ f.body.begun = begun[s]
  <2>1. loaded[s] \in 0..MaxNonce - 1
    <3>1. loaded[s] \in 0..MaxNonce /\ loaded[s] < MaxNonce
      BY <1>1 DEF TypeOK, CallsOfSession
    <3> QED
      BY <3>1, SendAssumption
  <2>2. send.key \in 0..MaxSessions
    BY DEF TypeOK
  <2> QED
    BY <1>1, <2>1, <2>2, PayloadType DEF NoiseFrames, NoFrame
<1>3. /\ \A t \in Senders : t # s => pc'[t] = pc[t] /\ frame'[t] = frame[t]
      /\ pc'[s] = "sealed" /\ frame'[s] = f
  BY DEF Seal, TypeOK
<1>4. TypeOK'
  <2>1. pc' \in [Senders -> PCs]
        /\ frame' \in [Senders -> NoiseFrames \cup LegacyFrames \cup {NoFrame}]
    BY <1>2 DEF Seal, TypeOK, PCs
  <2>2. sealed' \in Seq(NoiseFrames)
    BY <1>1, <1>2 DEF TypeOK
  <2> QED
    BY <1>1, <2>1, <2>2 DEF TypeOK
<1>5. KeysOfSession'
  BY <1>1 DEF KeysOfSession
<1>6. CallsOfSession'
  BY <1>1, <1>2, <1>3 DEF CallsOfSession, Composed
<1>7. Keyed(f)
  <2>1. send.key <= session
    BY SendAssumption DEF KeysOfSession, TypeOK, ZeroKey
  <2>2. begun[s] = session => send.key = session /\ session # ZeroKey
    BY <1>1 DEF CallsOfSession, KeysOfSession
  <2>3. session <= session
    BY DEF TypeOK
  <2> QED
    BY <1>2, <2>1, <2>2, <2>3 DEF Keyed
<1>8. Keyed(frame[s])'
  BY <1>1, <1>3, <1>7 DEF Keyed
<1>9. FramesKeyed'
  BY <1>1, <1>3, <1>8 DEF FramesKeyed, Keyed, Composed
<1> QED
  BY <1>4, <1>5, <1>6, <1>9

(* The nonce stays one, also when it wraps around.                         *)
LEMMA LoadKInv ==
  ASSUME KInv, NEW s \in Senders, LoadNonce(s) \/ StoreNonce(s)
  PROVE  KInv'
<1> USE DEF KInv
<1>1. /\ UNCHANGED <<state, use_noise, crypto_key, kind, frame, sends, begun, session,
                    overtaken, sealed, wire, got, hubOpen>>
      /\ send'.key = send.key
  BY DEF LoadNonce, StoreNonce, clientVars, hubVars, TypeOK
<1>2. /\ \A t \in Senders : t # s => pc'[t] = pc[t] /\ loaded'[t] = loaded[t]
      /\ Composed(s) /\ pc'[s] \in {"loaded", "write"}
  BY DEF LoadNonce, StoreNonce, TypeOK, Composed
<1>3. TypeOK'
  <2>1. After(loaded[s]) \in 0..MaxNonce
    BY SendAssumption DEF TypeOK, After
  <2>2. send' \in [key : 0..MaxSessions, nonce : 0..MaxNonce]
    BY <2>1 DEF LoadNonce, StoreNonce, TypeOK, clientVars, hubVars
  <2>3. loaded' \in [Senders -> 0..MaxNonce] /\ pc' \in [Senders -> PCs]
    BY DEF LoadNonce, StoreNonce, TypeOK, PCs
  <2> QED
    BY <1>1, <2>2, <2>3 DEF TypeOK
<1>4. KeysOfSession'
  BY <1>1 DEF KeysOfSession
<1>5. CallsOfSession'
  BY <1>1, <1>2 DEF CallsOfSession, Composed
<1>6. FramesKeyed'
  BY <1>1, <1>2 DEF FramesKeyed, Keyed, Composed
<1> QED
  BY <1>3, <1>4, <1>5, <1>6

(* A call that chose the legacy transport has a key while its session      *)
(* lasts; one that was overtaken may find none.                            *)
LEMMA LegacySealKInv ==
  ASSUME KInv, NEW s \in Senders, LegacySeal(s)
  PROVE  KInv'
<1> DEFINE f == [key |-> crypto_key, body |-> Payload(s)]
<1> USE DEF KInv, LegacySeal, clientVars, hubVars
<1>1. f \in LegacyFrames /\ f # NoFrame
  BY PayloadType DEF LegacyFrames, NoFrame, TypeOK
<1>2. Keyed(f)
  <2>1. f.key <= session /\ f.body.at <= session
    <3>1. f.key = crypto_key /\ f.body.at = session
      BY PayloadType
    <3>2. session \in Nat /\ crypto_key \in {0, session}
      BY SendAssumption DEF KeysOfSession, TypeOK, ZeroKey
    <3> QED
      BY <3>1, <3>2
  <2>2. ASSUME f.body.begun = f.body.at PROVE f.key = session /\ session # ZeroKey
    <3>1. begun[s] = session
      BY <2>2, PayloadType
    <3> QED
      BY <3>1 DEF CallsOfSession, ZeroKey
  <2> QED
    BY <2>1, <2>2, PayloadType DEF Keyed
<1>3. /\ \A t \in Senders : t # s => pc'[t] = pc[t] /\ frame'[t] = frame[t]
      /\ pc'[s] = "write" /\ frame'[s] = f
  BY DEF TypeOK
<1>4. TypeOK'
  <2>1. frame' \in [Senders -> NoiseFrames \cup LegacyFrames \cup {NoFrame}]
    BY <1>1 DEF TypeOK
  <2>2. pc' \in [Senders -> PCs]
    BY DEF TypeOK, PCs
  <2> QED
    BY <2>1, <2>2 DEF TypeOK
<1>5. KeysOfSession'
  BY DEF KeysOfSession
<1>6. CallsOfSession'
  BY <1>1, <1>3 DEF CallsOfSession, Composed
<1>7. FramesKeyed'
  BY <1>2, <1>3 DEF FramesKeyed, Keyed, Composed
<1> QED
  BY <1>4, <1>5, <1>6, <1>7

(* What is written was sealed before.                                      *)
LEMMA WriteKInv ==
  ASSUME KInv, NEW s \in Senders, Write(s)
  PROVE  KInv'
<1> USE DEF KInv, Write, hubVars
<1>1. frame[s] \in NoiseFrames \cup LegacyFrames /\ Keyed(frame[s])
  BY DEF CallsOfSession, FramesKeyed, TypeOK, Composed
<1>2. /\ \A t \in Senders : t # s => pc'[t] = pc[t] /\ frame'[t] = frame[t]
      /\ pc'[s] = "idle"
      /\ UNCHANGED <<state, use_noise, crypto_key, kind, loaded, sends, begun, session,
                    overtaken, sealed, got, hubOpen>>
  BY DEF TypeOK
<1>3. send' = send
  BY DEF TypeOK, NonceAfterFailure
<1>4. TypeOK'
  <2>1. /\ frame' \in [Senders -> NoiseFrames \cup LegacyFrames \cup {NoFrame}]
        /\ wire' \subseteq NoiseFrames \cup LegacyFrames
    BY <1>1 DEF TypeOK
  <2>2. pc' \in [Senders -> PCs]
    BY DEF TypeOK, PCs
  <2> QED
    BY <1>2, <1>3, <2>1, <2>2 DEF TypeOK
<1>5. KeysOfSession'
  BY <1>2, <1>3 DEF KeysOfSession
<1>6. CallsOfSession'
  BY <1>2 DEF CallsOfSession, Composed
<1>7. FramesKeyed'
  BY <1>1, <1>2 DEF FramesKeyed, Keyed, Composed
<1> QED
  BY <1>4, <1>5, <1>6, <1>7

(* So every step of a send keeps it.                                       *)
LEMMA SendStepKInv ==
  ASSUME KInv, NEW s \in Senders, SendStep(s)
  PROVE  KInv'
<1>1. CASE Abort(s)
  BY <1>1, GotoKInv DEF Abort
<1>2. CASE Branch(s)
  BY <1>2, GotoKInv DEF Branch
<1>3. CASE SealRefused(s)
  BY <1>3, GotoKInv DEF SealRefused
<1>4. CASE LegacyRefused(s)
  BY <1>4, GotoKInv DEF LegacyRefused
<1> QED
  BY <1>1, <1>2, <1>3, <1>4, CheckKInv, ReadKInv, SealKInv, LoadKInv, LegacySealKInv,
     WriteKInv DEF SendStep

(* The loss of the connection keeps it.                                    *)
LEMMA DisconnectedKInv == KInv /\ Disconnected => KInv'
<1> SUFFICES ASSUME KInv, Disconnected PROVE KInv'
  OBVIOUS
<1> USE DEF KInv, Disconnected, hubVars, taskVars
<1>1. TypeOK'
  BY DEF TypeOK
<1>2. KeysOfSession' /\ CallsOfSession' /\ FramesKeyed'
  BY DEF KeysOfSession, CallsOfSession, FramesKeyed, Keyed, Composed
<1> QED
  BY <1>1, <1>2

(* A reconnect keeps it at any time: no call that is under way began in    *)
(* the new session.                                                        *)
LEMMA ConnectKInv == KInv /\ Connect => KInv'
<1> SUFFICES ASSUME KInv, Connect PROVE KInv'
  OBVIOUS
<1> USE DEF KInv, Connect, hubVars, taskVars
<1>1. session \in 0..MaxSessions /\ session' \in 0..MaxSessions /\ session' = session + 1
  BY SendAssumption DEF TypeOK
<1>2. TypeOK'
  <2>1. /\ crypto_key' \in 0..MaxSessions
        /\ send' \in [key : 0..MaxSessions, nonce : 0..MaxNonce]
    BY SendAssumption DEF ZeroKey
  <2>2. sealed' \in Seq(NoiseFrames) /\ got' \in Seq(NoiseFrames)
    OBVIOUS
  <2> QED
    BY <1>1, <2>1, <2>2 DEF TypeOK
<1>3. KeysOfSession'
  BY DEF KeysOfSession
<1>4. CallsOfSession'
  <2>1. ASSUME NEW s \in Senders, pc[s] # "idle"
        PROVE  begun[s] \in 1..session' /\ begun[s] # session'
    <3>1. begun[s] \in 1..session
      BY <2>1 DEF CallsOfSession
    <3> QED
      BY <1>1, <3>1
  <2> QED
    BY <2>1 DEF CallsOfSession, Composed
<1>5. FramesKeyed'
  <2>1. ASSUME NEW f \in NoiseFrames \cup LegacyFrames, Keyed(f) PROVE Keyed(f)'
    <3>1. f.key \in Nat /\ f.body.at \in Nat
      BY SendAssumption DEF NoiseFrames, LegacyFrames, Payloads
    <3> QED
      BY <1>1, <2>1, <3>1 DEF Keyed
  <2>2. \A f \in wire : Keyed(f)'
    BY <2>1 DEF FramesKeyed, TypeOK
  <2>3. ASSUME NEW s \in Senders, Composed(s) PROVE Keyed(frame[s])'
    <3>1. frame[s] \in NoiseFrames \cup LegacyFrames /\ Keyed(frame[s])
      BY <2>3 DEF CallsOfSession, FramesKeyed, TypeOK, Composed
    <3>2. frame' = frame
      OBVIOUS
    <3> QED
      BY <2>1, <3>1, <3>2 DEF Keyed
  <2> QED
    BY <2>2, <2>3 DEF FramesKeyed, Composed
<1> QED
  BY <1>2, <1>3, <1>4, <1>5

(* A new session key keeps it: no call under way began in this session.    *)
LEMMA EstablishKInv ==
  ASSUME KInv, session > 0, EstablishNoise \/ EstablishLegacy
  PROVE  KInv'
<1> USE DEF KInv, taskVars, hubVars
<1>1. /\ state = "CONNECTING" /\ state' = "READY"
      /\ UNCHANGED <<pc, kind, loaded, frame, sends, begun, session, overtaken,
                    sealed, wire, got>>
  BY DEF EstablishNoise, EstablishLegacy
<1>2. session \in 1..MaxSessions /\ session # ZeroKey
  BY DEF TypeOK, ZeroKey
<1>3. \/ /\ send' = [key |-> session, nonce |-> 1] /\ use_noise' = TRUE
         /\ hubOpen' = TRUE /\ crypto_key' = crypto_key
      \/ /\ send' = send /\ use_noise' = use_noise
         /\ hubOpen' = hubOpen /\ crypto_key' = session
  BY DEF EstablishNoise, EstablishLegacy
<1>4. TypeOK'
  <2>1. send' \in [key : 0..MaxSessions, nonce : 0..MaxNonce]
        /\ crypto_key' \in 0..MaxSessions
    BY <1>2, <1>3, SendAssumption DEF TypeOK
  <2>2. use_noise' \in BOOLEAN /\ hubOpen' \in BOOLEAN
    BY <1>3, Zenon DEF TypeOK
  <2> QED
    BY <1>1, <2>1, <2>2 DEF TypeOK
<1>5. KeysOfSession'
  BY <1>1, <1>2, <1>3 DEF KeysOfSession
<1>6. CallsOfSession'
  BY <1>1 DEF CallsOfSession, Composed
<1>7. FramesKeyed'
  BY <1>1 DEF FramesKeyed, Keyed, Composed
<1> QED
  BY <1>4, <1>5, <1>6, <1>7

(* What the hub opens is a Noise frame.                                    *)
LEMMA HubReceiveKInv ==
  ASSUME KInv, NEW f \in wire, HubReceive(f)
  PROVE  KInv'
<1> USE DEF KInv, HubReceive, clientVars, hubVars, taskVars
<1>1. got' \in Seq(NoiseFrames) /\ hubOpen' \in BOOLEAN
  <2>1. got \in Seq(NoiseFrames) /\ hubOpen \in BOOLEAN
    BY DEF TypeOK
  <2>2. CASE f \in NoiseFrames /\ f.key = session /\ f.nonce = Len(got) + 1
    <3>1. got' = Append(got, f) /\ hubOpen' = hubOpen
      BY <2>2
    <3> QED
      BY <2>1, <2>2, <3>1
  <2>3. CASE ~(f \in NoiseFrames /\ f.key = session /\ f.nonce = Len(got) + 1)
    <3>1. got' = got /\ hubOpen' = FALSE
      BY <2>3, Zenon
    <3> QED
      BY <2>1, <3>1
  <2> QED
    BY <2>2, <2>3
<1>2. TypeOK'
  BY <1>1 DEF TypeOK
<1>3. KeysOfSession' /\ CallsOfSession' /\ FramesKeyed'
  BY DEF KeysOfSession, CallsOfSession, FramesKeyed, Keyed, Composed
<1> QED
  BY <1>2, <1>3

(* So every step keeps it.                                                 *)
LEMMA KInvStep == KInv /\ [Next]_vars => KInv'
BY StutterKInv, SendStepKInv, DisconnectedKInv, ConnectKInv, EstablishKInv,
   HubReceiveKInv DEF Next

(* KInv is inductive whatever the application does.                        *)
THEOREM KeysInvariance == Spec => []KInv
BY InitKInv, KInvStep, PTL DEF Spec

(* Every reachable state is of the stated shape, however many tasks send   *)
(* and whenever the client reconnects.                                     *)
THEOREM SendTypeCorrect == Spec => []TypeOK
<1>1. KInv => TypeOK
  BY DEF KInv
<1> QED
  BY KeysInvariance, <1>1, PTL

(* However many tasks send, and whenever the connection is lost and        *)
(* hm_client_connect clears the context: a frame on the link is sealed     *)
(* under the key its session's handshake derived, unless the context was   *)
(* cleared between the state check of its call and its seal.               *)
THEOREM KeyedTraffic == Spec => []KeyedUnlessOvertaken
<1>1. KInv => KeyedUnlessOvertaken
  BY DEF KInv, FramesKeyed, Keyed, KeyedUnlessOvertaken
<1> QED
  BY KeysInvariance, <1>1, PTL

-----------------------------------------------------------------------------
(* One task sends.                                                         *)

OneSender == \A s, t \in Senders : s = t

Advancing(s) == pc[s] \in {"sealed", "loaded"}

(* Frame number i of a session is sealed under nonce i.                    *)
SealedInOrder ==
  \A i \in DOMAIN sealed : sealed[i].nonce = i /\ sealed[i].key = session

(* The counter of the session is one past the last frame, but for the      *)
(* moment between sealing a frame and storing the increment.               *)
Counter ==
  /\ use_noise <=> send.key # ZeroKey
  /\ send.key = ZeroKey => sealed = <<>>
  /\ send.key # ZeroKey /\ (\A s \in Senders : ~Advancing(s)) =>
       send.nonce = Len(sealed) + 1

(* What a call in progress relies on.                                      *)
CallInProgress ==
  \A s \in Senders :
    /\ pc[s] # "idle" => state # "CONNECTING"
    /\ Advancing(s) => send.key # ZeroKey /\ send.nonce < MaxNonce
                       /\ send.nonce = Len(sealed) /\ frame[s] \in NoiseFrames
    /\ pc[s] = "numbered" => send.key # ZeroKey /\ send.nonce < MaxNonce
    /\ pc[s] \in {"numbered", "loaded"} => loaded[s] = send.nonce

(* A Noise frame of this session, in a call or on the link, is the one     *)
(* sealed under its nonce; a call holds none while it is being composed.   *)
Genuine(f) ==
  f \in NoiseFrames /\ f.key = session =>
    f.nonce \in DOMAIN sealed /\ sealed[f.nonce] = f

KnownFrames ==
  /\ \A f \in wire : Genuine(f)
  /\ \A s \in Senders : Composed(s) => Genuine(frame[s])

NothingBeforeKey == state = "CONNECTING" => send.key = ZeroKey

GotPrefix ==
  Len(got) <= Len(sealed) /\ \A i \in DOMAIN got : got[i] = sealed[i]

SInv ==
  /\ KInv
  /\ SealedInOrder /\ Counter /\ CallInProgress /\ KnownFrames
  /\ NothingBeforeKey /\ GotPrefix

(* It holds at first.                                                      *)
LEMMA InitSInv == Init => SInv
<1> SUFFICES ASSUME Init PROVE SInv
  OBVIOUS
<1>1. KInv
  BY InitKInv
<1>2. SealedInOrder /\ Counter /\ GotPrefix /\ NothingBeforeKey
  BY DEF Init, ZeroKey, SealedInOrder, Counter, GotPrefix, NothingBeforeKey
<1>3. CallInProgress /\ KnownFrames
  BY DEF Init, CallInProgress, KnownFrames, Advancing, Composed
<1> QED
  BY <1>1, <1>2, <1>3 DEF SInv

(* It is about the variables only.                                         *)
LEMMA StutterSInv == SInv /\ UNCHANGED vars => SInv'
<1> SUFFICES ASSUME SInv, UNCHANGED vars PROVE SInv'
  OBVIOUS
<1>1. KInv'
  BY StutterKInv DEF SInv
<1> QED
  BY <1>1 DEF SInv, vars, clientVars, hubVars, taskVars, SealedInOrder, Counter,
              CallInProgress, KnownFrames, Genuine, Advancing, Composed, NothingBeforeKey, GotPrefix

(* A step of a call that only moves on, while it composes its frame.       *)
LEMMA GotoSInv ==
  ASSUME SInv, NEW s \in Senders, NEW l \in {"idle", "noise", "legacy"}, Goto(s, l),
         pc[s] \in {"checked", "noise", "legacy"}, l = "legacy" => ~use_noise
  PROVE  SInv'
<1>1. KInv'
  BY GotoKInv DEF SInv
<1> USE DEF SInv, Goto, clientVars, hubVars
<1>2. /\ \A t \in Senders : t # s => pc'[t] = pc[t]
      /\ pc'[s] = l
  BY DEF KInv, TypeOK
<1>3. Counter' /\ CallInProgress'
  BY <1>2 DEF Counter, CallInProgress, Advancing
<1>4. KnownFrames'
  BY <1>2 DEF KnownFrames, Genuine, Composed
<1>5. SealedInOrder' /\ NothingBeforeKey' /\ GotPrefix'
  BY DEF SealedInOrder, NothingBeforeKey, GotPrefix
<1> QED
  BY <1>1, <1>3, <1>4, <1>5

(* The state check of a send keeps it.                                     *)
LEMMA CheckSInv ==
  ASSUME SInv, NEW s \in Senders, Check(s)
  PROVE  SInv'
<1>1. KInv'
  BY CheckKInv DEF SInv
<1> USE DEF SInv, Check, MaySend, clientVars, hubVars
<1>2. /\ \A t \in Senders : t # s => pc'[t] = pc[t]
      /\ pc[s] = "idle" /\ pc'[s] = "checked"
  BY DEF KInv, TypeOK
<1>3. Counter' /\ CallInProgress'
  BY <1>2 DEF Counter, CallInProgress, Advancing
<1>4. KnownFrames'
  BY <1>2 DEF KnownFrames, Genuine, Composed
<1>5. SealedInOrder' /\ NothingBeforeKey' /\ GotPrefix'
  BY DEF SealedInOrder, NothingBeforeKey, GotPrefix
<1> QED
  BY <1>1, <1>3, <1>4, <1>5

(* Reading the nonce keeps it.                                             *)
LEMMA ReadSInv ==
  ASSUME SInv, NEW s \in Senders, ReadNonce(s)
  PROVE  SInv'
<1>1. KInv'
  BY ReadKInv DEF SInv
<1> USE DEF SInv, ReadNonce, clientVars, hubVars
<1>2. /\ \A t \in Senders : t # s => pc'[t] = pc[t] /\ loaded'[t] = loaded[t]
      /\ pc[s] = "noise" /\ pc'[s] = "numbered" /\ loaded'[s] = send.nonce
      /\ send.key # ZeroKey /\ send.nonce < MaxNonce
  BY DEF KInv, TypeOK, NonceLeft
<1>3. Counter'
  BY <1>2 DEF Counter, Advancing
<1>4. CallInProgress'
  BY <1>2 DEF CallInProgress, Advancing
<1>5. KnownFrames'
  BY <1>2 DEF KnownFrames, Genuine, Composed
<1>6. SealedInOrder' /\ NothingBeforeKey' /\ GotPrefix'
  BY DEF SealedInOrder, NothingBeforeKey, GotPrefix
<1> QED
  BY <1>1, <1>3, <1>4, <1>5, <1>6

(* A frame is sealed under the next nonce: no other task is between seal   *)
(* and store.                                                              *)
LEMMA SealSInv ==
  ASSUME OneSender, SInv, NEW s \in Senders, Seal(s)
  PROVE  SInv'
<1> DEFINE f == [key |-> send.key, nonce |-> loaded[s], body |-> Payload(s)]
<1>0. KInv'
  BY SealKInv DEF SInv
<1> USE DEF SInv
<1>1. \A t \in Senders : t = s
  BY DEF OneSender
<1>2. /\ pc[s] = "numbered" /\ send.key # ZeroKey /\ send.nonce < MaxNonce
      /\ loaded[s] = send.nonce
  BY DEF Seal, CallInProgress
<1>3. send.key = session /\ send.nonce = Len(sealed) + 1
  BY <1>1, <1>2 DEF Counter, Advancing, KInv, KeysOfSession
<1>4. /\ pc'[s] = "sealed" /\ frame'[s] = f /\ sealed' = Append(sealed, f)
      /\ UNCHANGED <<state, use_noise, crypto_key, send, kind, loaded, sends, begun,
                    session, wire, got, hubOpen>>
  BY <1>3 DEF Seal, KInv, TypeOK, clientVars, hubVars
<1>5. f \in NoiseFrames /\ f.nonce = send.nonce /\ f.key = session
  <2>1. send.key \in 1..MaxSessions /\ send.nonce \in 0..MaxNonce - 1
    BY <1>2, SendAssumption DEF KInv, TypeOK, ZeroKey
  <2>2. Payload(s) \in Payloads
    BY <1>2, PayloadType DEF CallsOfSession
  <2> QED
    BY <1>2, <1>3, <2>1, <2>2 DEF NoiseFrames
<1>6. /\ sealed \in Seq(NoiseFrames) /\ sealed' \in Seq(NoiseFrames)
      /\ Len(sealed') = Len(sealed) + 1 /\ sealed'[Len(sealed) + 1] = f
      /\ \A i \in DOMAIN sealed : i \in DOMAIN sealed' /\ sealed'[i] = sealed[i]
      /\ DOMAIN sealed' = DOMAIN sealed \cup {Len(sealed) + 1}
  BY <1>4, <1>5 DEF KInv, TypeOK
<1>7. SealedInOrder'
  BY <1>3, <1>4, <1>5, <1>6 DEF SealedInOrder
<1>8. Counter'
  BY <1>1, <1>2, <1>4 DEF Counter, Advancing
<1>9. CallInProgress'
  BY <1>1, <1>2, <1>3, <1>4, <1>5, <1>6 DEF CallInProgress, Advancing
<1>10. KnownFrames'
  <2>1. Genuine(frame[s])'
    BY <1>3, <1>4, <1>5, <1>6 DEF Genuine
  <2>2. \A g \in wire : Genuine(g)'
    BY <1>4, <1>6 DEF KnownFrames, Genuine
  <2> QED
    BY <1>1, <1>4, <2>1, <2>2 DEF KnownFrames
<1>11. GotPrefix'
  <2>1. got \in Seq(NoiseFrames)
    BY DEF KInv, TypeOK
  <2> QED
    BY <1>4, <1>6, <2>1 DEF GotPrefix
<1>12. NothingBeforeKey'
  BY <1>4 DEF NothingBeforeKey
<1> QED
  BY <1>0, <1>7, <1>8, <1>9, <1>10, <1>11, <1>12

(* Loading the nonce keeps it.                                             *)
LEMMA LoadSInv ==
  ASSUME SInv, NEW s \in Senders, LoadNonce(s)
  PROVE  SInv'
<1>1. KInv'
  BY LoadKInv DEF SInv
<1> USE DEF SInv, LoadNonce, clientVars, hubVars
<1>2. /\ \A t \in Senders : t # s => pc'[t] = pc[t] /\ loaded'[t] = loaded[t]
      /\ pc[s] = "sealed" /\ pc'[s] = "loaded" /\ loaded'[s] = send.nonce
  BY DEF KInv, TypeOK
<1>3. Counter'
  BY <1>2 DEF Counter, Advancing
<1>4. CallInProgress'
  BY <1>2 DEF CallInProgress, Advancing
<1>5. KnownFrames'
  BY <1>2 DEF KnownFrames, Genuine, Composed
<1>6. SealedInOrder' /\ NothingBeforeKey' /\ GotPrefix'
  BY DEF SealedInOrder, NothingBeforeKey, GotPrefix
<1> QED
  BY <1>1, <1>3, <1>4, <1>5, <1>6

(* Storing the next nonce keeps it.                                        *)
LEMMA StoreSInv ==
  ASSUME OneSender, SInv, NEW s \in Senders, StoreNonce(s)
  PROVE  SInv'
<1>0. KInv'
  BY LoadKInv DEF SInv
<1> USE DEF SInv, StoreNonce, hubVars
<1>1. \A t \in Senders : t = s
  BY DEF OneSender
<1>2. /\ pc[s] = "loaded" /\ loaded[s] = send.nonce /\ send.nonce = Len(sealed)
      /\ send.nonce < MaxNonce /\ send.key # ZeroKey
  BY DEF CallInProgress, Advancing
<1>3. /\ send'.key = send.key /\ send'.nonce = Len(sealed) + 1
      /\ pc'[s] = "write" /\ frame'[s] = frame[s]
  <2>1. send \in [key : 0..MaxSessions, nonce : 0..MaxNonce] /\ loaded[s] # MaxNonce
    BY <1>2, SendAssumption DEF KInv, TypeOK
  <2> QED
    BY <1>2, <2>1 DEF KInv, TypeOK, After
<1>4. Counter'
  BY <1>2, <1>3 DEF Counter
<1>5. CallInProgress'
  BY <1>1, <1>2, <1>3 DEF CallInProgress, Advancing
<1>6. KnownFrames'
  BY <1>1, <1>2, <1>3 DEF KnownFrames, Genuine, Composed
<1>7. SealedInOrder' /\ NothingBeforeKey' /\ GotPrefix'
  BY <1>3 DEF SealedInOrder, NothingBeforeKey, GotPrefix
<1> QED
  BY <1>0, <1>4, <1>5, <1>6, <1>7

(* A legacy seal keeps it: the frame is none of the session's Noise frames.*)
LEMMA LegacySealSInv ==
  ASSUME SInv, NEW s \in Senders, LegacySeal(s)
  PROVE  SInv'
<1> DEFINE f == [key |-> crypto_key, body |-> Payload(s)]
<1>1. KInv'
  BY LegacySealKInv DEF SInv
<1> USE DEF SInv, LegacySeal, clientVars, hubVars
<1>2. f \notin NoiseFrames
  BY DEF NoiseFrames
<1>3. /\ \A t \in Senders : t # s => pc'[t] = pc[t] /\ frame'[t] = frame[t]
      /\ pc[s] = "legacy" /\ pc'[s] = "write" /\ frame'[s] = f
  BY DEF KInv, TypeOK
<1>4. Counter'
  BY <1>3 DEF Counter, Advancing
<1>5. CallInProgress'
  BY <1>3 DEF CallInProgress, Advancing
<1>6. KnownFrames'
  BY <1>2, <1>3 DEF KnownFrames, Genuine, Composed
<1>7. SealedInOrder' /\ NothingBeforeKey' /\ GotPrefix'
  BY DEF SealedInOrder, NothingBeforeKey, GotPrefix
<1> QED
  BY <1>1, <1>4, <1>5, <1>6, <1>7

(* Writing the frame, or failing to, keeps it.                             *)
LEMMA WriteSInv ==
  ASSUME SInv, NEW s \in Senders, Write(s)
  PROVE  SInv'
<1>1. KInv'
  BY WriteKInv DEF SInv
<1> USE DEF SInv, Write, hubVars
<1>2. /\ \A t \in Senders : t # s => pc'[t] = pc[t] /\ frame'[t] = frame[t]
      /\ pc[s] = "write" /\ pc'[s] = "idle"
      /\ UNCHANGED <<state, use_noise, crypto_key, kind, loaded, sends, begun, session,
                    overtaken, sealed, got, hubOpen>>
  BY DEF KInv, TypeOK
<1>3. send' = send
  BY DEF KInv, TypeOK, NonceAfterFailure
<1>4. Counter'
  BY <1>2, <1>3 DEF Counter, Advancing
<1>5. CallInProgress'
  BY <1>2, <1>3 DEF CallInProgress, Advancing
<1>6. KnownFrames'
  <2>1. Genuine(frame[s])
    BY <1>2 DEF KnownFrames, Composed
  <2> QED
    BY <1>2, <2>1 DEF KnownFrames, Genuine, Composed
<1>7. NothingBeforeKey' /\ SealedInOrder' /\ GotPrefix'
  BY <1>2, <1>3 DEF NothingBeforeKey, SealedInOrder, GotPrefix
<1> QED
  BY <1>1, <1>4, <1>5, <1>6, <1>7

(* So every step of a send keeps it.                                       *)
LEMMA SendStepSInv ==
  ASSUME OneSender, SInv, NEW s \in Senders, SendStep(s)
  PROVE  SInv'
<1>1. CASE Abort(s)
  BY <1>1, GotoSInv DEF Abort
<1>2. CASE Branch(s)
  BY <1>2, GotoSInv DEF Branch
<1>3. CASE SealRefused(s)
  BY <1>3, GotoSInv DEF SealRefused
<1>4. CASE LegacyRefused(s)
  BY <1>4, GotoSInv DEF LegacyRefused
<1> QED
  BY <1>1, <1>2, <1>3, <1>4, CheckSInv, ReadSInv, SealSInv, LoadSInv,
     StoreSInv, LegacySealSInv, WriteSInv DEF SendStep

(* The loss of the connection keeps it.                                    *)
LEMMA DisconnectedSInv == SInv /\ Disconnected => SInv'
<1> SUFFICES ASSUME SInv, Disconnected PROVE SInv'
  OBVIOUS
<1>1. KInv'
  BY DisconnectedKInv DEF SInv
<1> USE DEF SInv, Disconnected, hubVars, taskVars
<1>2. CallInProgress' /\ KnownFrames'
  BY DEF CallInProgress, KnownFrames, Genuine, Advancing, Composed
<1>3. SealedInOrder' /\ Counter' /\ NothingBeforeKey' /\ GotPrefix'
  BY DEF SealedInOrder, Counter, Advancing, NothingBeforeKey, GotPrefix
<1> QED
  BY <1>1, <1>2, <1>3

(* A reconnect that overtakes no send brings it about: the frames there    *)
(* are belong to sessions that are over.                                   *)
LEMMA ConnectSInv ==
  ASSUME KInv, Connect, ~overtaken'
  PROVE  SInv'
<1>1. KInv'
  BY ConnectKInv
<1> USE DEF SInv, Connect, hubVars, taskVars
<1>2. \A s \in Senders : pc[s] = "idle"
  OBVIOUS
<1>3. SealedInOrder' /\ GotPrefix' /\ NothingBeforeKey'
  BY DEF SealedInOrder, GotPrefix, NothingBeforeKey
<1>4. Counter'
  BY DEF Counter
<1>5. CallInProgress'
  BY <1>2 DEF CallInProgress, Advancing
<1>6. KnownFrames'
  <2>1. ASSUME NEW f \in wire PROVE f.key # session'
    <3>1. f.key \in 0..MaxSessions /\ f.key <= session /\ session \in 0..MaxSessions
      BY SendAssumption
         DEF KInv, TypeOK, FramesKeyed, Keyed, NoiseFrames, LegacyFrames
    <3>2. session' = session + 1
      OBVIOUS
    <3> QED
      BY <3>1, <3>2
  <2> QED
    BY <1>2, <2>1 DEF KnownFrames, Genuine, Composed
<1> QED
  BY <1>1, <1>3, <1>4, <1>5, <1>6

(* A new session key keeps it.                                             *)
LEMMA EstablishSInv ==
  ASSUME SInv, session > 0, EstablishNoise \/ EstablishLegacy
  PROVE  SInv'
<1>1. KInv'
  BY EstablishKInv DEF SInv
<1> USE DEF SInv, taskVars, hubVars
<1>2. /\ state = "CONNECTING" /\ state' = "READY"
      /\ UNCHANGED <<pc, kind, loaded, frame, sends, begun, session, overtaken,
                    sealed, wire, got>>
  BY DEF EstablishNoise, EstablishLegacy
<1>3. session # ZeroKey
  BY DEF KInv, TypeOK, ZeroKey
<1>4. /\ \A s \in Senders : pc[s] = "idle"
      /\ send.key = ZeroKey /\ sealed = <<>> /\ ~use_noise
  BY <1>2 DEF CallInProgress, NothingBeforeKey, Counter
<1>5. \/ send' = [key |-> session, nonce |-> 1] /\ use_noise' = TRUE
      \/ send' = send /\ use_noise' = use_noise
  BY DEF EstablishNoise, EstablishLegacy
<1>6. Counter'
  BY <1>2, <1>3, <1>4, <1>5 DEF Counter
<1>7. CallInProgress' /\ KnownFrames'
  BY <1>2, <1>4 DEF CallInProgress, Advancing, KnownFrames, Genuine, Composed
<1>8. SealedInOrder' /\ NothingBeforeKey' /\ GotPrefix'
  BY <1>2 DEF SealedInOrder, NothingBeforeKey, GotPrefix
<1> QED
  BY <1>1, <1>6, <1>7, <1>8

(* The hub opens only the next frame of its session.                       *)
LEMMA HubReceiveSInv ==
  ASSUME SInv, NEW f \in wire, HubReceive(f)
  PROVE  /\ SInv'
         /\ \/ got' = got
            \/ /\ Len(got) < Len(sealed)
               /\ got' = Append(got, sealed[Len(got) + 1])
<1>0. KInv'
  BY HubReceiveKInv DEF SInv
<1> USE DEF SInv, HubReceive, clientVars, hubVars, taskVars
<1>1. got \in Seq(NoiseFrames) /\ sealed \in Seq(NoiseFrames)
  BY DEF KInv, TypeOK
<1>2. \/ got' = got
      \/ /\ f \in NoiseFrames /\ Len(got) < Len(sealed)
         /\ sealed[Len(got) + 1] = f /\ got' = Append(got, f)
  <2>1. CASE f \in NoiseFrames /\ f.key = session /\ f.nonce = Len(got) + 1
    <3>1. Len(got) + 1 \in DOMAIN sealed /\ sealed[Len(got) + 1] = f
      BY <2>1 DEF KnownFrames, Genuine
    <3> QED
      BY <1>1, <2>1, <3>1
  <2>2. CASE ~(f \in NoiseFrames /\ f.key = session /\ f.nonce = Len(got) + 1)
    BY <2>2, Zenon
  <2> QED
    BY <2>1, <2>2
<1>3. GotPrefix'
  BY <1>1, <1>2 DEF GotPrefix
<1>4. SealedInOrder' /\ Counter' /\ NothingBeforeKey'
  BY DEF SealedInOrder, Counter, Advancing, NothingBeforeKey
<1>5. CallInProgress' /\ KnownFrames'
  BY DEF CallInProgress, Advancing, KnownFrames, Genuine, Composed
<1> QED
  BY <1>0, <1>2, <1>3, <1>4, <1>5

(* Of a session that overtook no send, SInv holds; of any other, KInv.     *)
OInv == KInv /\ (~overtaken => SInv)

(* OInv is inductive if one task sends.                                    *)
THEOREM SendInvariance == OneSender => (Spec => []OInv)
<1> SUFFICES ASSUME OneSender PROVE Spec => []OInv
  OBVIOUS
<1>1. Init => OInv
  BY InitKInv, InitSInv DEF OInv
<1>2. OInv /\ [Next]_vars => OInv'
  <2> SUFFICES ASSUME OInv, [Next]_vars, ~overtaken' PROVE SInv'
    BY KInvStep DEF OInv
  <2>1. CASE Connect
    BY <2>1, ConnectSInv DEF OInv
  <2>2. CASE ~Connect
    <3>1. overtaken' = overtaken
      BY <2>2 DEF Next, vars, SendStep, Check, Abort, Branch, ReadNonce, SealRefused,
         Seal, LoadNonce, StoreNonce, LegacySeal, LegacyRefused, Write, Goto,
         Disconnected, EstablishNoise, EstablishLegacy, HubReceive
    <3>2. SInv
      BY <3>1 DEF OInv
    <3> QED
      BY <2>2, <3>2, StutterSInv, SendStepSInv, DisconnectedSInv, EstablishSInv,
         HubReceiveSInv DEF Next
  <2> QED
    BY <2>1, <2>2
<1> QED
  BY <1>1, <1>2, PTL DEF Spec

(* With one sending task no nonce is used twice under a key, however calls *)
(* fail, frames are lost and the client reconnects, except in a session in *)
(* whose beginning a send was under way.                                   *)
THEOREM NonceSafety == OneSender => (Spec => []NonceNeverReused)
<1>1. OInv => NonceNeverReused
  BY DEF OInv, SInv, SealedInOrder, NonceNeverReused
<1> QED
  BY SendInvariance, <1>1, PTL

(* The sending side of one task and its hub implement the secure channel.  *)
THEOREM SendImplementsChannel == OneSender => (Spec => ChannelSpec)
<1> SUFFICES ASSUME OneSender PROVE Spec => ChannelSpec
  OBVIOUS
<1> DEFINE Step == [Channel!Next]_<<InChannel(sealed), InChannel(got)>>
<1>1. Init => Channel!Init
  BY DEF Init, InChannel, Channel!Init
<1>2. OInv /\ OInv' /\ [Next]_vars => Step
  <2> SUFFICES ASSUME OInv, OInv', [Next]_vars PROVE Step
    OBVIOUS
  <2>1. CASE Connect
    <3>1. InChannel(sealed)' = <<>> /\ InChannel(got)' = <<>>
      BY <2>1 DEF Connect, InChannel
    <3> QED
      BY <3>1 DEF Channel!Next, Channel!Reset
  <2>2. CASE ~Connect
    <3>1. overtaken' = overtaken
      BY <2>2 DEF Next, vars, SendStep, Check, Abort, Branch, ReadNonce, SealRefused,
         Seal, LoadNonce, StoreNonce, LegacySeal, LegacyRefused, Write, Goto,
         Disconnected, EstablishNoise, EstablishLegacy, HubReceive
    <3>2. CASE overtaken
      <4>1. InChannel(sealed)' = InChannel(sealed) /\ InChannel(got)' = InChannel(got)
        BY <3>1, <3>2 DEF InChannel
      <4> QED
        BY <4>1
    <3>3. CASE ~overtaken
      <4>1. /\ InChannel(sealed) = sealed /\ InChannel(sealed)' = sealed'
            /\ InChannel(got) = got /\ InChannel(got)' = got'
        BY <3>1, <3>3 DEF InChannel
      <4>2. SInv /\ SInv'
        BY <3>1, <3>3 DEF OInv
      <4>3. ASSUME NEW s \in Senders, Seal(s) PROVE Step
        <5> DEFINE f == [key |-> send.key, nonce |-> loaded[s], body |-> Payload(s)]
        <5>1. got' = got /\ (sealed' = sealed \/ sealed' = Append(sealed, f))
          BY <4>3 DEF Seal, hubVars
        <5>2. frame'[s] = f /\ pc'[s] = "sealed"
          BY <4>2, <4>3 DEF Seal, SInv, KInv, TypeOK
        <5>3. f \in NoiseFrames
          BY <4>2, <5>2 DEF SInv, CallInProgress, Advancing
        <5> QED
          BY <4>1, <5>1, <5>3 DEF Channel!Next, Channel!Send
      <4>4. ASSUME NEW s \in Senders, SendStep(s), ~Seal(s) PROVE Step
        <5>1. UNCHANGED <<sealed, got>>
          BY <4>4 DEF SendStep, Check, Abort, Branch, ReadNonce, SealRefused, LoadNonce,
             StoreNonce, LegacySeal, LegacyRefused, Write, Goto, hubVars
        <5> QED
          BY <4>1, <5>1
      <4>5. CASE Disconnected \/ EstablishNoise \/ EstablishLegacy \/ UNCHANGED vars
        <5>1. UNCHANGED <<sealed, got>>
          BY <4>5 DEF Disconnected, EstablishNoise, EstablishLegacy, vars, hubVars
        <5> QED
          BY <4>1, <5>1
      <4>6. ASSUME NEW f \in wire, HubReceive(f) PROVE Step
        <5>1. sealed' = sealed
          BY <4>6 DEF HubReceive
        <5> QED
          BY <4>1, <4>2, <4>6, <5>1, HubReceiveSInv DEF Channel!Next, Channel!Receive
      <4> QED
        BY <2>2, <4>3, <4>4, <4>5, <4>6 DEF Next
    <3> QED
      BY <3>2, <3>3
  <2> QED
    BY <2>1, <2>2
<1> QED
  BY <1>1, <1>2, SendInvariance, PTL DEF Spec, ChannelSpec, Channel!Spec
=============================================================================
