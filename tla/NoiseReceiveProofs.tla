-------------------------- MODULE NoiseReceiveProofs --------------------------
(***************************************************************************)
(* Proofs about NoiseReceive: whatever the link does, and for any number   *)
(* of sessions and frames, what is opened is a prefix of what was sealed.  *)
(***************************************************************************)
EXTENDS NoiseReceive, TLAPS

(* Frame number i of a session carries nonce i - 1.                        *)
SealedInOrder ==
  \A i \in DOMAIN sealed : sealed[i].nonce = i - 1 /\ sealed[i].key = session

(* A frame of this session on the link is the one sealed under its nonce.  *)
KnownFrames ==
  \A f \in link :
    /\ f.key <= session
    /\ f.key = session => f.nonce + 1 \in DOMAIN sealed /\ sealed[f.nonce + 1] = f

(* The counter of the session is the number of frames opened.              *)
Counter ==
  /\ recv.key \in {0, session}
  /\ use_noise => recv.key = session /\ session > 0
  /\ use_noise => recv.nonce = Len(opened)
  /\ ~use_noise => sealed = <<>> /\ opened = <<>> /\ dispatched = <<>>

OpenedPrefix ==
  Len(opened) <= Len(sealed) /\ \A i \in DOMAIN opened : opened[i] = sealed[i]

DispatchedBelow ==
  \A i \in DOMAIN dispatched : dispatched[i].nonce < Len(opened)

RInv ==
  /\ TypeOK /\ SealedInOrder /\ KnownFrames /\ Counter /\ OpenedPrefix
  /\ DispatchedInOrder /\ DispatchedBelow
  /\ state = "READY" => use_noise
  /\ refused => state # "READY" /\ state # "CONNECTING"
  /\ state = "CONNECTING" => ~use_noise

-----------------------------------------------------------------------------
(* The invariant holds at first.                                           *)
LEMMA InitRInv == Init => RInv
<1> SUFFICES ASSUME Init PROVE RInv
  OBVIOUS
<1> USE DEF Init
<1>1. TypeOK
  <2>1. session \in 0..MaxSessions /\ recv \in [key : 0..MaxSessions, nonce : 0..MaxNonce]
    BY ReceiveAssumption
  <2>2. /\ sealed \in Seq(Frames) /\ opened \in Seq(Frames)
        /\ dispatched \in Seq(Frames) /\ link \subseteq Frames
    OBVIOUS
  <2> QED
    BY <2>1, <2>2 DEF TypeOK
<1> QED
  BY <1>1 DEF RInv, SealedInOrder, KnownFrames, Counter, OpenedPrefix,
              DispatchedInOrder, DispatchedBelow

(* A frame that opens is the next one of the hub of this session.          *)
LEMMA OpenRInv ==
  ASSUME RInv, NEW f \in link \cup {Damaged}, OpenFrame(f)
  PROVE  /\ RInv'
         /\ Len(opened) < Len(sealed)
         /\ opened' = Append(opened, sealed[Len(opened) + 1])
<1> USE DEF RInv, OpenFrame, Listening
<1>1. /\ f \in link /\ f \in Frames /\ f.key = session /\ f.nonce = Len(opened)
      /\ recv.nonce < MaxNonce /\ use_noise /\ ~refused /\ state = "READY"
  BY DEF Opens, Counter, TypeOK
<1>2. /\ opened \in Seq(Frames) /\ sealed \in Seq(Frames) /\ dispatched \in Seq(Frames)
      /\ recv \in [key : 0..MaxSessions, nonce : 0..MaxNonce]
  BY DEF TypeOK
<1>3. Len(opened) + 1 \in DOMAIN sealed /\ sealed[Len(opened) + 1] = f
  BY <1>1, <1>2 DEF KnownFrames
<1>4. /\ Len(opened) < Len(sealed) /\ opened' = Append(opened, f)
      /\ opened' \in Seq(Frames) /\ Len(opened') = Len(opened) + 1
  BY <1>1, <1>2, <1>3
<1>5. recv' = [recv EXCEPT !.nonce = @ + 1]
      /\ recv' \in [key : 0..MaxSessions, nonce : 0..MaxNonce]
      /\ recv'.key = recv.key /\ recv'.nonce = Len(opened')
  BY <1>1, <1>2, <1>4, ReceiveAssumption DEF Counter
<1>6. \/ dispatched' = dispatched
      \/ dispatched' = Append(dispatched, f)
  OBVIOUS
<1>7. state' \in {"DISCONNECTED", "READY"} /\ (refused' => state' # "READY")
      /\ refused' \in BOOLEAN
  BY <1>1 DEF StateAfterFailure
<1>8. TypeOK'
  BY <1>1, <1>2, <1>4, <1>5, <1>6, <1>7 DEF TypeOK
<1>9. SealedInOrder' /\ KnownFrames'
  BY DEF SealedInOrder, KnownFrames
<1>10. Counter'
  BY <1>1, <1>4, <1>5 DEF Counter
<1>11. OpenedPrefix'
  BY <1>2, <1>3, <1>4 DEF OpenedPrefix
<1>12. DispatchedInOrder' /\ DispatchedBelow'
  <2>0. \A i \in DOMAIN dispatched : dispatched[i].nonce \in Nat
    <3>1. \A i \in DOMAIN dispatched : dispatched[i] \in Frames
      BY <1>2
    <3>2. \A g \in Frames : g.nonce \in Nat
      BY ReceiveAssumption DEF Frames
    <3> QED
      BY <3>1, <3>2
  <2>1. CASE dispatched' = dispatched
    <3>1. DispatchedBelow'
      BY <2>0, <2>1, <1>2, <1>4 DEF DispatchedBelow
    <3>2. DispatchedInOrder'
      BY <2>1 DEF DispatchedInOrder
    <3> QED
      BY <3>1, <3>2
  <2>2. CASE dispatched' = Append(dispatched, f)
    <3>1. \A i \in DOMAIN dispatched' :
            IF i = Len(dispatched) + 1 THEN dispatched'[i] = f
            ELSE i \in DOMAIN dispatched /\ dispatched'[i] = dispatched[i]
      BY <1>2, <2>2
    <3>2. DispatchedBelow'
      BY <2>0, <1>1, <1>2, <1>4, <3>1 DEF DispatchedBelow
    <3>3. /\ Len(dispatched) \in Nat /\ DOMAIN dispatched = 1..Len(dispatched)
          /\ DOMAIN dispatched' = 1..(Len(dispatched) + 1)
      BY <1>1, <1>2, <2>2
    <3>4. DispatchedInOrder'
      <4> SUFFICES ASSUME NEW i \in DOMAIN dispatched', NEW j \in DOMAIN dispatched'
                   PROVE  /\ dispatched'[i].key = session
                          /\ i < j => dispatched'[i].nonce < dispatched'[j].nonce
        BY DEF DispatchedInOrder
      <4>1. dispatched'[i].key = session
        BY <1>1, <3>1 DEF DispatchedInOrder
      <4>2. ASSUME i < j PROVE dispatched'[i].nonce < dispatched'[j].nonce
        <5>1. i \in DOMAIN dispatched /\ dispatched'[i] = dispatched[i]
          BY <3>1, <3>3, <4>2
        <5>2. CASE j = Len(dispatched) + 1
          BY <1>1, <3>1, <5>1, <5>2 DEF DispatchedBelow
        <5>3. CASE j # Len(dispatched) + 1
          BY <3>1, <4>2, <5>1, <5>3 DEF DispatchedInOrder
        <5> QED
          BY <5>2, <5>3
      <4> QED
        BY <4>1, <4>2
    <3> QED
      BY <3>2, <3>4
  <2> QED
    BY <1>6, <2>1, <2>2
<1> QED
  BY <1>1, <1>3, <1>4, <1>7, <1>8, <1>9, <1>10, <1>11, <1>12

(* What the hub seals next keeps the invariant.                            *)
LEMMA SealRInv ==
  ASSUME RInv, NEW body \in Bodies, HubSeal(body)
  PROVE  RInv' /\ \E f \in Frames : sealed' = Append(sealed, f)
<1> DEFINE f == [key |-> session, nonce |-> Len(sealed), body |-> body]
<1> USE DEF RInv, HubSeal
<1>1. f \in Frames /\ f.key = session /\ f.nonce = Len(sealed)
  BY ReceiveAssumption DEF Counter, TypeOK, Frames
<1>2. /\ sealed \in Seq(Frames) /\ opened \in Seq(Frames) /\ sealed' = Append(sealed, f)
      /\ sealed' \in Seq(Frames) /\ Len(sealed') = Len(sealed) + 1
      /\ sealed'[Len(sealed) + 1] = f
      /\ \A i \in DOMAIN sealed : i \in DOMAIN sealed' /\ sealed'[i] = sealed[i]
      /\ DOMAIN sealed' = DOMAIN sealed \cup {Len(sealed) + 1}
  BY <1>1 DEF TypeOK
<1>3. TypeOK'
  BY <1>1, <1>2 DEF TypeOK
<1>4. SealedInOrder' /\ KnownFrames'
  BY <1>1, <1>2 DEF SealedInOrder, KnownFrames, TypeOK
<1>5. Counter' /\ OpenedPrefix'
  BY <1>2 DEF Counter, OpenedPrefix
<1>6. DispatchedInOrder' /\ DispatchedBelow'
  BY DEF DispatchedInOrder, DispatchedBelow
<1> QED
  BY <1>1, <1>2, <1>3, <1>4, <1>5, <1>6

(* The steps that only change the state of the connection.                 *)
LEMMA ConnectionRInv ==
  ASSUME RInv, DropFrame \/ RefuseFrame \/ Disconnected \/ UNCHANGED vars
  PROVE  RInv' /\ UNCHANGED <<sealed, opened>>
<1> USE DEF RInv, DropFrame, RefuseFrame, Disconnected, vars, StateAfterFailure
<1>1. UNCHANGED <<use_noise, recv, session, sealed, link, opened, dispatched>>
  OBVIOUS
<1>2. \/ state' = state /\ refused' = refused
      \/ state' = "DISCONNECTED" /\ refused' \in {refused, TRUE}
  OBVIOUS
<1>3. TypeOK'
  <2>1. refused' \in BOOLEAN
    BY <1>2, Zenon DEF TypeOK
  <2>2. state' \in {"DISCONNECTED", "CONNECTING", "READY"}
    BY <1>2 DEF TypeOK
  <2> QED
    BY <1>1, <2>1, <2>2 DEF TypeOK
<1>4. SealedInOrder' /\ KnownFrames' /\ Counter' /\ OpenedPrefix'
      /\ DispatchedInOrder' /\ DispatchedBelow'
  BY <1>1 DEF SealedInOrder, KnownFrames, Counter, OpenedPrefix,
              DispatchedInOrder, DispatchedBelow
<1> QED
  BY <1>1, <1>2, <1>3, <1>4

(* A new connection, with no key yet, keeps it.                            *)
LEMMA ConnectRInv == RInv /\ Connect => RInv'
<1> SUFFICES ASSUME RInv, Connect PROVE RInv'
  OBVIOUS
<1> USE DEF RInv, Connect
<1>1. session \in 0..MaxSessions /\ session' \in 0..MaxSessions /\ session' = session + 1
  BY ReceiveAssumption DEF TypeOK
<1>2. TypeOK'
  <2>1. recv' \in [key : 0..MaxSessions, nonce : 0..MaxNonce]
    BY ReceiveAssumption
  <2>2. /\ sealed' \in Seq(Frames) /\ opened' \in Seq(Frames)
        /\ dispatched' \in Seq(Frames)
    OBVIOUS
  <2> QED
    BY <1>1, <2>1, <2>2 DEF TypeOK
<1>3. KnownFrames'
  BY <1>1 DEF KnownFrames, TypeOK, Frames
<1>4. Counter' /\ SealedInOrder' /\ OpenedPrefix' /\ DispatchedInOrder' /\ DispatchedBelow'
  BY DEF Counter, SealedInOrder, OpenedPrefix, DispatchedInOrder, DispatchedBelow
<1> QED
  BY <1>2, <1>3, <1>4

(* A new session key, which no frame was sealed under, keeps it.           *)
LEMMA EstablishRInv == RInv /\ Establish => RInv' /\ UNCHANGED <<sealed, opened>>
<1> SUFFICES ASSUME RInv, Establish PROVE RInv' /\ UNCHANGED <<sealed, opened>>
  OBVIOUS
<1> USE DEF RInv, Establish
<1>1. TypeOK'
  BY ReceiveAssumption DEF TypeOK
<1>2. Counter' /\ SealedInOrder' /\ KnownFrames'
  BY DEF Counter, SealedInOrder, KnownFrames
<1>3. OpenedPrefix' /\ DispatchedInOrder' /\ DispatchedBelow'
  BY DEF OpenedPrefix, DispatchedInOrder, DispatchedBelow
<1> QED
  BY <1>1, <1>2, <1>3

-----------------------------------------------------------------------------
(* RInv is inductive over any link.                                        *)
THEOREM ReceiveInvariance == Spec => []RInv
<1>1. RInv /\ [Next]_vars => RInv'
  BY OpenRInv, SealRInv, ConnectionRInv, ConnectRInv, EstablishRInv
     DEF Next, HandleNoiseFrame
<1> QED
  BY InitRInv, <1>1, PTL DEF Spec

(* Every reachable state is of the stated shape, over any link.            *)
THEOREM ReceiveTypeCorrect == Spec => []TypeOK
<1>1. RInv => TypeOK
  BY DEF RInv
<1> QED
  BY ReceiveInvariance, <1>1, PTL

(* The application sees the hub's messages in the hub's order, each once.  *)
THEOREM DispatchOrder == Spec => []DispatchedInOrder
<1>1. RInv => DispatchedInOrder
  BY DEF RInv
<1> QED
  BY ReceiveInvariance, <1>1, PTL

(* A session that refused a frame never dispatches another.                *)
THEOREM RefusedForGood == Spec => RefusalIsFinal
<1>1. RInv /\ [Next]_vars => [refused /\ session' = session => dispatched' = dispatched]_vars
  <2> SUFFICES ASSUME RInv, [Next]_vars, refused, session' = session
               PROVE  dispatched' = dispatched
    OBVIOUS
  <2>1. state = "DISCONNECTED"
    BY DEF RInv, TypeOK
  <2>2. session' # session + 1
    BY DEF RInv, TypeOK
  <2> QED
    BY <2>1, <2>2 DEF Next, HandleNoiseFrame, DropFrame, RefuseFrame, OpenFrame,
       Listening, HubSeal, Disconnected, Connect, Establish, vars
<1> QED
  BY ReceiveInvariance, <1>1, PTL DEF Spec, RefusalIsFinal

(* The receiving side implements the secure channel over any link.         *)
THEOREM ReceiveImplementsChannel == Spec => ChannelSpec
<1>1. Init => Channel!Init
  BY DEF Init, Channel!Init
<1>2. RInv /\ [Next]_vars => [Channel!Next]_<<sealed, opened>>
  <2> SUFFICES ASSUME RInv, [Next]_vars PROVE [Channel!Next]_<<sealed, opened>>
    OBVIOUS
  <2>1. ASSUME NEW f \in link \cup {Damaged}, OpenFrame(f)
        PROVE  [Channel!Next]_<<sealed, opened>>
    <3>1. sealed' = sealed
      BY <2>1 DEF OpenFrame
    <3> QED
      BY <2>1, <3>1, OpenRInv DEF Channel!Next, Channel!Receive
  <2>2. ASSUME NEW body \in Bodies, HubSeal(body) PROVE [Channel!Next]_<<sealed, opened>>
    <3>1. opened' = opened
      BY <2>2 DEF HubSeal
    <3> QED
      BY <2>2, <3>1, SealRInv DEF Channel!Next, Channel!Send
  <2>3. CASE DropFrame \/ RefuseFrame \/ Disconnected \/ Establish \/ UNCHANGED vars
    BY <2>3, ConnectionRInv, EstablishRInv
  <2>4. CASE Connect
    BY <2>4 DEF Connect, Channel!Next, Channel!Reset
  <2> QED
    BY <2>1, <2>2, <2>3, <2>4 DEF Next, HandleNoiseFrame
<1> QED
  BY <1>1, <1>2, ReceiveInvariance, PTL DEF Spec, ChannelSpec, Channel!Spec
=============================================================================
