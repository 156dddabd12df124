---------------------------- MODULE HmClientProofs ----------------------------
(***************************************************************************)
(* Proofs about HmClient: its types, whatever tasks are inside the client  *)
(* at once, and, as long as only one is, that no dead handle is used, none *)
(* leaks and a disconnect leaves nothing behind.  The strengthening says   *)
(* what a call knows of ws_handle, of the library's clients and of the     *)
(* timer at each of its steps.                                             *)
(***************************************************************************)
EXTENDS HmClient, TLAPS

(* The steps of a call that knows there is no websocket client, that there *)
(* is one, and that the timer is stopped.                                  *)
Empty   == {"c_init", "c_ws", "d_notify"}
Held    == {"c_start", "d_timer", "d_stop", "d_destroy"}
Stopped == {"d_stop", "d_destroy", "d_null", "d_notify"}

(* Who disconnects on the websocket task came from a frame it could not    *)
(* decrypt; nobody else did.                                               *)
CallersKnown ==
  /\ \A t \in {"app", "timer"} : caller[t] \in {"user", "connect"}
  /\ pc["ws"] \in Disconnecting => caller["ws"] = "decrypt"

(* One task at a time inside the client.                                   *)
OneInside == \A t, u \in Tasks : pc[t] # "idle" /\ pc[u] # "idle" => t = u

(* ws_handle is the one client the library has, except between its         *)
(* destruction and the assignment of NULL.                                 *)
HandleIsLive ==
  /\ (\A t \in Tasks : pc[t] # "d_null") => live = {ws_handle} \ {NULL}
  /\ \A t \in Tasks : /\ pc[t] = "d_null" => live = {}
                      /\ pc[t] \in Empty => ws_handle = NULL
                      /\ pc[t] \in Held => ws_handle # NULL

(* A call that stopped the timer finds it stopped until it returns.        *)
TimerStays == \A t \in Tasks : pc[t] \in Stopped => ~armed

SerialInv ==
  scenario.serial => OneInside /\ HandleIsLive /\ TimerStays /\ ~misused

CInv == TypeOK /\ CallersKnown /\ SerialInv

-----------------------------------------------------------------------------
(* The invariant holds at first.                                           *)
LEMMA InitCInv == Init => CInv
<1> SUFFICES ASSUME Init PROVE CInv
  OBVIOUS
<1>1. scenario.calls \in Nat /\ scenario.drops \in Nat /\ scenario.failures \in Nat
  BY ClientAssumption DEF Init, ScenarioType
<1>2. TypeOK
  <2>1. calls \in 0..scenario.calls /\ drops \in 0..scenario.drops
        /\ failures \in 0..scenario.failures /\ created \in 0..MaxHandles
    BY <1>1, ClientAssumption DEF Init
  <2>2. socket \in [Handles -> {"idle", "dialing", "up", "down"}]
        /\ ws_handle \in {NULL} \cup Handles /\ live \subseteq 1..created
    BY DEF Init, NULL
  <2>3. DOMAIN pc = Tasks /\ caller \in [Tasks -> Callers] /\ \A t \in Tasks : pc[t] = "idle"
    BY DEF Init, Callers
  <2> QED
    BY <2>1, <2>2, <2>3 DEF Init, TypeOK, Tasks
<1>3. CallersKnown
  BY DEF Init, CallersKnown, Disconnecting, Tasks
<1>4. SerialInv
  BY DEF Init, SerialInv, OneInside, HandleIsLive, TimerStays, Empty, Held, Stopped, NULL
<1> QED
  BY <1>2, <1>3, <1>4 DEF CInv

(* The bounds of a scenario are numbers.                                   *)
LEMMA BoundsKnown ==
  ASSUME TypeOK
  PROVE  scenario.calls \in Nat /\ scenario.drops \in Nat /\ scenario.failures \in Nat
BY ClientAssumption DEF TypeOK, ScenarioType

(* A step that changes none of the variables preserves it.                 *)
LEMMA StutterCInv == CInv /\ UNCHANGED vars => CInv'
BY DEF CInv, vars, TypeOK, CallersKnown, SerialInv, OneInside, HandleIsLive, TimerStays

(* hm_client_connect looks for a connection to close.                      *)
LEMMA CheckHandleCInv ==
  ASSUME CInv, NEW t \in Tasks, CheckHandle(t)
  PROVE  CInv'
<1> USE DEF CInv, CheckHandle, Goto, rest, Tasks, Callers, NULL
<1>1. TypeOK'
  BY DEF TypeOK, Connecting, Disconnecting, Events
<1>2. CallersKnown'
  BY DEF TypeOK, CallersKnown, Connecting, Disconnecting, Events
<1>3. SerialInv'
  BY DEF TypeOK, SerialInv, OneInside, HandleIsLive, TimerStays, Empty, Held, Stopped
<1> QED
  BY <1>1, <1>2, <1>3

(* The protocol is reset.                                                  *)
LEMMA InitProtocolCInv ==
  ASSUME CInv, NEW t \in Tasks, InitProtocol(t)
  PROVE  CInv'
<1> USE DEF CInv, InitProtocol, Goto, rest, Tasks, Callers, NULL
<1>1. TypeOK'
  BY DEF TypeOK, Connecting, Disconnecting, Events
<1>2. CallersKnown'
  BY DEF TypeOK, CallersKnown, Connecting, Disconnecting, Events
<1>3. SerialInv'
  BY DEF TypeOK, SerialInv, OneInside, HandleIsLive, TimerStays, Empty, Held, Stopped
<1> QED
  BY <1>1, <1>2, <1>3

(* A websocket client is created, or cannot be.                            *)
LEMMA InitSocketCInv ==
  ASSUME CInv, NEW t \in Tasks, InitSocket(t)
  PROVE  CInv'
<1> USE DEF CInv, InitSocket, Goto, rest, Tasks, Callers, NULL, use, Handles
<1>1. TypeOK'
  <2>1. failures' \in 0..scenario.failures
    BY BoundsKnown DEF TypeOK
  <2>2. created' \in 0..MaxHandles /\ live' \subseteq 1..created'
        /\ ws_handle' \in {NULL} \cup Handles
    <3>1. created \in 0..MaxHandles /\ live \subseteq 1..created /\ ws_handle \in 0..MaxHandles
          /\ MaxHandles \in Nat
      BY ClientAssumption DEF TypeOK
    <3>2. CASE created' = created /\ live' = live /\ ws_handle' \in {ws_handle, NULL}
      BY <3>1, <3>2
    <3>3. CASE /\ created < MaxHandles /\ created' = created + 1
               /\ live' = live \cup {created'} /\ ws_handle' = created'
      BY <3>1, <3>3
    <3> QED
      BY <3>2, <3>3
  <2>3. t # "ws" /\ DOMAIN pc' = Tasks /\ pc'[t] \in {"idle", "c_start"}
        /\ \A u \in Tasks : u # t => pc'[u] = pc[u]
    BY DEF TypeOK, Disconnecting, Events
  <2> QED
    BY <2>1, <2>2, <2>3 DEF TypeOK, Connecting
<1>2. CallersKnown'
  BY DEF TypeOK, CallersKnown, Connecting, Disconnecting, Events
<1>3. SerialInv'
  BY DEF TypeOK, SerialInv, OneInside, HandleIsLive, TimerStays, Empty, Held, Stopped
<1> QED
  BY <1>1, <1>2, <1>3

(* It is started, or destroyed again.                                      *)
LEMMA StartSocketCInv ==
  ASSUME CInv, NEW t \in Tasks, StartSocket(t)
  PROVE  CInv'
<1> USE DEF CInv, StartSocket, Goto, rest, Tasks, Callers, NULL, use, Use, Handles
<1>1. TypeOK'
  <2>1. failures' \in 0..scenario.failures
    BY BoundsKnown DEF TypeOK
  <2>2. ws_handle' \in {NULL} \cup Handles /\ live' \subseteq 1..created
        /\ socket' \in [Handles -> {"idle", "dialing", "up", "down"}] /\ misused' \in BOOLEAN
    BY DEF TypeOK
  <2>3. DOMAIN pc' = Tasks /\ pc'[t] = "idle" /\ \A u \in Tasks : u # t => pc'[u] = pc[u]
    BY DEF TypeOK
  <2> QED
    BY <2>1, <2>2, <2>3 DEF TypeOK
<1>2. CallersKnown'
  BY DEF TypeOK, CallersKnown, Connecting, Disconnecting, Events
<1>3. SerialInv'
  BY DEF TypeOK, SerialInv, OneInside, HandleIsLive, TimerStays, Empty, Held, Stopped
<1> QED
  BY <1>1, <1>2, <1>3

(* hm_client_disconnect looks for a connection.                            *)
LEMMA CheckConnectedCInv ==
  ASSUME CInv, NEW t \in Tasks, CheckConnected(t)
  PROVE  CInv'
<1> USE DEF CInv, CheckConnected, Goto, rest, Tasks, Callers, NULL, Return
<1>1. TypeOK'
  <2>1. DOMAIN pc' = Tasks /\ \A u \in Tasks : u # t => pc'[u] = pc[u]
    BY DEF TypeOK
  <2>2. CASE t = "ws"
    <3>1. pc'[t] \in {"d_timer", "e_arm"}
      BY <2>2 DEF TypeOK, CallersKnown, Disconnecting
    <3> QED
      BY <2>1, <2>2, <3>1 DEF TypeOK, Events, Disconnecting
  <2>3. CASE t # "ws"
    <3>1. pc'[t] \in {"idle", "d_timer", "c_init"}
      BY <2>3 DEF TypeOK, CallersKnown
    <3> QED
      BY <2>1, <2>3, <3>1 DEF TypeOK, Connecting, Disconnecting
  <2> QED
    BY <2>2, <2>3
<1>2. CallersKnown'
  BY DEF TypeOK, CallersKnown, Connecting, Disconnecting, Events
<1>3. SerialInv'
  BY DEF TypeOK, SerialInv, OneInside, HandleIsLive, TimerStays, Empty, Held, Stopped
<1> QED
  BY <1>1, <1>2, <1>3

(* The reconnect timer is stopped.                                         *)
LEMMA StopTimerCInv ==
  ASSUME CInv, NEW t \in Tasks, StopTimer(t)
  PROVE  CInv'
<1> USE DEF CInv, StopTimer, Goto, rest, Tasks, Callers, NULL
<1>1. TypeOK'
  BY DEF TypeOK, Connecting, Disconnecting, Events
<1>2. CallersKnown'
  BY DEF TypeOK, CallersKnown, Connecting, Disconnecting, Events
<1>3. SerialInv'
  BY DEF TypeOK, SerialInv, OneInside, HandleIsLive, TimerStays, Empty, Held, Stopped
<1> QED
  BY <1>1, <1>2, <1>3

(* The websocket client is stopped.                                        *)
LEMMA StopSocketCInv ==
  ASSUME CInv, NEW t \in Tasks, StopSocket(t)
  PROVE  CInv'
<1> USE DEF CInv, StopSocket, Goto, rest, Tasks, Callers, NULL, use, Use, Handles
<1>1. TypeOK'
  BY DEF TypeOK, Connecting, Disconnecting, Events
<1>2. CallersKnown'
  BY DEF TypeOK, CallersKnown, Connecting, Disconnecting, Events
<1>3. SerialInv'
  BY DEF TypeOK, SerialInv, OneInside, HandleIsLive, TimerStays, Empty, Held, Stopped
<1> QED
  BY <1>1, <1>2, <1>3

(* It is destroyed.                                                        *)
LEMMA DestroySocketCInv ==
  ASSUME CInv, NEW t \in Tasks, DestroySocket(t)
  PROVE  CInv'
<1> USE DEF CInv, DestroySocket, Goto, rest, Tasks, Callers, NULL, use, Use, Handles
<1>1. TypeOK'
  BY DEF TypeOK, Connecting, Disconnecting, Events
<1>2. CallersKnown'
  BY DEF TypeOK, CallersKnown, Connecting, Disconnecting, Events
<1>3. SerialInv'
  BY DEF TypeOK, SerialInv, OneInside, HandleIsLive, TimerStays, Empty, Held, Stopped
<1> QED
  BY <1>1, <1>2, <1>3

(* The handle is forgotten.                                                *)
LEMMA ForgetSocketCInv ==
  ASSUME CInv, NEW t \in Tasks, ForgetSocket(t)
  PROVE  CInv'
<1> USE DEF CInv, ForgetSocket, Goto, rest, Tasks, Callers, NULL
<1>1. TypeOK'
  BY DEF TypeOK, Connecting, Disconnecting, Events
<1>2. CallersKnown'
  BY DEF TypeOK, CallersKnown, Connecting, Disconnecting, Events
<1>3. SerialInv'
  BY DEF TypeOK, SerialInv, OneInside, HandleIsLive, TimerStays, Empty, Held, Stopped
<1> QED
  BY <1>1, <1>2, <1>3

(* The application is told; the call returns to its caller.                *)
LEMMA NotifyDisconnectedCInv ==
  ASSUME CInv, NEW t \in Tasks, NotifyDisconnected(t)
  PROVE  CInv'
<1> USE DEF CInv, NotifyDisconnected, Goto, rest, Tasks, Callers, NULL, Return
<1>1. TypeOK'
  <2>1. DOMAIN pc' = Tasks /\ \A u \in Tasks : u # t => pc'[u] = pc[u]
    BY DEF TypeOK
  <2>2. CASE t = "ws"
    <3>1. pc'[t] \in {"e_arm"}
      BY <2>2 DEF TypeOK, CallersKnown, Disconnecting
    <3> QED
      BY <2>1, <2>2, <3>1 DEF TypeOK, Events, Disconnecting
  <2>3. CASE t # "ws"
    <3>1. pc'[t] \in {"idle", "c_init"}
      BY <2>3 DEF TypeOK, CallersKnown
    <3> QED
      BY <2>1, <2>3, <3>1 DEF TypeOK, Connecting, Disconnecting
  <2> QED
    BY <2>2, <2>3
<1>2. CallersKnown'
  BY DEF TypeOK, CallersKnown, Connecting, Disconnecting, Events
<1>3. SerialInv'
  BY DEF TypeOK, SerialInv, OneInside, HandleIsLive, TimerStays, Empty, Held, Stopped
<1> QED
  BY <1>1, <1>2, <1>3

(* The application connects.                                               *)
LEMMA AppConnectCInv ==
  ASSUME CInv, AppConnect
  PROVE  CInv'
<1> USE DEF CInv, AppConnect, Goto, rest, Tasks, Callers, NULL, Free
<1>1. TypeOK'
  <2>1. calls' \in 0..scenario.calls
    BY BoundsKnown DEF TypeOK
  <2> QED
    BY <2>1 DEF TypeOK, Connecting, Disconnecting, Events
<1>2. CallersKnown'
  BY DEF TypeOK, CallersKnown, Connecting, Disconnecting, Events
<1>3. SerialInv'
  BY DEF TypeOK, SerialInv, OneInside, HandleIsLive, TimerStays, Empty, Held, Stopped
<1> QED
  BY <1>1, <1>2, <1>3

(* The application disconnects.                                            *)
LEMMA AppDisconnectCInv ==
  ASSUME CInv, AppDisconnect
  PROVE  CInv'
<1> USE DEF CInv, AppDisconnect, Goto, rest, Tasks, Callers, NULL, Free
<1>1. TypeOK'
  <2>1. calls' \in 0..scenario.calls
    BY BoundsKnown DEF TypeOK
  <2> QED
    BY <2>1 DEF TypeOK, Connecting, Disconnecting, Events
<1>2. CallersKnown'
  BY DEF TypeOK, CallersKnown, Connecting, Disconnecting, Events
<1>3. SerialInv'
  BY DEF TypeOK, SerialInv, OneInside, HandleIsLive, TimerStays, Empty, Held, Stopped
<1> QED
  BY <1>1, <1>2, <1>3

(* The reconnect timer fires.                                              *)
LEMMA TimerFiresCInv ==
  ASSUME CInv, TimerFires
  PROVE  CInv'
<1> USE DEF CInv, TimerFires, Goto, rest, Tasks, Callers, NULL, Free
<1>1. TypeOK'
  BY DEF TypeOK, Connecting, Disconnecting, Events
<1>2. CallersKnown'
  BY DEF TypeOK, CallersKnown, Connecting, Disconnecting, Events
<1>3. SerialInv'
  BY DEF TypeOK, SerialInv, OneInside, HandleIsLive, TimerStays, Empty, Held, Stopped
<1> QED
  BY <1>1, <1>2, <1>3

(* A lost connection is announced.                                         *)
LEMMA NotifyLostCInv ==
  ASSUME CInv, NotifyLost
  PROVE  CInv'
<1> USE DEF CInv, NotifyLost, Goto, rest, Tasks, Callers, NULL
<1>1. TypeOK'
  BY DEF TypeOK, Connecting, Disconnecting, Events
<1>2. CallersKnown'
  BY DEF TypeOK, CallersKnown, Connecting, Disconnecting, Events
<1>3. SerialInv'
  BY DEF TypeOK, SerialInv, OneInside, HandleIsLive, TimerStays, Empty, Held, Stopped
<1> QED
  BY <1>1, <1>2, <1>3

(* The timer is armed.                                                     *)
LEMMA ArmTimerCInv ==
  ASSUME CInv, ArmTimer
  PROVE  CInv'
<1> USE DEF CInv, ArmTimer, Goto, rest, Tasks, Callers, NULL, StartReconnectTimer
<1>1. TypeOK'
  BY DEF TypeOK, Connecting, Disconnecting, Events
<1>2. CallersKnown'
  BY DEF TypeOK, CallersKnown, Connecting, Disconnecting, Events
<1>3. SerialInv'
  BY DEF TypeOK, SerialInv, OneInside, HandleIsLive, TimerStays, Empty, Held, Stopped
<1> QED
  BY <1>1, <1>2, <1>3

(* A dialled connection is open.                                           *)
LEMMA OpenedCInv ==
  ASSUME CInv, NEW h \in Handles, Opened(h)
  PROVE  CInv'
<1> USE DEF CInv, Opened, Goto, rest, Tasks, Callers, NULL, use, Handles, Socket
<1>1. TypeOK'
  BY DEF TypeOK, Connecting, Disconnecting, Events
<1>2. CallersKnown'
  BY DEF TypeOK, CallersKnown, Connecting, Disconnecting, Events
<1>3. SerialInv'
  BY DEF TypeOK, SerialInv, OneInside, HandleIsLive, TimerStays, Empty, Held, Stopped
<1> QED
  BY <1>1, <1>2, <1>3

(* The handshake completes.                                                *)
LEMMA HandshakeCInv ==
  ASSUME CInv, NEW h \in Handles, Handshake(h)
  PROVE  CInv'
<1> USE DEF CInv, Handshake, Goto, rest, Tasks, Callers, NULL, use, Handles, Socket, Free
<1>1. TypeOK'
  BY DEF TypeOK, Connecting, Disconnecting, Events
<1>2. CallersKnown'
  BY DEF TypeOK, CallersKnown, Connecting, Disconnecting, Events
<1>3. SerialInv'
  BY DEF TypeOK, SerialInv, OneInside, HandleIsLive, TimerStays, Empty, Held, Stopped
<1> QED
  BY <1>1, <1>2, <1>3

(* A connection is lost.                                                   *)
LEMMA LostCInv ==
  ASSUME CInv, NEW h \in Handles, Lost(h)
  PROVE  CInv'
<1> USE DEF CInv, Lost, Goto, rest, Tasks, Callers, NULL, use, Handles, Socket, Free
<1>1. TypeOK'
  <2>1. drops' \in 0..scenario.drops
    BY BoundsKnown DEF TypeOK
  <2> QED
    BY <2>1 DEF TypeOK, Connecting, Disconnecting, Events
<1>2. CallersKnown'
  BY DEF TypeOK, CallersKnown, Connecting, Disconnecting, Events
<1>3. SerialInv'
  BY DEF TypeOK, SerialInv, OneInside, HandleIsLive, TimerStays, Empty, Held, Stopped
<1> QED
  BY <1>1, <1>2, <1>3

(* The library dials again.                                                *)
LEMMA RedialCInv ==
  ASSUME CInv, NEW h \in Handles, Redial(h)
  PROVE  CInv'
<1> USE DEF CInv, Redial, Goto, rest, Tasks, Callers, NULL, use, Handles, Socket
<1>1. TypeOK'
  BY DEF TypeOK, Connecting, Disconnecting, Events
<1>2. CallersKnown'
  BY DEF TypeOK, CallersKnown, Connecting, Disconnecting, Events
<1>3. SerialInv'
  BY DEF TypeOK, SerialInv, OneInside, HandleIsLive, TimerStays, Empty, Held, Stopped
<1> QED
  BY <1>1, <1>2, <1>3

(* A frame does not decrypt: the websocket task disconnects.               *)
LEMMA DecryptFailsCInv ==
  ASSUME CInv, NEW h \in Handles, DecryptFails(h)
  PROVE  CInv'
<1> USE DEF CInv, DecryptFails, Goto, rest, Tasks, Callers, NULL, use, Handles, Socket, Free
<1>1. TypeOK'
  <2>1. drops' \in 0..scenario.drops
    BY BoundsKnown DEF TypeOK
  <2> QED
    BY <2>1 DEF TypeOK, Connecting, Disconnecting, Events
<1>2. CallersKnown'
  BY DEF TypeOK, CallersKnown, Connecting, Disconnecting, Events
<1>3. SerialInv'
  BY DEF TypeOK, SerialInv, OneInside, HandleIsLive, TimerStays, Empty, Held, Stopped
<1> QED
  BY <1>1, <1>2, <1>3

-----------------------------------------------------------------------------
(* CInv is inductive, whatever the tasks do.                               *)
LEMMA NextCInv == CInv /\ [Next]_vars => CInv'
BY StutterCInv, CheckHandleCInv, InitProtocolCInv, InitSocketCInv, StartSocketCInv,
   CheckConnectedCInv, StopTimerCInv, StopSocketCInv, DestroySocketCInv,
   ForgetSocketCInv, NotifyDisconnectedCInv, AppConnectCInv, AppDisconnectCInv,
   TimerFiresCInv, NotifyLostCInv, ArmTimerCInv, OpenedCInv, HandshakeCInv, LostCInv,
   RedialCInv, DecryptFailsCInv
   DEF Next, CallStep

(* It holds in every reachable state.                                      *)
THEOREM ClientInvariance == Spec => []CInv
BY InitCInv, NextCInv, PTL DEF Spec

(* Every reachable state of the client is of the stated shape, also while  *)
(* three tasks are inside it.                                              *)
THEOREM ClientTypeCorrect == Spec => []TypeOK
<1>1. CInv => TypeOK
  BY DEF CInv
<1> QED
  BY ClientInvariance, <1>1, PTL

(* With one task at a time inside the client no handle is used after it    *)
(* was destroyed and none is leaked, however often connects fail.          *)
THEOREM HandlesAreSound == Spec => []HandlesSound
<1>1. CInv => HandlesSound
  <2> SUFFICES ASSUME CInv, scenario.serial
               PROVE  ~misused /\ \A g, h \in live : g = h
    BY DEF HandlesSound
  <2>1. HandleIsLive /\ ~misused
    BY DEF CInv, SerialInv
  <2>2. live \subseteq {ws_handle}
    BY <2>1 DEF HandleIsLive
  <2> QED
    BY <2>1, <2>2
<1> QED
  BY ClientInvariance, <1>1, PTL

(* A disconnect by the application leaves no timer, no socket and no       *)
(* handle, when no other task is inside the client.                        *)
THEOREM CompleteDisconnect == Spec => DisconnectIsComplete
<1> DEFINE Returns == scenario.serial /\ pc["app"] = "d_notify" /\ pc'["app"] = "idle"
           Quiet == state' = "DISCONNECTED" /\ ~armed' /\ live' = {} /\ ws_handle' = NULL
<1>1. CInv /\ [Next]_vars => [Returns => Quiet]_vars
  <2> SUFFICES ASSUME CInv, Next, Returns PROVE Quiet
    BY DEF vars
  <2>1. "app" \in Tasks /\ \A u \in Tasks : u # "app" => pc[u] = "idle"
    BY DEF CInv, SerialInv, OneInside, Tasks
  <2>2. ~armed /\ live = {} /\ ws_handle = NULL
    BY <2>1 DEF CInv, SerialInv, HandleIsLive, TimerStays, Stopped, Empty
  <2>3. NotifyDisconnected("app")
    <3>1. ASSUME NEW t \in Tasks, CallStep(t) PROVE t = "app"
      BY <2>1, <3>1 DEF CallStep, CheckHandle, InitProtocol, InitSocket, StartSocket,
         CheckConnected, StopTimer, StopSocket, DestroySocket, ForgetSocket, NotifyDisconnected
    <3>2. CallStep("app") => NotifyDisconnected("app")
      BY DEF CallStep, CheckHandle, InitProtocol, InitSocket, StartSocket,
         CheckConnected, StopTimer, StopSocket, DestroySocket, ForgetSocket
    <3>3. ~(\E t \in Tasks : CallStep(t)) => pc'["app"] = pc["app"]
      BY <2>1 DEF Next, AppConnect, AppDisconnect, TimerFires, NotifyLost, ArmTimer, Opened,
         Handshake, Lost, Redial, DecryptFails, Free, Goto, Tasks
    <3> QED
      BY <3>1, <3>2, <3>3
  <2> QED
    BY <2>2, <2>3 DEF NotifyDisconnected, rest
<1> QED
  BY ClientInvariance, <1>1, PTL DEF Spec, DisconnectIsComplete
=============================================================================
