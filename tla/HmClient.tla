------------------------------- MODULE HmClient -------------------------------
(***************************************************************************)
(* The life of a connection: hm_client_connect, hm_client_disconnect, the  *)
(* reconnect timer and the connection events of ws_event_handler           *)
(* (hivemind.c), run by three tasks that share hm_client_t without a lock: *)
(* one of the application, the one of esp_timer, the one of the websocket  *)
(* library.  A step is one access to what they share.                      *)
(*                                                                         *)
(* The handshake is one step here (HmProtocol has it): it completes, for   *)
(* what can go wrong in it leaves the client waiting for the hub to close. *)
(* The library dials, reports what happens to the socket and dials again   *)
(* by itself, its default, which hm_client_connect does not change.        *)
(***************************************************************************)
EXTENDS Naturals

CONSTANTS
  ConfigReconnectMs,   \* hm_config_t.reconnect_ms
  MaxHandles,          \* bound: websocket clients ever created
  Scenarios            \* how the client is used, and bounds on what goes wrong

(* serial: what a mutex would give and the code does not, a call or event  *)
(* waits for those of other tasks.  calls: how often the application calls *)
(* connect or disconnect.  drops: connections lost, refused or broken off. *)
(* failures: those inside hm_client_connect.                               *)
ScenarioType == [serial : BOOLEAN, calls : Nat, drops : Nat, failures : Nat]

ASSUME ClientAssumption ==
  /\ ConfigReconnectMs \in Nat /\ MaxHandles \in Nat
  /\ Scenarios \subseteq ScenarioType

Tasks   == {"app", "timer", "ws"}
NULL    == 0
Handles == 1..MaxHandles
Connecting    == {"c_check", "c_init", "c_ws", "c_start"}
Disconnecting == {"d_check", "d_timer", "d_stop", "d_destroy", "d_null", "d_notify"}
Events        == {"e_notify", "e_arm"}
Callers == {"user", "connect", "decrypt"}   \* who called hm_client_disconnect

VARIABLES
  scenario,
  state,        \* protocol.state: DISCONNECTED, CONNECTING or READY
  ws_handle,
  armed,        \* the one-shot reconnect timer is running
  pc, caller,   \* of each task
  created,      \* websocket clients created so far
  live,         \* those not destroyed
  socket,       \* state of each: "idle", "dialing", "up" or "down"
  wanted,       \* the application connected and did not disconnect since
  misused,      \* a destroyed or NULL handle was given to the library
  calls, drops, failures   \* so far

vars == <<scenario, state, ws_handle, armed, pc, caller, created, live, socket, wanted,
          misused, calls, drops, failures>>
rest == <<scenario, created, live, socket, wanted, misused, calls, drops, failures>>
use  == <<scenario, calls>>

Goto(t, l) == pc' = [pc EXCEPT ![t] = l]

(* Task t may begin a call or the handling of an event.                    *)
Free(t) == pc[t] = "idle" /\ (scenario.serial => \A u \in Tasks : pc[u] = "idle")

(* The library is given the handle the client holds at that moment.        *)
Use == misused' = (misused \/ ws_handle \notin live)

ReconnectMs == IF ConfigReconnectMs = 0 THEN 5000 ELSE ConfigReconnectMs

(* start_reconnect_timer.                                                  *)
StartReconnectTimer == armed' = (armed \/ ReconnectMs # 0)

-----------------------------------------------------------------------------
(* hm_client_connect, called by task t.                                    *)

CheckHandle(t) ==
  /\ pc[t] = "c_check"
  /\ IF ws_handle = NULL THEN Goto(t, "c_init") /\ UNCHANGED caller
     ELSE Goto(t, "d_check") /\ caller' = [caller EXCEPT ![t] = "connect"]
  /\ UNCHANGED <<state, ws_handle, armed, rest>>

InitProtocol_Reused(t) ==
  /\ pc[t] = "c_init" /\ Goto(t, "c_ws")
  /\ UNCHANGED <<state, ws_handle, armed, caller, rest>>

InitProtocol(t) ==
  /\ pc[t] = "c_init" /\ Goto(t, "c_ws")
  /\ state' = "CONNECTING"
  /\ UNCHANGED <<ws_handle, armed, caller, rest>>

(* Out of memory, or esp_websocket_client_init failed: nothing is armed.   *)
InitSocket(t) ==
  /\ pc[t] = "c_ws"
  /\ \/ /\ failures < scenario.failures /\ failures' = failures + 1
        /\ Goto(t, "idle")
        /\ ws_handle' \in {ws_handle, NULL}
        /\ UNCHANGED <<created, live>>
     \/ /\ created < MaxHandles /\ created' = created + 1
        /\ ws_handle' = created' /\ live' = live \cup {created'}
        /\ Goto(t, "c_start") /\ UNCHANGED failures
  /\ UNCHANGED <<use, state, armed, caller, socket, wanted, misused, drops>>

(* Registering or starting failed: the handle is destroyed and forgotten.  *)
StartSocket(t) ==
  /\ pc[t] = "c_start" /\ Goto(t, "idle") /\ Use
  /\ \/ /\ failures < scenario.failures /\ failures' = failures + 1
        /\ live' = live \ {ws_handle} /\ ws_handle' = NULL
        /\ UNCHANGED socket
     \/ /\ socket' = [h \in Handles |-> IF h = ws_handle THEN "dialing" ELSE socket[h]]
        /\ UNCHANGED <<live, ws_handle, failures>>
  /\ UNCHANGED <<use, state, armed, caller, created, wanted, drops>>

-----------------------------------------------------------------------------
(* hm_client_disconnect, called by task t.                                 *)

Return_Redials(t) ==
  Goto(t, IF caller[t] = "user" THEN "idle" ELSE "c_init")

Return(t) ==
  Goto(t, CASE caller[t] = "user" -> "idle"
            [] caller[t] = "connect" -> "c_init"
            [] caller[t] = "decrypt" -> "e_arm")

(* Without a handle it returns at once.                                    *)
CheckConnected(t) ==
  /\ pc[t] = "d_check"
  /\ IF ws_handle = NULL THEN Return(t) ELSE Goto(t, "d_timer")
  /\ UNCHANGED <<state, ws_handle, armed, caller, rest>>

StopTimer_LeftRunning(t) ==
  /\ pc[t] = "d_timer" /\ Goto(t, "d_stop")
  /\ UNCHANGED <<state, ws_handle, armed, caller, rest>>

StopTimer(t) ==
  /\ pc[t] = "d_timer" /\ Goto(t, "d_stop")
  /\ armed' = FALSE
  /\ UNCHANGED <<state, ws_handle, caller, rest>>

(* esp_websocket_client_stop waits for the websocket task, unless it is    *)
(* the caller.                                                             *)
StopSocket(t) ==
  /\ pc[t] = "d_stop" /\ (t = "ws" \/ pc["ws"] = "idle")
  /\ Goto(t, "d_destroy") /\ Use
  /\ socket' = [h \in Handles |-> IF h = ws_handle THEN "idle" ELSE socket[h]]
  /\ UNCHANGED <<use, state, ws_handle, armed, caller, created, live, wanted, drops, failures>>

DestroySocket(t) ==
  /\ pc[t] = "d_destroy" /\ Goto(t, "d_null") /\ Use
  /\ live' = live \ {ws_handle}
  /\ UNCHANGED <<use, state, ws_handle, armed, caller, created, socket, wanted, drops, failures>>

ForgetSocket_Kept(t) ==
  /\ pc[t] = "d_null" /\ Goto(t, "d_notify")
  /\ UNCHANGED <<state, ws_handle, armed, caller, rest>>

ForgetSocket(t) ==
  /\ pc[t] = "d_null" /\ Goto(t, "d_notify")
  /\ ws_handle' = NULL
  /\ UNCHANGED <<state, armed, caller, rest>>

NotifyDisconnected(t) ==
  /\ pc[t] = "d_notify" /\ Return(t)
  /\ state' = "DISCONNECTED"
  /\ UNCHANGED <<ws_handle, armed, caller, rest>>

CallStep(t) ==
  \/ CheckHandle(t) \/ InitProtocol(t) \/ InitSocket(t) \/ StartSocket(t)
  \/ CheckConnected(t) \/ StopTimer(t) \/ StopSocket(t) \/ DestroySocket(t)
  \/ ForgetSocket(t) \/ NotifyDisconnected(t)

-----------------------------------------------------------------------------
AppConnect ==
  /\ Free("app") /\ calls < scenario.calls /\ calls' = calls + 1
  /\ Goto("app", "c_check") /\ wanted' = TRUE
  /\ UNCHANGED <<scenario, state, ws_handle, armed, caller, created, live, socket, misused,
                 drops, failures>>

AppDisconnect ==
  /\ Free("app") /\ calls < scenario.calls /\ calls' = calls + 1
  /\ Goto("app", "d_check") /\ wanted' = FALSE
  /\ caller' = [caller EXCEPT !["app"] = "user"]
  /\ UNCHANGED <<scenario, state, ws_handle, armed, created, live, socket, misused,
                 drops, failures>>

(* reconnect_timer_cb.                                                     *)
TimerFires ==
  /\ armed /\ Free("timer")
  /\ armed' = FALSE /\ Goto("timer", "c_check")
  /\ UNCHANGED <<state, ws_handle, caller, rest>>

-----------------------------------------------------------------------------
(* The websocket task of handle h, between two events.                     *)

Socket(h, from, to) ==
  /\ pc["ws"] = "idle" /\ socket[h] \in from
  /\ socket' = [socket EXCEPT ![h] = to]

Opened(h) ==
  /\ Socket(h, {"dialing"}, "up")
  /\ UNCHANGED <<use, state, ws_handle, armed, pc, caller, created, live, wanted,
                 misused, drops, failures>>

(* The hub and the client complete the handshake.                          *)
Handshake(h) ==
  /\ Free("ws") /\ Socket(h, {"up"}, "up") /\ state = "CONNECTING"
  /\ state' = "READY"
  /\ UNCHANGED <<use, ws_handle, armed, pc, caller, created, live, wanted, misused,
                 drops, failures>>

(* The connection is lost, or could not be made.                           *)
Lost(h) ==
  /\ drops < scenario.drops /\ drops' = drops + 1
  /\ Free("ws") /\ Socket(h, {"dialing", "up"}, "down") /\ Goto("ws", "e_notify")
  /\ UNCHANGED <<use, state, ws_handle, armed, caller, created, live, wanted, misused,
                 failures>>

Redial(h) ==
  /\ Socket(h, {"down"}, "dialing")
  /\ UNCHANGED <<use, state, ws_handle, armed, pc, caller, created, live, wanted,
                 misused, drops, failures>>

(* WEBSOCKET_EVENT_DISCONNECTED: notify_state, start_reconnect_timer.      *)
NotifyLost ==
  /\ pc["ws"] = "e_notify" /\ Goto("ws", "e_arm")
  /\ state' = "DISCONNECTED"
  /\ UNCHANGED <<ws_handle, armed, caller, rest>>

ArmTimer ==
  /\ pc["ws"] = "e_arm" /\ Goto("ws", "idle")
  /\ StartReconnectTimer
  /\ UNCHANGED <<state, ws_handle, caller, rest>>

(* handle_noise_frame: a frame that does not decrypt closes the session.   *)
DecryptFails(h) ==
  /\ drops < scenario.drops /\ drops' = drops + 1
  /\ Free("ws") /\ Socket(h, {"up"}, "up") /\ state = "READY"
  /\ Goto("ws", "d_check") /\ caller' = [caller EXCEPT !["ws"] = "decrypt"]
  /\ UNCHANGED <<use, state, ws_handle, armed, created, live, wanted, misused, failures>>

Init ==
  /\ scenario \in Scenarios /\ calls = 0
  /\ state = "CONNECTING" /\ ws_handle = NULL /\ armed = FALSE
  /\ pc = [t \in Tasks |-> "idle"] /\ caller = [t \in Tasks |-> "user"]
  /\ created = 0 /\ live = {} /\ socket = [h \in Handles |-> "idle"]
  /\ wanted = FALSE /\ misused = FALSE /\ drops = 0 /\ failures = 0

Next ==
  \/ \E t \in Tasks : CallStep(t)
  \/ AppConnect \/ AppDisconnect \/ TimerFires \/ NotifyLost \/ ArmTimer
  \/ \E h \in Handles : Opened(h) \/ Handshake(h) \/ Lost(h) \/ Redial(h) \/ DecryptFails(h)

(* The tasks are scheduled, the timer fires, the hub answers who dials.    *)
Fairness ==
  /\ \A t \in Tasks : WF_vars(CallStep(t))
  /\ WF_vars(TimerFires) /\ WF_vars(NotifyLost) /\ WF_vars(ArmTimer)
  /\ \A h \in Handles : WF_vars(Opened(h)) /\ WF_vars(Handshake(h))

Spec == Init /\ [][Next]_vars
FairSpec == Spec /\ Fairness

-----------------------------------------------------------------------------
TypeOK ==
  /\ state \in {"DISCONNECTED", "CONNECTING", "READY"}
  /\ ws_handle \in {NULL} \cup Handles /\ armed \in BOOLEAN
  /\ DOMAIN pc = Tasks /\ caller \in [Tasks -> Callers]
  /\ \A t \in {"app", "timer"} : pc[t] \in {"idle"} \cup Connecting \cup Disconnecting
  /\ pc["ws"] \in {"idle"} \cup Disconnecting \cup Events
  /\ created \in 0..MaxHandles /\ live \subseteq 1..created
  /\ socket \in [Handles -> {"idle", "dialing", "up", "down"}]
  /\ wanted \in BOOLEAN /\ misused \in BOOLEAN
  /\ scenario \in Scenarios /\ calls \in 0..scenario.calls
  /\ drops \in 0..scenario.drops /\ failures \in 0..scenario.failures

(* No handle is used after it was destroyed, none is leaked: the library   *)
(* never holds two clients of ours, as long as no two tasks are inside the *)
(* client at once (hivemind.c:484, 560).                                   *)
HandlesSound == scenario.serial => ~misused /\ \A g, h \in live : g = h

(* README.md: "Auto-reconnect: reconnects after a drop".                   *)
(* The library promises nothing once a dead handle was given to it.        *)
Recovers ==
  (wanted /\ state = "DISCONNECTED") ~> (state = "READY" \/ ~wanted \/ misused)

(* The same where hm_client_connect did not fail, which Recovers does not   *)
(* survive: an application that calls connect once, or connect and         *)
(* disconnect in any order, gets its connection back after every drop.     *)
RecoversUnlessFailed ==
  (wanted /\ state = "DISCONNECTED")
    ~> (state = "READY" \/ ~wanted \/ misused \/ failures > 0)

(* hm_client_disconnect, when it had a connection to close, leaves nothing *)
(* that could bring it back: no timer, no socket (hivemind.c:562-575).     *)
DisconnectIsComplete ==
  [][scenario.serial /\ pc["app"] = "d_notify" /\ pc'["app"] = "idle"
       => state' = "DISCONNECTED" /\ ~armed' /\ live' = {} /\ ws_handle' = NULL]_vars
=============================================================================
