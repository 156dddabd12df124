------------------------------- MODULE HmEvents -------------------------------
(***************************************************************************)
(* ws_event_handler (hivemind.c) around the protocol handlers: what one    *)
(* text frame of the handshake makes the client say to its application     *)
(* (state_cb) and write to the websocket, step by step, while the          *)
(* application sends messages of its own.                                  *)
(*                                                                         *)
(* The handlers are those of HmProtocol; the end of an event, one step     *)
(* there, is taken apart here, in the order of the code.                   *)
(***************************************************************************)
EXTENDS HmProtocol, Sequences

CONSTANTS
  AppSendsAt,     \* where the application sends: subset of SendPoints
  MaxAppFrames    \* bound: frames it sends in one session

SendPoints == {"notify", "ready", "poll"}

ASSUME EventsAssumption == AppSendsAt \subseteq SendPoints /\ MaxAppFrames \in Nat

VARIABLES
  ev,         \* where the handler of the event in hand stands
  old_state,
  told,       \* argument of the last state_cb, "nothing" before the first
  written     \* frames written to the websocket of this session

eventVars == <<ev, old_state, told, written>>
allVars == <<vars, eventVars>>

EventSteps == {"idle", "notify", "reply", "hello", "finish", "ready"}

AppFrames == SelectSeq(written, LAMBDA f : f = "app")

-----------------------------------------------------------------------------
(* What hm_send_bus_message and hm_send_binary ask of the state.           *)
MaySend_OnceOpen == state \notin {"DISCONNECTED", "CONNECTING"}
MaySend == state = "READY"

(* state_cb(s); the application may send from inside the callback, which   *)
(* runs on the websocket task.  A send succeeds in READY only.             *)
StateCb(s, point) ==
  /\ told' = s
  /\ \/ UNCHANGED written
     \/ /\ point \in AppSendsAt /\ MaySend /\ Len(AppFrames) < MaxAppFrames
        /\ written' = Append(written, "app")

(* A websocket send of the handler: its result is not looked at.           *)
WriteFrame(f) == written' \in {written, Append(written, f)}

(* hm_protocol_handle_message; an error ends the event.                    *)
Handle(m) ==
  /\ ev = "idle" /\ Deliver(m)
  /\ old_state' = state
  /\ ev' = IF err' THEN "idle" ELSE "notify"
  /\ UNCHANGED <<told, written>>

(* The application hears of a new state before the reply is sent.          *)
Notify ==
  /\ ev = "notify" /\ ev' = "reply"
  /\ IF state # old_state THEN StateCb(state, "notify")
     ELSE UNCHANGED <<told, written>>
  /\ UNCHANGED <<vars, old_state>>

Reply ==
  /\ ev = "reply" /\ ev' = "hello"
  /\ IF reply # "none" THEN WriteFrame(reply) ELSE UNCHANGED written
  /\ UNCHANGED <<vars, old_state, told>>

(* The encrypted HELLO queued by the Noise handshake.                      *)
SendPending ==
  /\ ev = "hello" /\ ev' = "finish"
  /\ IF pending_bin THEN WriteFrame("HELLO") ELSE UNCHANGED written
  /\ UNCHANGED <<vars, old_state, told>>

(* The queue is freed and the pin kept; a hub has message 1 only if it was *)
(* written.                                                                *)
FinishHandle ==
  /\ ev = "finish"
  /\ ev' = IF state = "READY" /\ old_state # "READY" THEN "ready" ELSE "idle"
  /\ IF HandlerIdle THEN UNCHANGED vars ELSE FinishEvent
  /\ msg1s' # msg1s => \E i \in DOMAIN written : written[i] = "msg1"
  /\ UNCHANGED <<old_state, told, written>>

(* READY is announced again.                                               *)
NotifyReady ==
  /\ ev = "ready" /\ ev' = "idle"
  /\ StateCb("READY", "ready")
  /\ UNCHANGED <<vars, old_state>>

(* WEBSOCKET_EVENT_CONNECTED: state_cb with the state the client is in.    *)
SocketConnected ==
  /\ ev = "idle" /\ session > 0 /\ state \in {"CONNECTING", "DISCONNECTED"}
  /\ StateCb(state, "notify")
  /\ UNCHANGED <<vars, ev, old_state>>

(* notify_state: a state_cb for a state that is new.                       *)
NotifyState_Silent(s) == UNCHANGED told
NotifyState(s) == IF state # s THEN told' = s ELSE UNCHANGED told

Disconnect ==
  /\ ev = "idle" /\ Drop /\ NotifyState("DISCONNECTED")
  /\ UNCHANGED <<ev, old_state, written>>

(* hm_client_connect disconnects a connection it finds.                    *)
Reconnect(newHub) ==
  /\ ev = "idle" /\ Connect(newHub)
  /\ IF session > 0 THEN NotifyState("DISCONNECTED") ELSE UNCHANGED told
  /\ written' = <<>>
  /\ UNCHANGED <<ev, old_state>>

(* A task of the application that polls hm_client_get_state and sends, or  *)
(* one that sends when the websocket task is at rest.                      *)
AppSend ==
  /\ MaySend /\ Len(AppFrames) < MaxAppFrames
  /\ ev = "idle" \/ "poll" \in AppSendsAt
  /\ written' = Append(written, "app")
  /\ UNCHANGED <<vars, ev, old_state, told>>

EventInit ==
  /\ Init /\ ev = "idle" /\ old_state = state
  /\ told = "nothing" /\ written = <<>>

EventNext ==
  \/ \E m \in Messages : Handle(m)
  \/ Notify \/ Reply \/ SendPending \/ FinishHandle \/ NotifyReady
  \/ SocketConnected \/ Disconnect \/ AppSend
  \/ \E newHub \in Hubs : Reconnect(newHub)

EventSpec == EventInit /\ [][EventNext]_allVars

-----------------------------------------------------------------------------
EventTypeOK ==
  /\ TypeOK /\ ev \in EventSteps /\ old_state \in States
  /\ told \in States \cup {"nothing"}
  /\ written \in Seq({"msg1", "msg3", "hsub", "hello", "HELLO", "app"})

(* No frame of a handshake is written after one of the application: the    *)
(* hub would get a message of a session it has not completed, sealed under *)
(* a nonce ahead of the HELLO's.                                           *)
HandshakeFirst ==
  \A i, j \in DOMAIN written : i < j /\ written[i] = "app" => written[j] = "app"

(* hivemind.c: "the encrypted HELLO rides as the first Noise transport     *)
(* message (binary), after Noise message 3 (the text reply)".              *)
HelloRidesFirst ==
  \A i, j \in DOMAIN written :
    i < j /\ written[i] = "app" => written[j] \notin {"msg3", "HELLO"}

(* Whenever the websocket task is at rest the application believes the     *)
(* client READY exactly when it is, whichever way the session went down.   *)
ReadyBelief == ev = "idle" => (told = "READY" <=> state = "READY")
=============================================================================
