----------------------------- MODULE NoiseReceive -----------------------------
(***************************************************************************)
(* The receiving side of a v3 session: the binary branch of                *)
(* ws_event_handler, handle_noise_frame and dispatch_binary_payload        *)
(* (hivemind.c), hm_protocol_noise_decrypt_frame (hivemind_protocol.c) and *)
(* cs_decrypt (hivemind_noise.c), against any link.                        *)
(*                                                                         *)
(* The hub seals frames under its own counter.  The link may lose, repeat, *)
(* reorder and damage them and replay those of earlier sessions.           *)
(***************************************************************************)
EXTENDS Naturals, Sequences

CONSTANTS
  MaxNonce,      \* UINT64_MAX, small here
  MaxSessions,   \* bound: sessions of the client
  MaxSealed      \* bound: frames the hub seals in one session

ASSUME ReceiveAssumption ==
  MaxNonce \in Nat \ {0} /\ MaxSessions \in Nat /\ MaxSealed \in Nat

(* What a frame carries: a message the client dispatches, one it cannot    *)
(* decode or has no callback for, or a marker byte it does not know.       *)
Bodies == {"message", "undecodable", "badmarker"}
Frames == [key : 1..MaxSessions, nonce : 0..MaxSealed - 1, body : Bodies]
Damaged == [damaged |-> TRUE]

VARIABLES
  state, use_noise,   \* hm_protocol_ctx_t
  recv,               \* noise.recv: [key, nonce]; key 0 before split()
  session,
  sealed,             \* frames the hub sealed in this session, in order
  link,               \* every frame any hub ever sent
  opened,             \* frames the client decrypted in this session
  dispatched,         \* those handed to a callback of the application
  refused             \* a frame of this session was refused

vars == <<state, use_noise, recv, session, sealed, link, opened, dispatched, refused>>

-----------------------------------------------------------------------------
(* cs_decrypt: a frame opens under the key and the nonce it was sealed     *)
(* under; the last nonce is never used.                                    *)
Opens_LastNonce(f) == f # Damaged /\ f.key = recv.key /\ f.nonce = recv.nonce
Opens_AnySession(f) == f # Damaged /\ f.nonce = recv.nonce /\ recv.nonce < MaxNonce
Opens_WindowOfTwo(f) ==
  /\ f # Damaged /\ f.key = recv.key /\ recv.nonce < MaxNonce
  /\ f.nonce \in {recv.nonce, recv.nonce + 1}
Opens(f) ==
  f # Damaged /\ f.key = recv.key /\ f.nonce = recv.nonce /\ recv.nonce < MaxNonce

(* A binary frame is only looked at in READY.                              *)
Listening == state = "READY" /\ use_noise

(* malloc fails in handle_noise_frame: the frame is dropped, the session   *)
(* goes on and the counter stays where it was.                             *)
DropFrame == Listening /\ UNCHANGED vars

StateAfterFailure_KeepsGoing == state
StateAfterFailure == "DISCONNECTED"

(* hm_protocol_noise_decrypt_frame fails before the AEAD (short frame, no  *)
(* memory) or in it: the session is closed by hm_client_disconnect.        *)
RefuseFrame ==
  /\ Listening
  /\ state' = StateAfterFailure /\ refused' = TRUE
  /\ UNCHANGED <<use_noise, recv, session, sealed, link, opened, dispatched>>

(* It opens: the counter advances; an unknown marker closes the session    *)
(* all the same, what cannot be decoded is logged and forgotten.           *)
OpenFrame(f) ==
  /\ Listening /\ Opens(f)
  /\ recv' = [recv EXCEPT !.nonce = @ + 1]
  /\ opened' = Append(opened, f)
  /\ dispatched' = IF f.body = "message" THEN Append(dispatched, f) ELSE dispatched
  /\ state' = IF f.body = "badmarker" THEN StateAfterFailure ELSE state
  /\ refused' = (refused \/ f.body = "badmarker")
  /\ UNCHANGED <<use_noise, session, sealed, link>>

HandleNoiseFrame(f) == DropFrame \/ RefuseFrame \/ OpenFrame(f)

-----------------------------------------------------------------------------
(* The hub of a session that both sides completed.                         *)
HubSeal(body) ==
  LET f == [key |-> session, nonce |-> Len(sealed), body |-> body]
  IN /\ use_noise /\ Len(sealed) < MaxSealed
     /\ sealed' = Append(sealed, f) /\ link' = link \cup {f}
     /\ UNCHANGED <<state, use_noise, recv, session, opened, dispatched, refused>>

(* WEBSOCKET_EVENT_DISCONNECTED, or hm_client_disconnect by the user.      *)
Disconnected ==
  /\ state # "DISCONNECTED" /\ state' = "DISCONNECTED"
  /\ UNCHANGED <<use_noise, recv, session, sealed, link, opened, dispatched, refused>>

Connect ==
  /\ session < MaxSessions /\ session' = session + 1
  /\ state' = "CONNECTING" /\ use_noise' = FALSE
  /\ recv' = [key |-> 0, nonce |-> 0]
  /\ sealed' = <<>> /\ opened' = <<>> /\ dispatched' = <<>> /\ refused' = FALSE
  /\ UNCHANGED link

(* split() and the rest of the handshake.                                  *)
Establish ==
  /\ session > 0 /\ state = "CONNECTING" /\ state' = "READY"
  /\ use_noise' = TRUE /\ recv' = [key |-> session, nonce |-> 0]
  /\ UNCHANGED <<session, sealed, link, opened, dispatched, refused>>

Init ==
  /\ state = "CONNECTING" /\ use_noise = FALSE /\ recv = [key |-> 0, nonce |-> 0]
  /\ session = 0 /\ sealed = <<>> /\ link = {} /\ opened = <<>>
  /\ dispatched = <<>> /\ refused = FALSE

Next ==
  \/ \E f \in link \cup {Damaged} : HandleNoiseFrame(f)
  \/ \E body \in Bodies : HubSeal(body)
  \/ Disconnected \/ Connect \/ Establish

Spec == Init /\ [][Next]_vars

-----------------------------------------------------------------------------
TypeOK ==
  /\ state \in {"DISCONNECTED", "CONNECTING", "READY"} /\ use_noise \in BOOLEAN
  /\ recv \in [key : 0..MaxSessions, nonce : 0..MaxNonce]
  /\ session \in 0..MaxSessions
  /\ sealed \in Seq(Frames) /\ link \subseteq Frames
  /\ opened \in Seq(Frames) /\ dispatched \in Seq(Frames) /\ refused \in BOOLEAN

(* hm_noise_decrypt: "tampering, replay, or reordering; fatal for the      *)
(* session".  What the client opens is a prefix of what the hub of this    *)
(* session sealed.                                                         *)
Channel == INSTANCE SecureChannel WITH sent <- sealed, got <- opened
ChannelSpec == Channel!Spec

(* The application sees the hub's messages in the hub's order, each once.  *)
DispatchedInOrder ==
  \A i, j \in DOMAIN dispatched :
    /\ dispatched[i].key = session
    /\ i < j => dispatched[i].nonce < dispatched[j].nonce

(* A session that refused a frame never dispatches another one, not even   *)
(* the genuine frame the refused one stood in for.                         *)
RefusalIsFinal ==
  [][refused /\ session' = session => dispatched' = dispatched]_vars
=============================================================================
