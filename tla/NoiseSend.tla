------------------------------- MODULE NoiseSend -------------------------------
(***************************************************************************)
(* The sending side of a READY session: hm_send_bus_message and            *)
(* hm_send_binary (hivemind.c) down to cs_encrypt (hivemind_noise.c), run  *)
(* step by step by the application's tasks while the websocket and timer   *)
(* tasks end sessions and start new ones.  Nothing in the code is locked,  *)
(* so a step is one access to the state the tasks share; only the 32 bytes *)
(* of a key are taken over at once.                                        *)
(*                                                                         *)
(* The hub is the peer of the Noise specification: it opens a frame under  *)
(* its own counter and closes at the first one that does not open.  The    *)
(* link may lose, repeat and reorder frames and replay those of earlier    *)
(* sessions.                                                               *)
(***************************************************************************)
EXTENDS Naturals, Sequences

CONSTANTS
  Senders,              \* application tasks that send
  MaxNonce,             \* UINT64_MAX, small here
  MaxSessions,          \* bound: sessions of the client
  MaxSends              \* bound: sends of one task

ASSUME SendAssumption ==
  MaxNonce \in Nat \ {0} /\ MaxSessions \in Nat /\ MaxSends \in Nat

ZeroKey == 0    \* a key field after memset; session keys are session numbers

(* A message, with two sessions for the properties to compare: that in     *)
(* which its call began and that in which it was sealed.                   *)
Payloads == [by : Senders, n : 1..MaxSends, begun : 0..MaxSessions, at : 0..MaxSessions]
NoiseFrames  == [key : 0..MaxSessions, nonce : 0..MaxNonce - 1, body : Payloads]
LegacyFrames == [key : 0..MaxSessions, body : Payloads]
NoFrame == [none |-> TRUE]

VARIABLES
  state, use_noise,     \* hm_protocol_ctx_t
  crypto_key,           \* crypto.key
  send,                 \* noise.send: [key, nonce]; finished iff its key is not zero
  pc, kind, loaded, frame, \* locals of each task's call
  sends,                \* calls made by each task
  begun,                \* history: the session in which each call began
  session,              \* sessions established or being established
  overtaken,            \* history: this session began while a send was under way
  sealed,               \* Noise frames sealed in this session, in order
  wire,                 \* every frame ever written to the websocket
  got,                  \* frames the hub opened in this session
  hubOpen               \* the hub has not closed this session

clientVars == <<state, use_noise, crypto_key, send>>
taskVars   == <<pc, kind, loaded, frame, sends, begun>>
hubVars    == <<got, hubOpen>>
vars == <<clientVars, taskVars, session, overtaken, sealed, wire, hubVars>>

PCs == {"idle", "checked", "noise", "legacy", "numbered", "sealed", "loaded", "write"}

-----------------------------------------------------------------------------
(* The steps of a send.                                                    *)

MaySend_Unchecked == TRUE
MaySend == state = "READY"

(* The check every send starts with.                                       *)
Check(s) ==
  /\ pc[s] = "idle" /\ sends[s] < MaxSends /\ MaySend
  /\ pc' = [pc EXCEPT ![s] = "checked"]
  /\ sends' = [sends EXCEPT ![s] = @ + 1]
  /\ begun' = [begun EXCEPT ![s] = session]
  /\ \E k \in {"bus", "binary"} : kind' = [kind EXCEPT ![s] = k]
  /\ UNCHANGED <<clientVars, loaded, frame, session, overtaken, sealed, wire, hubVars>>

Goto(s, l) ==
  /\ pc' = [pc EXCEPT ![s] = l]
  /\ UNCHANGED <<clientVars, kind, loaded, frame, sends, begun, session, overtaken,
                 sealed, wire, hubVars>>

(* An allocation or an encoder failed, or the message does not fit.        *)
Abort(s) == pc[s] \in {"checked", "noise", "legacy"} /\ Goto(s, "idle")

(* Which of the two transports to encrypt for.                             *)
Branch(s) ==
  pc[s] = "checked" /\ Goto(s, IF use_noise THEN "noise" ELSE "legacy")

Payload(s) == [by |-> s, n |-> sends[s], begun |-> begun[s], at |-> session]

(* cs_encrypt refuses the last nonce.                                      *)
NonceLeft_Last == send.nonce <= MaxNonce
NonceLeft == send.nonce < MaxNonce

(* hm_protocol_noise_encrypt_frame and hm_noise_encrypt down to           *)
(* cs_nonce_bytes, which copies the nonce.                                 *)
ReadNonce(s) ==
  /\ pc[s] = "noise" /\ use_noise /\ send.key # ZeroKey /\ NonceLeft
  /\ pc' = [pc EXCEPT ![s] = "numbered"]
  /\ loaded' = [loaded EXCEPT ![s] = send.nonce]
  /\ UNCHANGED <<clientVars, kind, frame, sends, begun, session, overtaken, sealed,
                 wire, hubVars>>

SealRefused(s) ==
  /\ pc[s] = "noise" /\ ~(use_noise /\ send.key # ZeroKey /\ NonceLeft)
  /\ Goto(s, "idle")

(* mbedtls_chachapoly_setkey takes the key that is there by then.          *)
Seal(s) ==
  LET f == [key |-> send.key, nonce |-> loaded[s], body |-> Payload(s)]
  IN /\ pc[s] = "numbered"
     /\ pc' = [pc EXCEPT ![s] = "sealed"]
     /\ frame' = [frame EXCEPT ![s] = f]
     /\ sealed' = IF f.key = session THEN Append(sealed, f) ELSE sealed
     /\ UNCHANGED <<clientVars, kind, loaded, sends, begun, session, overtaken, wire,
                    hubVars>>

(* cs->nonce++ is a load and a store of a counter that wraps around.       *)
After(n) == IF n = MaxNonce THEN 0 ELSE n + 1

LoadNonce(s) ==
  /\ pc[s] = "sealed"
  /\ pc' = [pc EXCEPT ![s] = "loaded"]
  /\ loaded' = [loaded EXCEPT ![s] = send.nonce]
  /\ UNCHANGED <<clientVars, kind, frame, sends, begun, session, overtaken, sealed,
                 wire, hubVars>>

StoreNonce(s) ==
  /\ pc[s] = "loaded"
  /\ pc' = [pc EXCEPT ![s] = "write"]
  /\ send' = [send EXCEPT !.nonce = After(loaded[s])]
  /\ UNCHANGED <<state, use_noise, crypto_key, kind, loaded, frame, sends, begun,
                 session, overtaken, sealed, wire, hubVars>>

(* The legacy transport draws a random nonce.  Only the text path looks at *)
(* the state again (hm_protocol_encrypt_message); nothing looks at the key.*)
LegacySeal(s) ==
  /\ pc[s] = "legacy" /\ (kind[s] = "bus" => state = "READY")
  /\ pc' = [pc EXCEPT ![s] = "write"]
  /\ frame' = [frame EXCEPT ![s] =
       [key |-> crypto_key, body |-> Payload(s)]]
  /\ UNCHANGED <<clientVars, kind, loaded, sends, begun, session, overtaken, sealed,
                 wire, hubVars>>

LegacyRefused(s) ==
  pc[s] = "legacy" /\ kind[s] = "bus" /\ state # "READY" /\ Goto(s, "idle")

(* The nonce of a frame that could not be sent stays used.                 *)
NonceAfterFailure_Rewound(s) ==
  IF frame[s] \in NoiseFrames /\ send.nonce > 0 THEN send.nonce - 1 ELSE send.nonce
NonceAfterFailure(s) == send.nonce

(* esp_websocket_client_send_bin / _text on whatever connection is there;  *)
(* without one the call fails.                                             *)
Write(s) ==
  /\ pc[s] = "write"
  /\ pc' = [pc EXCEPT ![s] = "idle"]
  /\ frame' = [frame EXCEPT ![s] = NoFrame]
  /\ \/ /\ state # "DISCONNECTED"
        /\ wire' = wire \cup {frame[s]} /\ UNCHANGED send
     \/ UNCHANGED wire /\ send' = [send EXCEPT !.nonce = NonceAfterFailure(s)]
  /\ UNCHANGED <<state, use_noise, crypto_key, kind, loaded, sends, begun, session,
                 overtaken, sealed, hubVars>>

SendStep(s) ==
  \/ Check(s) \/ Abort(s) \/ Branch(s) \/ ReadNonce(s) \/ SealRefused(s)
  \/ Seal(s) \/ LoadNonce(s) \/ StoreNonce(s) \/ LegacySeal(s) \/ LegacyRefused(s)
  \/ Write(s)

-----------------------------------------------------------------------------
(* The websocket task and whoever calls hm_client_connect.                 *)

(* WEBSOCKET_EVENT_DISCONNECTED: only the state changes.                   *)
Disconnected ==
  /\ state = "READY" /\ state' = "DISCONNECTED"
  /\ UNCHANGED <<use_noise, crypto_key, send, taskVars, session, overtaken, sealed,
                 wire, hubVars>>

(* hm_client_connect: hm_protocol_init clears the context, whoever is      *)
(* sending.                                                                *)
Connect ==
  /\ session < MaxSessions
  /\ overtaken' = \E s \in Senders : pc[s] # "idle"
  /\ session' = session + 1 /\ state' = "CONNECTING"
  /\ use_noise' = FALSE /\ crypto_key' = ZeroKey
  /\ send' = [key |-> ZeroKey, nonce |-> 0]
  /\ sealed' = <<>> /\ got' = <<>> /\ hubOpen' = FALSE
  /\ UNCHANGED <<taskVars, wire>>

(* A handshake completes: split() and the HELLO under nonce 0, which the   *)
(* hub has received; or the legacy key.  It is one step, as READY comes    *)
(* last: only a call that a reconnect overtook could see it half done.     *)
EstablishNoise ==
  /\ state = "CONNECTING" /\ state' = "READY"
  /\ use_noise' = TRUE /\ send' = [key |-> session, nonce |-> 1]
  /\ hubOpen' = TRUE
  /\ UNCHANGED <<crypto_key, taskVars, session, overtaken, sealed, wire, got>>

EstablishLegacy ==
  /\ state = "CONNECTING" /\ state' = "READY"
  /\ crypto_key' = session
  /\ UNCHANGED <<use_noise, send, taskVars, session, overtaken, sealed, wire, hubVars>>

(* The hub of a Noise session receives any frame the link brings; after    *)
(* the HELLO its counter stands at 1.                                      *)
HubReceive(f) ==
  /\ hubOpen
  /\ IF f \in NoiseFrames /\ f.key = session /\ f.nonce = Len(got) + 1
       THEN got' = Append(got, f) /\ UNCHANGED hubOpen
       ELSE hubOpen' = FALSE /\ UNCHANGED got
  /\ UNCHANGED <<clientVars, taskVars, session, overtaken, sealed, wire>>

Init ==
  /\ state = "CONNECTING" /\ use_noise = FALSE /\ crypto_key = ZeroKey
  /\ send = [key |-> ZeroKey, nonce |-> 0]
  /\ pc = [s \in Senders |-> "idle"] /\ kind = [s \in Senders |-> "bus"]
  /\ loaded = [s \in Senders |-> 0] /\ frame = [s \in Senders |-> NoFrame]
  /\ sends = [s \in Senders |-> 0] /\ begun = [s \in Senders |-> 0]
  /\ session = 0 /\ overtaken = FALSE /\ sealed = <<>> /\ wire = {} /\ got = <<>>
  /\ hubOpen = FALSE

Next ==
  \/ \E s \in Senders : SendStep(s)
  \/ Disconnected \/ Connect
  \/ session > 0 /\ (EstablishNoise \/ EstablishLegacy)
  \/ \E f \in wire : HubReceive(f)

Spec == Init /\ [][Next]_vars

-----------------------------------------------------------------------------
(* Properties.                                                             *)

TypeOK ==
  /\ state \in {"DISCONNECTED", "CONNECTING", "READY"}
  /\ use_noise \in BOOLEAN /\ hubOpen \in BOOLEAN /\ overtaken \in BOOLEAN
  /\ crypto_key \in 0..MaxSessions /\ session \in 0..MaxSessions
  /\ send \in [key : 0..MaxSessions, nonce : 0..MaxNonce]
  /\ pc \in [Senders -> PCs] /\ kind \in [Senders -> {"bus", "binary"}]
  /\ loaded \in [Senders -> 0..MaxNonce]
  /\ frame \in [Senders -> NoiseFrames \cup LegacyFrames \cup {NoFrame}]
  /\ sends \in [Senders -> 0..MaxSends] /\ begun \in [Senders -> 0..MaxSessions]
  /\ sealed \in Seq(NoiseFrames) /\ got \in Seq(NoiseFrames)
  /\ wire \subseteq NoiseFrames \cup LegacyFrames

(* hivemind_noise.h: the nonce of a session is "strictly sequential; never *)
(* reused or rewound", whatever fails between two frames; but for a session*)
(* in whose beginning hm_client_connect cleared the context under a send.  *)
NonceNeverReused ==
  ~overtaken => \A i, j \in DOMAIN sealed : sealed[i].nonce = sealed[j].nonce => i = j

(* hivemind.c:687, 717 and 723: a send looks at the state, at use_noise and*)
(* at the key at three moments, while other tasks send, the connection is  *)
(* lost and hm_client_connect clears the context.  Only a reconnect during *)
(* the call can make it seal under another key than the one the handshake  *)
(* of its session derived (docs/configuration.md:55 knows no exception).   *)
KeyedUnlessOvertaken ==
  \A f \in wire : f.body.begun = f.body.at => f.key = f.body.at /\ f.key # ZeroKey

(* What the hub opens is what was sealed, in order, each once: the sending *)
(* side and its hub implement a secure channel, but for the sessions that  *)
(* began while a send was under way.                                       *)
InChannel(s) == IF overtaken THEN <<>> ELSE s
Channel == INSTANCE SecureChannel
             WITH Frames <- NoiseFrames, sent <- InChannel(sealed), got <- InChannel(got)
ChannelSpec == Channel!Spec
=============================================================================
