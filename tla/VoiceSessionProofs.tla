-------------------------- MODULE VoiceSessionProofs --------------------------
(***************************************************************************)
(* What the two tasks of the Voice PE satellite keep true of the recording *)
(* buffer, proved for every chunk size and every buffer length.            *)
(***************************************************************************)
EXTENDS VoiceSession, TLAPS

(* From the check of the bound to the store of the new count there is room *)
(* for what is copied, although the other tasks may reset the count: they  *)
(* only make it smaller, and the value loaded was checked.                 *)
RoomToCopy ==
  /\ pc["listen"] = "copy"  => s_rec_count + to_copy <= RecMax
  /\ pc["listen"] = "store" => count + to_copy <= RecMax /\ s_rec_count <= count

(* The silence that ends a session is reached inside a frame only.         *)
SilenceInFrame ==
  silence = MaxSilence =>
    mode.listen = "vad" /\ pc["listen"] \in InFrame

(* The listening task calls stt_session_start in a frame, with no silence. *)
Returns ==
  pc["listen"] \in Session => silence < MaxSilence

(* The listening task has places of its own.                               *)
Places == pc["listen"] # "sync" /\ ret["listen"] # "sync"

IInv == TypeOK /\ InBuffer /\ RoomToCopy /\ SilenceInFrame /\ Returns /\ Places

-----------------------------------------------------------------------------
(* The sizes, without the modes.                                           *)
LEMMA Sizes ==
  Chunk \in Nat \ {0} /\ FetchChunk \in Nat \ {0} /\ RecMax \in Nat
  /\ MaxSilence \in Nat \ {0}
BY VoiceAssumption

(* Room never promises more than the buffer has left.                      *)
LEMMA RoomFits ==
  ASSUME NEW n \in Nat, n <= RecMax
  PROVE  Room(n) \in Nat /\ n + Room(n) <= RecMax
BY Sizes DEF Room, MinOf

(* A smaller count leaves the more room.                                   *)
LEMMA SmallerSum ==
  ASSUME NEW a \in Nat, NEW b \in Nat, NEW c \in Nat, c <= a, a + b <= RecMax
  PROVE  c + b <= RecMax
BY Sizes

(* The invariant holds at first.                                           *)
LEMMA InitHolds == Init => IInv
<1> SUFFICES ASSUME Init PROVE IInv OBVIOUS
<1>1. FlagsOK BY DEF Init, FlagsOK
<1>2. CountsOK /\ PlacesOK BY <1>1, Sizes DEF Init, CountsOK, PlacesOK, Tasks, Session
<1>3. InBuffer BY Sizes DEF Init, InBuffer
<1>4. RoomToCopy /\ SilenceInFrame /\ Returns /\ Places
  BY Sizes DEF Init, RoomToCopy, SilenceInFrame, Returns, Places, Tasks
<1> QED BY <1>1, <1>2, <1>3, <1>4 DEF IInv, TypeOK

(* Whatever leaves the frame in hand and the sizes alone, but for a count  *)
(* that is reset, keeps the invariant if the listening task stays where it *)
(* is, or moves within a session call or from one back to its frame.       *)
LEMMA Undisturbed ==
  ASSUME IInv, TypeOK',
         UNCHANGED <<mode, to_copy, count, top, silence>>,
         (s_rec_count' = 0 \/ s_rec_count' = s_rec_count),
         Places',
         \/ pc'["listen"] = pc["listen"]
         \/ pc["listen"] \in Session /\ pc'["listen"] \in Session \cup {"audio"}
  PROVE  IInv'
<1> USE DEF IInv, TypeOK
<1>1. InBuffer' BY Sizes DEF InBuffer
<1>2. RoomToCopy'
  <2>1. pc'["listen"] \in {"copy", "store"} => pc'["listen"] = pc["listen"]
    BY DEF Session
  <2>2. s_rec_count \in Nat /\ to_copy \in Nat /\ count \in Nat BY DEF CountsOK
  <2>3. CASE s_rec_count' = s_rec_count BY <2>1, <2>3 DEF RoomToCopy
  <2>4. CASE s_rec_count' = 0
    <3>1. 0 <= s_rec_count /\ 0 <= count BY <2>2
    <3> QED BY <2>1, <2>2, <2>4, <3>1, Sizes, SmallerSum DEF RoomToCopy
  <2> QED BY <2>3, <2>4
<1>3. SilenceInFrame' BY Sizes DEF SilenceInFrame, Returns, CountsOK
<1>4. Returns' BY DEF Returns, Session
<1> QED BY <1>1, <1>2, <1>3, <1>4

(* Starting and stopping a session, by either task.                        *)
LEMMA SessionStepHolds ==
  ASSUME IInv, NEW t \in Tasks, SessionStep(t)
  PROVE  IInv'
<1> USE DEF IInv, TypeOK, Goto, Return, world, shared, local
<1>1. FlagsOK'
  BY DEF FlagsOK, SessionStep, SessionStart, OpenSession, SessionStop,
         CloseSession, SubmitSttRecording, SttAnswered, DiscardRecording
<1>2. /\ UNCHANGED <<mode, link, ws, to_copy, count, top, silence, ret>>
      /\ (s_rec_count' = 0 \/ s_rec_count' = s_rec_count)
  BY DEF SessionStep, SessionStart, OpenSession, SessionStop, CloseSession,
         SubmitSttRecording, SttAnswered, DiscardRecording
<1>3. pc[t] \in Session /\ \E l \in Session \cup {ret[t]} : pc' = [pc EXCEPT ![t] = l]
  BY DEF SessionStep, SessionStart, OpenSession, SessionStop, CloseSession,
         SubmitSttRecording, SttAnswered, DiscardRecording, Session
<1>4. PICK l \in Session \cup {ret[t]} : pc' = [pc EXCEPT ![t] = l]
  BY <1>3
<1>5. CountsOK' /\ PlacesOK'
  <2>1. CountsOK' BY <1>2 DEF CountsOK
  <2>2. PlacesOK' BY <1>2, <1>4 DEF PlacesOK, Session, InFrame
  <2> QED BY <2>1, <2>2
<1>6. Places' /\ (\/ pc'["listen"] = pc["listen"]
                  \/ pc["listen"] \in Session /\ pc'["listen"] \in Session \cup {"audio"})
  BY <1>2, <1>3, <1>4 DEF Places, PlacesOK, Tasks, Session
<1> QED BY <1>1, <1>2, <1>5, <1>6, Undisturbed

(* A step of ui_task's own.                                                *)
LEMMA UiHolds ==
  ASSUME IInv, UiMuted \/ UiButton \/ UiSync
  PROVE  IInv'
<1> USE DEF IInv, TypeOK, Goto, Call, world, shared, local
<1>1. FlagsOK'
  BY DEF UiMuted, UiButton, UiSync, FlagsOK
<1>2. UNCHANGED <<mode, link, ws, s_rec_count, to_copy, count, top, silence>>
  BY DEF UiMuted, UiButton, UiSync
<1>3. /\ pc' \in [Tasks -> Session \cup InFrame \cup {"read", "sync"}]
      /\ ret' \in [Tasks -> {"loop", "audio", "sync"}]
      /\ pc'["listen"] = pc["listen"] /\ ret'["listen"] = ret["listen"]
  BY DEF UiMuted, UiButton, UiSync, PlacesOK, Tasks, Session
<1>4. CountsOK' BY <1>2 DEF CountsOK
<1>5. PlacesOK' BY <1>2, <1>3 DEF PlacesOK
<1> QED BY <1>1, <1>2, <1>3, <1>4, <1>5, Undisturbed DEF Places

(* The connection, its callback and the user.                              *)
LEMMA WorldHolds ==
  ASSUME IInv, OnStateChange \/ User \/ Connected \/ Dropped
  PROVE  IInv'
<1> USE DEF IInv, TypeOK, shared, local
<1>1. FlagsOK'
  BY DEF OnStateChange, User, Connected, Dropped, FlagsOK
<1>2. /\ UNCHANGED <<mode, pc, ret, to_copy, count, top, silence>>
      /\ (s_rec_count' = 0 \/ s_rec_count' = s_rec_count)
  BY DEF OnStateChange, User, Connected, Dropped
<1>3. link' \in {"up", "down"} /\ ws' \in {"idle", "ready", "ready again", "lost"}
  BY DEF OnStateChange, User, Connected, Dropped, PlacesOK
<1>4. CountsOK' BY <1>2 DEF CountsOK
<1>5. PlacesOK' BY <1>2, <1>3 DEF PlacesOK
<1> QED BY <1>1, <1>2, <1>4, <1>5, Undisturbed DEF Places

(* The listening task, from the loop to the detection.                     *)
LEMMA DetectionHolds ==
  ASSUME IInv, ListenLoop \/ ReadNothing \/ Frame
  PROVE  IInv'
<1> USE DEF IInv, TypeOK, Goto, Call, world, shared, local
<1>1. FlagsOK'
  BY DEF ListenLoop, StopOnMute, ReadNothing, Frame, VadFrame, WakeFrame, FlagsOK
<1>2. UNCHANGED <<mode, link, ws, s_rec_count, to_copy, count, top>>
  BY DEF ListenLoop, StopOnMute, ReadNothing, Frame, VadFrame, WakeFrame
<1>3. silence < MaxSilence
  <2>1. pc["listen"] \in {"loop", "read"}
    BY DEF ListenLoop, ReadNothing, Frame, VadFrame, WakeFrame, FullRead
  <2> QED BY <2>1, Sizes DEF SilenceInFrame, Returns, CountsOK, Session, InFrame
<1>4. /\ pc' \in [Tasks -> Session \cup InFrame \cup {"read", "sync"}]
      /\ ret' \in [Tasks -> {"loop", "audio", "sync"}]
      /\ pc'["listen"] \in {"loop", "start", "stop", "read", "audio"}
      /\ ret'["listen"] \in {ret["listen"], "loop", "audio"}
  BY DEF ListenLoop, StopOnMute, ReadNothing, Frame, VadFrame, WakeFrame, PlacesOK,
         Tasks, Session, InFrame
<1>5. /\ silence' = 0 \/ silence' = silence \/ silence' = silence + 1
      /\ silence' = silence + 1 =>
           \/ silence + 1 < MaxSilence
           \/ mode.listen = "vad" /\ pc'["listen"] = "audio"
  <2>1. CASE VadFrame
    <3>1. \/ silence' = 0 \/ silence' = silence
          \/ silence' = silence + 1 /\ mode.listen = "vad" /\ pc'["listen"] = "audio"
      BY <2>1 DEF VadFrame, PlacesOK, Tasks
    <3> QED BY <3>1 DEF CountsOK
  <2>2. CASE WakeFrame BY <2>2, Sizes DEF WakeFrame, CountsOK
  <2>3. CASE ListenLoop \/ ReadNothing
    BY <2>3 DEF ListenLoop, StopOnMute, ReadNothing, CountsOK
  <2> QED BY <2>1, <2>2, <2>3 DEF Frame
<1>6. CountsOK' /\ PlacesOK'
  <2>1. CountsOK' BY <1>2, <1>3, <1>5, Sizes DEF CountsOK
  <2>2. PlacesOK' BY <1>2, <1>4 DEF PlacesOK
  <2> QED BY <2>1, <2>2
<1>7. InBuffer' /\ RoomToCopy' /\ Places'
  BY <1>2, <1>4 DEF InBuffer, RoomToCopy, Places
<1>8. SilenceInFrame' /\ Returns'
  BY <1>2, <1>3, <1>4, <1>5, Sizes DEF SilenceInFrame, Returns, CountsOK, Session, InFrame
<1> QED BY <1>1, <1>6, <1>7, <1>8

(* The listening task, from the check of the bound to the end of a frame.  *)
LEMMA RecordingHolds ==
  ASSUME IInv, TakeAudio \/ CopyAudio \/ CountAudio \/ AfterFrame
  PROVE  IInv'
<1> USE DEF IInv, TypeOK, Goto, Call, world, shared, local
<1>1. FlagsOK'
  BY DEF TakeAudio, CopyAudio, CountAudio, AfterFrame, FlagsOK
<1>2. /\ pc' \in [Tasks -> Session \cup InFrame \cup {"read", "sync"}]
      /\ ret' \in [Tasks -> {"loop", "audio", "sync"}]
      /\ ret'["listen"] \in {ret["listen"], "loop"}
      /\ UNCHANGED <<mode, link, ws>>
      /\ PlacesOK'
  BY DEF TakeAudio, CopyAudio, CountAudio, AfterFrame, PlacesOK, Tasks, Session, InFrame
<1>3. CASE TakeAudio
  <2>1. Room(s_rec_count) \in Nat /\ s_rec_count + Room(s_rec_count) <= RecMax
    BY RoomFits DEF CountsOK, InBuffer
  <2>2. /\ to_copy' = 0 \/ to_copy' = Room(s_rec_count)
        /\ pc'["listen"] \in {"loop", "copy", "after"}
        /\ pc'["listen"] = "loop" => mode.listen = "wake"
        /\ UNCHANGED <<s_rec_count, count, top, silence>>
    BY <1>3 DEF TakeAudio, PlacesOK, Tasks
  <2>3. CountsOK' BY <2>1, <2>2 DEF CountsOK
  <2>4. InBuffer' /\ RoomToCopy' /\ Places'
    BY <1>2, <2>1, <2>2 DEF InBuffer, RoomToCopy, Places, CountsOK
  <2>5. SilenceInFrame' /\ Returns'
    BY <1>2, <2>2, Sizes DEF SilenceInFrame, Returns, CountsOK, Session, InFrame
  <2> QED BY <1>1, <1>2, <2>3, <2>4, <2>5
<1>4. CASE CopyAudio
  <2>1. /\ pc["listen"] = "copy" /\ pc'["listen"] = "store"
        /\ UNCHANGED <<s_rec_count, to_copy, silence>>
        /\ count' = s_rec_count /\ (top' = top \/ top' = s_rec_count + to_copy)
    BY <1>4 DEF CopyAudio, PlacesOK, Tasks
  <2>2. CountsOK' BY <2>1 DEF CountsOK
  <2>3. InBuffer' /\ RoomToCopy' /\ Places'
    <3>1. s_rec_count <= s_rec_count /\ s_rec_count + to_copy <= RecMax
      BY <2>1 DEF CountsOK, RoomToCopy
    <3> QED BY <1>2, <2>1, <3>1 DEF InBuffer, RoomToCopy, Places
  <2>4. SilenceInFrame' /\ Returns'
    BY <1>2, <2>1 DEF SilenceInFrame, Returns, Session, InFrame
  <2> QED BY <1>1, <1>2, <2>2, <2>3, <2>4
<1>5. CASE CountAudio
  <2>1. /\ pc["listen"] = "store" /\ pc'["listen"] = "after"
        /\ UNCHANGED <<top, silence>>
        /\ (s_rec_count' = count + to_copy \/ s_rec_count' = s_rec_count + to_copy)
        /\ count' = 0 /\ to_copy' = 0
    BY <1>5 DEF CountAudio, PlacesOK, Tasks
  <2>2. CountsOK' BY <2>1 DEF CountsOK
  <2>3. s_rec_count \in Nat /\ to_copy \in Nat /\ count \in Nat BY DEF CountsOK
  <2>4. s_rec_count' <= RecMax
    <3>1. count + to_copy <= RecMax /\ s_rec_count <= count
      BY <2>1 DEF RoomToCopy
    <3> QED BY <2>1, <2>3, <3>1, SmallerSum
  <2>5. InBuffer' /\ RoomToCopy' /\ Places'
    BY <1>2, <2>1, <2>4 DEF InBuffer, RoomToCopy, Places
  <2>6. SilenceInFrame' /\ Returns'
    BY <1>2, <2>1 DEF SilenceInFrame, Returns, Session, InFrame
  <2> QED BY <1>1, <1>2, <2>2, <2>5, <2>6
<1>6. CASE AfterFrame
  <2>1. pc["listen"] = "after" /\ pc'["listen"] \in {"stop", "loop"}
        /\ UNCHANGED <<s_rec_count, to_copy, count, top>>
    BY <1>6 DEF AfterFrame, PlacesOK, Tasks
  <2>2. silence' \in Nat /\ silence' < MaxSilence
    BY <1>6, Sizes DEF AfterFrame, SilenceLasted, SilenceInFrame, CountsOK
  <2>3. CountsOK' BY <2>1, <2>2, Sizes DEF CountsOK
  <2>4. InBuffer' /\ RoomToCopy' /\ Places'
    BY <1>2, <2>1 DEF InBuffer, RoomToCopy, Places
  <2>5. SilenceInFrame' /\ Returns'
    BY <2>2, Sizes DEF SilenceInFrame, Returns
  <2> QED BY <1>1, <1>2, <2>3, <2>4, <2>5
<1> QED BY <1>3, <1>4, <1>5, <1>6

(* Every step keeps it, one case per task.                                 *)
LEMMA StepHolds == IInv /\ [Next]_vars => IInv'
<1> SUFFICES ASSUME IInv, [Next]_vars PROVE IInv' OBVIOUS
<1>1. CASE Next
  BY <1>1, SessionStepHolds, UiHolds, WorldHolds, DetectionHolds, RecordingHolds
  DEF Next, ListenStep, UiStep, Tasks
<1>2. CASE UNCHANGED vars
  <2>1. FlagsOK' BY <1>2 DEF vars, world, shared, local, IInv, TypeOK, FlagsOK
  <2>2. CountsOK' BY <1>2 DEF vars, world, shared, local, IInv, TypeOK, CountsOK
  <2>3. PlacesOK' BY <1>2 DEF vars, world, IInv, TypeOK, PlacesOK
  <2>4. UNCHANGED <<mode, pc, ret, s_rec_count, to_copy, count, top, silence>>
    BY <1>2 DEF vars, world, shared, local
  <2> QED BY <2>1, <2>2, <2>3, <2>4, Undisturbed DEF IInv, TypeOK, Places
<1> QED BY <1>1, <1>2

(* The invariant on which both theorems rest.                              *)
LEMMA Invariance == Spec => []IInv
<1>1. Init => IInv BY InitHolds
<1>2. IInv /\ [Next]_vars => IInv' BY StepHolds
<1> QED BY <1>1, <1>2, PTL DEF Spec

(* Every reachable state has the stated shape; in particular the counter   *)
(* of silent frames never passes the threshold that ends a session.        *)
THEOREM VoiceTypeCorrect == Spec => []TypeOK
BY Invariance, PTL DEF IInv

(* No copy of the listening task ever ends beyond the recording buffer,    *)
(* however the three tasks interleave.                                     *)
THEOREM RecordingInBuffer == Spec => []InBuffer
BY Invariance, PTL DEF IInv
=============================================================================
