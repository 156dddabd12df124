---------------------------- MODULE SatelliteProofs ----------------------------
(***************************************************************************)
(* Proofs about Satellite, for every build, every size of the buffers and  *)
(* every audio the hub and the servers send.                               *)
(***************************************************************************)
EXTENDS Satellite, FiniteSetTheorems, FunctionTheorems, SequenceTheorems, TLAPS

-----------------------------------------------------------------------------
(* The audio of one reply.                                                 *)

(* What the samples are is known without looking at them.                  *)
LEMMA SampleCount ==
  ASSUME NEW b \in BodyType
  PROVE  /\ DataBytes(b) \in Nat /\ Samples(b) \in Nat /\ CopyEnd(b) \in Nat
         /\ 2 * Samples(b) <= IF IsWav(b) THEN DataBytes(b) ELSE b.len
<1>1. b.offset \in Nat /\ b.len \in Nat /\ b.size \in Nat /\ b.offset <= b.len
  BY AudioAssumption DEF BodyType
<1>2. DataBytes(b) \in Nat
  BY <1>1 DEF DataBytes
<1>3. Samples(b) \in Nat /\ 2 * Samples(b) <= IF IsWav(b) THEN DataBytes(b) ELSE b.len
  <2>1. CASE IsWav(b)
    BY <1>2, <2>1 DEF Samples
  <2>2. CASE ~IsWav(b)
    BY <1>1, <2>2 DEF Samples
  <2> QED
    BY <2>1, <2>2
<1> QED
  BY <1>1, <1>2, <1>3 DEF CopyEnd

(* audio_util.c:41, main.c:313: if the samples could be allocated, the copy*)
(* ends inside the body.  The sum only wraps around when the data chunk    *)
(* announces more than malloc gives.                                       *)
LEMMA CopyInside ==
  ASSUME NEW b \in BodyType, Allocates(Samples(b))
  PROVE  CopyEnd(b) <= b.len
<1>1. /\ b.offset \in 0..MaxBody /\ b.len \in 0..MaxBody /\ b.size \in 0..(W - 1)
      /\ b.offset <= b.len
  BY DEF BodyType
<1>2. /\ DataBytes(b) \in Nat /\ Samples(b) \in Nat
      /\ 2 * Samples(b) <= IF IsWav(b) THEN DataBytes(b) ELSE b.len
  BY SampleCount
<1>3. CASE ~IsWav(b)
  BY <1>1, <1>3 DEF CopyEnd
<1>4. CASE IsWav(b) /\ (b.offset + b.size) % W > b.len
  BY <1>1, <1>2, <1>4, AudioAssumption DEF CopyEnd, DataBytes
<1>5. CASE IsWav(b) /\ ~((b.offset + b.size) % W > b.len)
  <2>1. DataBytes(b) = b.size /\ Samples(b) = b.size \div 2
    BY <1>5 DEF DataBytes, Samples
  <2>2. b.size <= MaxAlloc + 1
    BY <1>1, <2>1, AudioAssumption DEF Allocates
  <2>3. b.offset + b.size < W
    BY <1>1, <2>2, AudioAssumption
  <2>4. (b.offset + b.size) % W = b.offset + b.size
    BY <1>1, <2>3, AudioAssumption
  <2>5. b.offset + b.size <= b.len
    BY <1>1, <1>5, <2>4, AudioAssumption
  <2> QED
    BY <1>1, <1>2, <1>5, <2>1, <2>5, AudioAssumption DEF CopyEnd
<1> QED
  BY <1>3, <1>4, <1>5

(* audio_util.c:65: no position of the dial makes a 16-bit sample louder   *)
(* or turns it over; it stays a 16-bit sample.                             *)
THEOREM VolumeNeverAmplifies ==
  ASSUME NEW s \in SampleType, NEW v \in 0..100
  PROVE  Within(Scaled(s, v), s)
<1>0. s \in Int
  BY DEF SampleType
<1>1. CASE v >= 100
  BY <1>0, <1>1 DEF Scaled, Within
<1>2. CASE v = 0
  BY <1>0, <1>2 DEF Scaled, Within
<1>3. CASE v # 0 /\ ~(v >= 100)
  <2> DEFINE k == (v * 256) \div 100
             p == s * k
  <2>1. k \in 0..256
    BY <1>3
  <2>2. Scaled(s, v) = p \div 256
    BY <1>3 DEF Scaled, Scale
  <2> HIDE DEF k
  <2>3. CASE s >= 0
    <3>1. p \in Int /\ 0 <= p /\ p <= s * 256
      BY <1>0, <2>1, <2>3
    <3> HIDE DEF p
    <3> QED
      BY <1>0, <2>2, <2>3, <3>1 DEF Within
  <2>4. CASE s < 0
    <3>1. p \in Int /\ p <= 0 /\ s * 256 <= p
      BY <1>0, <2>1, <2>4
    <3> HIDE DEF p
    <3> QED
      BY <1>0, <2>2, <2>4, <3>1 DEF Within
  <2> QED
    BY <1>0, <2>3, <2>4
<1> QED
  BY <1>1, <1>2, <1>3

-----------------------------------------------------------------------------
(* The inductive invariant.                                                *)

(* What is queued came from a reply, and what is about to be is scaled.    *)
Levels ==
  /\ \A i \in DOMAIN ring : /\ ring[i].reply \in DOMAIN replies
                            /\ Within(ring[i].level, replies[ring[i].reply].sample)
  /\ pc["ws"] = "push" => Within(pcm.level, body.sample)

(* Nothing was copied of a body before it is loaded.                       *)
Copied == IF pc["ws"] = "push" THEN read_to <= body.len ELSE read_to = 0

(* A reply under way is counted when it is pushed.                         *)
Counted == pc["ws"] \in {"load", "push"} => Len(replies) < scenario.replies

Inv == TypeOK /\ Levels /\ Copied /\ Counted

(* The steps that leave the sound alone.                                   *)
Quiet ==
  \/ ListenStep \/ UiStep \/ OnReady \/ OnDisconnected \/ Handled \/ FetchFails
  \/ HubEvent \/ HubHandled \/ Speak \/ Connected \/ Dropped \/ Turn \/ Switch

Sounding ==
  HubWav \/ HubBinary \/ LoadFails \/ LoadBody \/ FetchBody \/ Push \/ PushLate \/ Play

(* A step either leaves the audio of replies alone or is one of those that *)
(* handle it.                                                              *)
LEMMA NextSplit == Next <=> Quiet \/ Sounding
BY DEF Next, Quiet, Sounding, WsStep, Arrives

(* Nothing is playing at first.                                            *)
LEMMA InvInit == Init => Inv
<1> SUFFICES ASSUME Init PROVE Inv
  OBVIOUS
<1>1. StatesOK /\ PlacesOK
  BY DEF Init, StatesOK, PlacesOK, Tasks, SatState, InSession
<1>2. DialOK
  <2>1. scenario.turns \in Nat
    BY SatelliteAssumption DEF Init, ScenarioType
  <2> QED
    BY <2>1, SatelliteAssumption DEF Init, DialOK
<1>3. SoundOK
  <2>1. NoBody \in BodyType
    BY AudioAssumption DEF NoBody, BodyType, SampleType
  <2>2. scenario.replies \in Nat
    BY SatelliteAssumption DEF Init, ScenarioType
  <2> QED
    BY <2>1, <2>2, SatelliteAssumption DEF Init, SoundOK, PcmType
<1>4. Levels /\ Copied /\ Counted
  BY DEF Init, Levels, Copied, Counted, Tasks
<1> QED
  BY <1>1, <1>2, <1>3, <1>4 DEF Inv, TypeOK

(* A quiet step neither touches the sound nor begins or ends a push.       *)
LEMMA QuietFrame ==
  ASSUME PlacesOK, Quiet
  PROVE  /\ UNCHANGED <<sound, scenario>>
         /\ pc["ws"] \notin {"load", "push"} => pc'["ws"] \notin {"load", "push"}
         /\ pc["ws"] \in {"load", "push"} => pc'["ws"] = pc["ws"]
<1>1. CASE ListenStep
  BY <1>1 DEF ListenStep, Listen, VadFrame, WakeFrame, SessionStep, SessionStart,
     OpenSession, ShowListening, SessionStop, CloseSession, SubmitSttRecording,
     SttAnswered, Return, Goto, world, PlacesOK, Tasks
<1>2. CASE UiStep
  BY <1>2 DEF UiStep, UiMuted, UiMute, UiOrange, UiButton, UiSync, UiSettle, UiIdle,
     UiShow, SessionStep, SessionStart, OpenSession, ShowListening, SessionStop,
     CloseSession, SubmitSttRecording, SttAnswered, Return, Goto, world, PlacesOK, Tasks
<1>3. CASE OnReady \/ OnDisconnected \/ Handled \/ FetchFails \/ HubEvent \/ HubHandled
  BY <1>3 DEF OnReady, OnDisconnected, Handled, FetchFails, HubEvent, HubHandled,
     Receives, WsIdle, Goto, world, PlacesOK, Tasks
<1>4. CASE Speak \/ Connected \/ Dropped \/ Turn \/ Switch
  BY <1>4 DEF Speak, Connected, Dropped, Turn, Switch, Receives, WsIdle, Goto, world,
     PlacesOK, Tasks
<1> QED
  BY <1>1, <1>2, <1>3, <1>4 DEF Quiet

(* Every step keeps each task where it may be.                             *)
LEMMA PlacesStep ==
  ASSUME PlacesOK, Next
  PROVE  PlacesOK'
<1>1. ASSUME NEW t \in {"listen", "ui"}, SessionStep(t)
      PROVE  PlacesOK'
  <2>1. CASE SessionStart(t) \/ OpenSession(t)
    BY <1>1, <2>1 DEF SessionStart, OpenSession, Return, Goto, PlacesOK, Tasks, InSession
  <2>2. CASE ShowListening(t)
    BY <1>1, <2>2 DEF ShowListening, Return, Goto, PlacesOK, Tasks, InSession
  <2>3. CASE SessionStop(t) \/ CloseSession(t)
    BY <1>1, <2>3 DEF SessionStop, CloseSession, Return, Goto, PlacesOK, Tasks, InSession
  <2>4. CASE SubmitSttRecording(t)
    BY <1>1, <2>4 DEF SubmitSttRecording, Return, Goto, PlacesOK, Tasks, InSession
  <2>5. CASE SttAnswered(t)
    BY <1>1, <2>5 DEF SttAnswered, Return, Goto, PlacesOK, Tasks, InSession
  <2> QED
    BY <1>1, <2>1, <2>2, <2>3, <2>4, <2>5 DEF SessionStep
<1>2. CASE Listen \/ VadFrame \/ WakeFrame
  BY <1>2 DEF Listen, VadFrame, WakeFrame, Goto, PlacesOK, Tasks, InSession
<1>3. CASE UiMuted \/ UiMute \/ UiOrange \/ UiButton
  BY <1>3 DEF UiMuted, UiMute, UiOrange, UiButton, Goto, PlacesOK, Tasks, InSession
<1>4. CASE UiSync \/ UiSettle \/ UiIdle \/ UiShow
  BY <1>4 DEF UiSync, UiSettle, UiIdle, UiShow, Goto, PlacesOK, Tasks, InSession
<1>5. CASE OnReady \/ OnDisconnected \/ Handled \/ FetchFails \/ HubEvent \/ HubHandled
  BY <1>5 DEF OnReady, OnDisconnected, Handled, FetchFails, HubEvent, HubHandled,
     Goto, PlacesOK, Tasks, InSession
<1>6. CASE Speak \/ Connected \/ Dropped \/ Turn \/ Switch
  BY <1>6 DEF Speak, Connected, Dropped, Turn, Switch, Goto, PlacesOK, Tasks, InSession
<1>7. CASE Sounding
  BY <1>7 DEF Sounding, HubWav, HubBinary, LoadFails, LoadBody, FetchBody, Push, NoRoom,
     PushLate, Pushed, Play, Goto, PlacesOK, Tasks, InSession
<1> QED
  BY <1>1, <1>2, <1>3, <1>4, <1>5, <1>6, <1>7
  DEF Next, ListenStep, UiStep, WsStep, Arrives, Sounding

(* Every step leaves s_state and the lights at one of the seven states.    *)
LEMMA StatesStep ==
  ASSUME StatesOK, Next
  PROVE  StatesOK'
<1>1. ASSUME NEW t \in {"listen", "ui"}, SessionStep(t)
      PROVE  StatesOK'
  <2>1. CASE SessionStart(t) \/ OpenSession(t) \/ SessionStop(t) \/ CloseSession(t)
    BY <2>1 DEF SessionStart, OpenSession, SessionStop, CloseSession, world, session,
       StatesOK
  <2>2. CASE ShowListening(t) \/ SubmitSttRecording(t) \/ SttAnswered(t)
    BY <2>2 DEF ShowListening, SubmitSttRecording, SttAnswered, world, session,
       StatesOK, SatState
  <2> QED
    BY <1>1, <2>1, <2>2 DEF SessionStep
<1>2. CASE Listen \/ VadFrame \/ WakeFrame
  BY <1>2 DEF Listen, VadFrame, WakeFrame, world, session, StatesOK, SatState
<1>3. CASE UiMuted \/ UiMute \/ UiOrange \/ UiButton
  BY <1>3 DEF UiMuted, UiMute, UiOrange, UiButton, world, session, StatesOK, SatState
<1>4. CASE UiSync \/ UiSettle \/ UiIdle \/ UiShow
  BY <1>4 DEF UiSync, UiSettle, UiIdle, UiShow, world, session, StatesOK, SatState
<1>5. CASE OnReady \/ OnDisconnected \/ Handled \/ FetchFails \/ HubEvent \/ HubHandled
  BY <1>5 DEF OnReady, OnDisconnected, Handled, FetchFails, HubEvent, HubHandled,
     world, session, StatesOK, SatState
<1>6. CASE Speak \/ Connected \/ Dropped \/ Turn \/ Switch
  <2>1. CASE Speak \/ Connected \/ Dropped
    BY <2>1 DEF Speak, Connected, Dropped, world, session, StatesOK, SatState
  <2>2. CASE Turn
    BY <2>2 DEF Turn, world, session, StatesOK
  <2>3. CASE Switch
    BY <2>3 DEF Switch, session, StatesOK
  <2> QED
    BY <1>6, <2>1, <2>2, <2>3
<1>7. CASE Sounding
  BY <1>7 DEF Sounding, HubWav, HubBinary, LoadFails, LoadBody, FetchBody, Push, NoRoom,
     PushLate, Pushed, Play, world, session, StatesOK, SatState
<1> QED
  BY <1>1, <1>2, <1>3, <1>4, <1>5, <1>6, <1>7
  DEF Next, ListenStep, UiStep, WsStep, Arrives, Sounding

(* The dial stays between 0 and 100.                                       *)
LEMMA DialStep ==
  ASSUME TypeOK, Next
  PROVE  DialOK'
<1>1. CASE Turn
  BY <1>1, SatelliteAssumption
  DEF Turn, Clipped, world, TypeOK, DialOK, StatesOK, ScenarioType
<1>2. CASE ~Turn
  <2>1. UNCHANGED <<dial, scenario>>
    BY <1>2 DEF Next, ListenStep, UiStep, WsStep, Arrives, Listen, VadFrame, WakeFrame,
       SessionStep, SessionStart, OpenSession, ShowListening, SessionStop, CloseSession,
       SubmitSttRecording, SttAnswered,
       UiMuted, UiMute, UiOrange, UiButton, UiSync, UiSettle, UiIdle, UiShow, OnReady,
       OnDisconnected, Handled, FetchFails, HubEvent, HubHandled, Speak, Connected,
       Dropped, Switch, HubWav, HubBinary, LoadFails, LoadBody, FetchBody, Push, NoRoom,
       PushLate, Pushed, Play, world
  <2> QED
    BY <2>1 DEF TypeOK, DialOK, dial
<1> QED
  BY <1>1, <1>2

(* A body the scenario allows is a body; so is none.                       *)
LEMMA BodyTypes ==
  /\ NoBody \in BodyType
  /\ StatesOK => \A b \in scenario.bodies : b \in BodyType
<1>1. NoBody \in BodyType
  BY AudioAssumption DEF NoBody, BodyType, SampleType
<1>2. ASSUME StatesOK, NEW b \in scenario.bodies
      PROVE  b \in BodyType
  <2>1. scenario \in ScenarioType
    BY <1>2, SatelliteAssumption DEF StatesOK
  <2>2. scenario.bodies \in SUBSET BodyType
    BY <2>1 DEF ScenarioType
  <2> QED
    BY <1>2, <2>2
<1> QED
  BY <1>1, <1>2

(* What is prepared is a number of samples at a level within the reply's.  *)
LEMMA PreparedLevel ==
  ASSUME DialOK, NEW b \in BodyType, NEW n \in Nat
  PROVE  /\ Prepared(n, b.sample) \in PcmType
         /\ Within(Prepared(n, b.sample).level, b.sample)
<1>1. b.sample \in SampleType
  BY DEF BodyType
<1>2. Within(Scaled(b.sample, s_volume), b.sample)
  BY <1>1, VolumeNeverAmplifies DEF DialOK
<1>3. Scaled(b.sample, s_volume) \in Int
  <2>0. \A x \in SampleType : x \in Int
    BY DEF SampleType
  <2>1. b.sample \in Int
    BY <1>1, <2>0
  <2> QED
    BY <1>2, <2>1 DEF Within
<1> QED
  BY <1>2, <1>3 DEF Prepared, PcmType

(* The steps of the websocket task that get a reply ready.                 *)
LEMMA ReadyStep ==
  ASSUME Inv, HubWav \/ HubBinary \/ LoadFails \/ LoadBody \/ FetchBody
  PROVE  SoundOK' /\ Levels' /\ Copied' /\ Counted'
<1>1. /\ StatesOK /\ PlacesOK /\ DialOK /\ SoundOK /\ Levels /\ Copied /\ Counted
      /\ "ws" \in DOMAIN pc
  BY DEF Inv, TypeOK, PlacesOK, Tasks
<1>2. CASE HubWav \/ HubBinary
  <2>1. /\ UNCHANGED <<scenario, pcm, replies, ring, heard, read_to>>
        /\ body' \in scenario.bodies /\ pc'["ws"] = "load" /\ pc["ws"] = "rest"
        /\ Len(replies) < scenario.replies
    BY <1>1, <1>2 DEF HubWav, HubBinary, Receives, WsIdle, Goto, world
  <2>2. SoundOK'
    BY <1>1, <2>1, BodyTypes DEF SoundOK
  <2> QED
    BY <1>1, <2>1, <2>2 DEF Levels, Copied, Counted
<1>3. CASE LoadFails
  <2>1. /\ UNCHANGED <<scenario, pcm, replies, ring, heard>>
        /\ body' = NoBody /\ read_to' = 0 /\ pc'["ws"] = "rest"
    BY <1>1, <1>3 DEF LoadFails, Goto, world
  <2>2. SoundOK'
    BY <1>1, <2>1, BodyTypes DEF SoundOK
  <2> QED
    BY <1>1, <2>1, <2>2 DEF Levels, Copied, Counted
<1>4. CASE LoadBody
  <2>1. /\ UNCHANGED <<scenario, body, replies, ring, heard>>
        /\ pc["ws"] = "load" /\ pc'["ws"] = "push" /\ Allocates(Samples(body))
        /\ read_to' = CopyEnd(body) /\ pcm' = Prepared(Samples(body), body.sample)
    BY <1>1, <1>4 DEF LoadBody, Goto, world
  <2>2. body \in BodyType
    BY <1>1 DEF SoundOK
  <2>3. Samples(body) \in Nat /\ read_to' \in Nat /\ read_to' <= body.len
    BY <2>1, <2>2, SampleCount, CopyInside
  <2>4. pcm' \in PcmType /\ Within(pcm'.level, body.sample)
    BY <1>1, <2>1, <2>2, <2>3, PreparedLevel
  <2>5. SoundOK'
    BY <1>1, <2>1, <2>3, <2>4 DEF SoundOK
  <2> QED
    BY <1>1, <2>1, <2>3, <2>4, <2>5 DEF Levels, Copied, Counted
<1>5. CASE FetchBody
  <2>1. PICK b \in scenario.bodies, pieces \in Responses :
          LET n == Fetched([b EXCEPT !.len = Collected(pieces, HttpCap)], MaxSamples)
          IN  n > 0 /\ pcm' = Prepared(n, b.sample) /\ body' = b
    BY <1>5 DEF FetchBody
  <2>2. /\ UNCHANGED <<scenario, replies, ring, heard, read_to>>
        /\ pc["ws"] = "fetch" /\ pc'["ws"] = "push" /\ Len(replies) < scenario.replies
    BY <1>1, <1>5 DEF FetchBody, Goto, world
  <2> DEFINE n == Fetched([b EXCEPT !.len = Collected(pieces, HttpCap)], MaxSamples)
  <2>3. b \in BodyType
    BY <1>1, <2>1, BodyTypes
  <2>4. b.size \in Nat /\ b.len \in Nat
    BY <2>3, AudioAssumption DEF BodyType
  <2>5. [b EXCEPT !.len = Collected(pieces, HttpCap)].size = b.size
    BY <2>3 DEF BodyType
  <2>6. n \in Nat
    BY <2>4, <2>5, SatelliteAssumption DEF Fetched, MinOf
  <2> HIDE DEF n
  <2>7. pcm' = Prepared(n, b.sample) /\ body' = b
    BY <2>1 DEF n
  <2>8. pcm' \in PcmType /\ Within(pcm'.level, b.sample)
    BY <1>1, <2>3, <2>6, <2>7, PreparedLevel
  <2>9. SoundOK'
    BY <1>1, <2>2, <2>3, <2>7, <2>8 DEF SoundOK
  <2>10. read_to = 0
    BY <1>1, <2>2 DEF Copied
  <2> QED
    BY <1>1, <2>2, <2>4, <2>7, <2>8, <2>9, <2>10 DEF Levels, Copied, Counted
<1> QED
  BY <1>2, <1>3, <1>4, <1>5

(* The units of the reply that is about to be pushed: as many as it has    *)
(* samples, all of them its own and of its level.                          *)
LEMMA QueuedUnits ==
  ASSUME pcm.n \in Nat, pcm.level \in Int, Len(replies) \in Nat
  PROVE  /\ Queued(pcm.n) \in Seq(UnitType) /\ Len(Queued(pcm.n)) = pcm.n
         /\ \A i \in DOMAIN Queued(pcm.n) :
              /\ Queued(pcm.n)[i].reply = Len(replies) + 1
              /\ Queued(pcm.n)[i].level = pcm.level
<1> DEFINE unit == [reply |-> Len(replies) + 1, level |-> pcm.level]
           q    == [i \in 1..pcm.n |-> unit]
<1>1. Queued(pcm.n) = q /\ unit.reply = Len(replies) + 1 /\ unit.level = pcm.level
  BY DEF Queued
<1>2. unit \in UnitType
  BY DEF UnitType
<1> HIDE DEF unit
<1>3. q \in Seq(UnitType) /\ Len(q) = pcm.n /\ \A i \in DOMAIN q : q[i] = unit
  BY <1>2
<1> QED
  BY <1>1, <1>3

(* A reply that joins the queue as a whole, or does not.                   *)
LEMMA PushStep ==
  ASSUME Inv, Push \/ PushLate
  PROVE  SoundOK' /\ Levels' /\ Copied' /\ Counted'
<1>1. /\ StatesOK /\ PlacesOK /\ DialOK /\ SoundOK /\ Levels /\ Copied /\ Counted
      /\ "ws" \in DOMAIN pc
  BY DEF Inv, TypeOK, PlacesOK, Tasks
<1> DEFINE r == [n |-> pcm.n, sample |-> body.sample,
                 free |-> ring = <<>> /\ pcm.n <= RingSize]
<1>2. PICK units : /\ units = Queued(pcm.n) \/ units = <<>>
                   /\ Len(ring) + pcm.n <= RingSize \/ units = <<>>
                   /\ Pushed(units) /\ pc["ws"] = "push"
  BY DEF Push, PushLate, NoRoom, HasRoom
<1>3. /\ ring' = ring \o units /\ replies' = Append(replies, r)
      /\ heard' = Append(heard, 0) /\ body' = NoBody
      /\ pcm' = [n |-> 0, level |-> 0] /\ read_to' = 0
      /\ UNCHANGED scenario /\ pc'["ws"] = "rest"
  BY <1>1, <1>2 DEF Pushed, Goto, world
<1>4. pcm.n \in Nat /\ pcm.level \in Int /\ body.sample \in SampleType
  BY <1>1 DEF SoundOK, PcmType, BodyType
<1>5. r \in ReplyType
  BY <1>4 DEF ReplyType
<1> HIDE DEF r
<1>6. units \in Seq(UnitType) /\ Len(ring) + Len(units) <= RingSize
  <2>1. Len(replies) \in Nat /\ Len(ring) \in Nat /\ Len(ring) <= RingSize
    BY <1>1 DEF SoundOK
  <2>3. Queued(pcm.n) \in Seq(UnitType) /\ Len(Queued(pcm.n)) = pcm.n
    BY <1>4, <2>1, QueuedUnits
  <2>4. CASE units = <<>>
    BY <2>1, <2>4, SatelliteAssumption
  <2>5. CASE units # <<>>
    BY <1>2, <2>3, <2>5
  <2> QED
    BY <2>4, <2>5
<1>7. \A i \in DOMAIN units :
        units[i].reply = Len(replies) + 1 /\ units[i].level = pcm.level
  <2>1. Len(replies) \in Nat
    BY <1>1 DEF SoundOK
  <2>2. CASE units = <<>>
    BY <2>2
  <2> QED
    BY <1>2, <1>4, <2>1, <2>2, QueuedUnits
<1>8. SoundOK'
  <2>1. body' \in BodyType /\ pcm' \in PcmType /\ read_to' \in Nat
    BY <1>3, BodyTypes DEF PcmType
  <2>2. replies' \in Seq(ReplyType) /\ Len(replies') = Len(replies) + 1
    BY <1>1, <1>3, <1>5 DEF SoundOK
  <2>3. heard' \in Seq(Nat) /\ Len(heard') = Len(heard) + 1
    BY <1>1, <1>3 DEF SoundOK
  <2>4. ring' \in Seq(UnitType) /\ Len(ring') = Len(ring) + Len(units)
    BY <1>1, <1>3, <1>6 DEF SoundOK
  <2>5. scenario.replies \in Nat
    BY <1>1, SatelliteAssumption DEF StatesOK, ScenarioType
  <2>6. Len(replies') <= scenario'.replies
    BY <1>1, <1>2, <1>3, <2>2, <2>5 DEF Counted, SoundOK
  <2> QED
    BY <1>1, <1>6, <2>1, <2>2, <2>3, <2>4, <2>6 DEF SoundOK
<1>9. Levels'
  <2> SUFFICES ASSUME NEW i \in DOMAIN ring'
               PROVE  /\ ring'[i].reply \in DOMAIN replies'
                      /\ Within(ring'[i].level, replies'[ring'[i].reply].sample)
    BY <1>3 DEF Levels
  <2>1. /\ ring \in Seq(UnitType) /\ replies \in Seq(ReplyType)
    BY <1>1 DEF SoundOK
  <2>2. r.sample = body.sample
    BY DEF r
  <2>3. CASE i \in DOMAIN ring
    <3>1. ring'[i] = ring[i]
      BY <1>3, <1>6, <2>1, <2>3
    <3>2. ring[i].reply \in DOMAIN replies
          /\ Within(ring[i].level, replies[ring[i].reply].sample)
      BY <1>1, <2>3 DEF Levels
    <3>3. /\ ring[i].reply \in DOMAIN replies'
          /\ replies'[ring[i].reply] = replies[ring[i].reply]
      BY <1>3, <1>5, <2>1, <3>2
    <3> QED
      BY <3>1, <3>2, <3>3
  <2>4. CASE i \notin DOMAIN ring
    <3>1. i - Len(ring) \in DOMAIN units /\ ring'[i] = units[i - Len(ring)]
      BY <1>3, <1>6, <2>1, <2>4
    <3>2. ring'[i].reply = Len(replies) + 1 /\ ring'[i].level = pcm.level
      BY <1>7, <3>1
    <3>3. /\ Len(replies) + 1 \in DOMAIN replies'
          /\ replies'[Len(replies) + 1] = r
      BY <1>3, <1>5, <2>1
    <3>4. Within(pcm.level, body.sample)
      BY <1>1, <1>2 DEF Levels
    <3> QED
      BY <2>2, <3>2, <3>3, <3>4
  <2> QED
    BY <2>3, <2>4
<1> QED
  BY <1>3, <1>8, <1>9 DEF Copied, Counted

(* What playback takes leaves the rest of the queue as it was.             *)
LEMMA PlayStep ==
  ASSUME Inv, Play
  PROVE  SoundOK' /\ Levels' /\ Copied' /\ Counted'
<1>1. /\ StatesOK /\ PlacesOK /\ DialOK /\ SoundOK /\ Levels /\ Copied /\ Counted
  BY DEF Inv, TypeOK
<1>2. ring \in Seq(UnitType) /\ heard \in Seq(Nat)
  BY <1>1 DEF SoundOK
<1>3. PICK k \in 1..MinOf(PlayChunk, Len(ring)) :
        /\ ring' = SubSeq(ring, k + 1, Len(ring))
        /\ heard' = [r \in DOMAIN heard |->
                       heard[r] + Cardinality({i \in 1..k : ring[i].reply = r})]
  BY DEF Play
<1>4. UNCHANGED <<scenario, pc, body, pcm, replies, read_to>>
  BY DEF Play, world
<1>5. k \in Nat /\ 1 <= k /\ k <= Len(ring)
  BY <1>2, <1>3, SatelliteAssumption DEF MinOf
<1>6. /\ ring' \in Seq(UnitType) /\ Len(ring') = Len(ring) - k
      /\ \A i \in DOMAIN ring' : i + k \in DOMAIN ring /\ ring'[i] = ring[i + k]
  BY <1>2, <1>3, <1>5
<1>7. heard' \in Seq(Nat) /\ Len(heard') = Len(heard)
  <2>1. ASSUME NEW r \in DOMAIN heard
        PROVE  heard[r] + Cardinality({i \in 1..k : ring[i].reply = r}) \in Nat
    <3>1. IsFiniteSet({i \in 1..k : ring[i].reply = r})
      BY <1>5, FS_Interval, FS_Subset, 1..k \in SUBSET Int
    <3>2. Cardinality({i \in 1..k : ring[i].reply = r}) \in Nat
      BY <3>1, FS_CardinalityType
    <3>3. heard[r] \in Nat
      BY <1>2
    <3> QED
      BY <3>2, <3>3
  <2>2. heard' \in [DOMAIN heard -> Nat]
    BY <1>3, <2>1
  <2>3. DOMAIN heard = 1..Len(heard) /\ Len(heard) \in Nat
    BY <1>2
  <2> QED
    BY <2>2, <2>3
<1>8. SoundOK'
  BY <1>1, <1>4, <1>5, <1>6, <1>7, SatelliteAssumption DEF SoundOK
<1>9. Levels'
  BY <1>1, <1>4, <1>6 DEF Levels
<1> QED
  BY <1>1, <1>4, <1>8, <1>9 DEF Copied, Counted

(* No step leaves the invariant.                                           *)
LEMMA InvStep ==
  ASSUME Inv, [Next]_vars
  PROVE  Inv'
<1>1. CASE UNCHANGED vars
  <2>1. UNCHANGED <<world, dial, s_state, led, session, pc, sound>>
    BY <1>1 DEF vars
  <2>2. StatesOK'
    BY <2>1 DEF world, session, Inv, TypeOK, StatesOK
  <2>3. PlacesOK' /\ DialOK'
    BY <2>1 DEF world, dial, Inv, TypeOK, PlacesOK, DialOK
  <2>4. SoundOK'
    BY <2>1 DEF world, sound, Inv, TypeOK, SoundOK
  <2>5. Levels' /\ Copied' /\ Counted'
    BY <2>1 DEF world, sound, Inv, Levels, Copied, Counted
  <2> QED
    BY <2>2, <2>3, <2>4, <2>5 DEF Inv, TypeOK
<1>2. CASE Next
  <2>1. StatesOK' /\ PlacesOK' /\ DialOK'
    BY <1>2, StatesStep, PlacesStep, DialStep DEF Inv, TypeOK
  <2>2. CASE Quiet
    <3>1. /\ UNCHANGED <<sound, scenario>>
          /\ pc["ws"] \notin {"load", "push"} => pc'["ws"] \notin {"load", "push"}
          /\ pc["ws"] \in {"load", "push"} => pc'["ws"] = pc["ws"]
      BY <2>2, QuietFrame DEF Inv, TypeOK
    <3>2. SoundOK'
      BY <3>1 DEF Inv, TypeOK, SoundOK, sound
    <3>3. Levels' /\ Copied' /\ Counted'
      BY <3>1 DEF Inv, Levels, Copied, Counted, sound
    <3> QED
      BY <2>1, <3>2, <3>3 DEF Inv, TypeOK
  <2>3. CASE Sounding
    BY <2>1, <2>3, ReadyStep, PushStep, PlayStep DEF Sounding, Inv, TypeOK
  <2> QED
    BY <1>2, <2>2, <2>3, NextSplit
<1> QED
  BY <1>1, <1>2

-----------------------------------------------------------------------------
(* Whole replies.                                                          *)

(* Where the samples of reply r stand in the queue s.                      *)
Places(s, r) == {i \in DOMAIN s : s[i].reply = r}

(* What is left of a queue without its first k units is the rest of it, in *)
(* order.                                                                  *)
LEMMA Suffix ==
  ASSUME NEW S, NEW s \in Seq(S), NEW k \in 0..Len(s),
         NEW t, t = SubSeq(s, k + 1, Len(s))
  PROVE  t \in Seq(S) /\ Len(t) = Len(s) - k /\ \A i \in 1..Len(t) : t[i] = s[i + k]
<1> DEFINE n == Len(s)
<1>1. /\ n \in Int /\ k \in Int /\ k + 1 \in Int /\ 0 <= k /\ k <= n
      /\ \A i \in (k + 1)..n : s[i] \in S
  OBVIOUS
<1> HIDE DEF n
<1>2. /\ t \in Seq(S) /\ Len(t) = IF k + 1 <= n THEN n - (k + 1) + 1 ELSE 0
      /\ \A i \in 1..(n - (k + 1) + 1) : t[i] = s[(k + 1) + i - 1]
  BY <1>1, SubSeqProperties DEF n
<1>3. Len(t) = n - k
  BY <1>1, <1>2
<1>4. \A i \in 1..(n - k) : t[i] = s[i + k]
  <2> TAKE i \in 1..(n - k)
  <2>1. i \in 1..(n - (k + 1) + 1) /\ (k + 1) + i - 1 = i + k
    BY <1>1
  <2> QED
    BY <1>2, <2>1
<1> QED
  BY <1>2, <1>3, <1>4 DEF n

(* Some of the places of a queue are a finite number of them.              *)
LEMMA PlacesFinite ==
  ASSUME NEW s \in Seq(UnitType), NEW S \in SUBSET DOMAIN s
  PROVE  IsFiniteSet(S) /\ Cardinality(S) \in Nat
<1>1. Len(s) \in Nat /\ DOMAIN s = 1..Len(s)
  OBVIOUS
<1>2. IsFiniteSet(DOMAIN s)
  BY <1>1, FS_Interval
<1> QED
  BY <1>2, FS_Subset, FS_CardinalityType

(* i2s_spk.c:89: what playback takes from the front of the queue and what  *)
(* it leaves there add up to what there was, for every reply.              *)
LEMMA TakenAndLeft ==
  ASSUME NEW s \in Seq(UnitType), NEW r, NEW k \in 0..Len(s)
  PROVE  Cardinality(Places(s, r))
           = Cardinality({i \in 1..k : s[i].reply = r})
             + Cardinality(Places(SubSeq(s, k + 1, Len(s)), r))
<1> DEFINE t     == SubSeq(s, k + 1, Len(s))
           Taken == {i \in 1..k : s[i].reply = r}
           Left  == {i \in (k + 1)..Len(s) : s[i].reply = r}
<1>1. Len(s) \in Nat /\ k \in Nat /\ k <= Len(s) /\ DOMAIN s = 1..Len(s)
  OBVIOUS
<1>2. /\ t \in Seq(UnitType) /\ Len(t) = Len(s) - k /\ DOMAIN t = 1..(Len(s) - k)
      /\ \A i \in DOMAIN t : t[i] = s[i + k]
  <2>1. t \in Seq(UnitType) /\ Len(t) = Len(s) - k /\ \A i \in 1..Len(t) : t[i] = s[i + k]
    BY Suffix
  <2> HIDE DEF t
  <2> QED
    BY <2>1
<1> HIDE DEF t
<1>3. Places(s, r) = Taken \cup Left /\ Taken \cap Left = {}
  BY <1>1 DEF Places
<1>4. /\ IsFiniteSet(Taken) /\ Cardinality(Taken) \in Nat
      /\ IsFiniteSet(Left) /\ Cardinality(Left) \in Nat
  BY <1>1, PlacesFinite
<1>5. Cardinality(Places(s, r)) = Cardinality(Taken) + Cardinality(Left)
  <2> HIDE DEF Taken, Left
  <2>1. Cardinality(Taken \cup Left)
          = Cardinality(Taken) + Cardinality(Left) - Cardinality(Taken \cap Left)
    BY <1>4, FS_Union
  <2>2. Cardinality(Taken \cap Left) = 0
    BY <1>3, FS_EmptySet
  <2> QED
    BY <1>3, <1>4, <2>1, <2>2
<1>6. Cardinality(Places(t, r)) = Cardinality(Left)
  <2> DEFINE f == [i \in Places(t, r) |-> i + k]
  <2>1. f \in Bijection(Places(t, r), Left)
    <3>1. f \in [Places(t, r) -> Left]
      BY <1>1, <1>2 DEF Places
    <3>2. \A a, b \in Places(t, r) : f[a] = f[b] => a = b
      BY <1>1, <1>2 DEF Places
    <3>3. \A j \in Left : \E i \in Places(t, r) : f[i] = j
      <4> TAKE j \in Left
      <4>1. j - k \in Places(t, r)
        BY <1>1, <1>2 DEF Places
      <4>2. f[j - k] = j
        BY <1>1, <4>1
      <4> QED
        BY <4>1, <4>2
    <3> HIDE DEF f
    <3> QED
      BY <3>1, <3>2, <3>3, Fun_IsBij
  <2>2. ExistsBijection(Places(t, r), Left)
    BY <2>1, Fun_ExistsBij
  <2>3. IsFiniteSet(Places(t, r))
    BY <1>2, PlacesFinite DEF Places
  <2> QED
    BY <2>2, <2>3, FS_Bijection
<1> QED
  BY <1>5, <1>6 DEF t

(* What is in the queue and what was heard is counted by Count.            *)
LEMMA CountPlaces == \A r : Count(r) = heard[r] + Cardinality(Places(ring, r))
BY DEF Count, Places

(* Playing moves samples from the queue to what was heard.                 *)
LEMMA WholePlay ==
  ASSUME Inv, WholeReplies, Play
  PROVE  WholeReplies'
<1>1. /\ ring \in Seq(UnitType) /\ heard \in Seq(Nat) /\ Len(heard) = Len(replies)
      /\ replies \in Seq(ReplyType)
  BY DEF Inv, TypeOK, SoundOK
<1>2. PICK k \in 1..MinOf(PlayChunk, Len(ring)) :
        /\ ring' = SubSeq(ring, k + 1, Len(ring))
        /\ heard' = [r \in DOMAIN heard |->
                       heard[r] + Cardinality({i \in 1..k : ring[i].reply = r})]
  BY DEF Play
<1>3. replies' = replies
  BY DEF Play
<1>4. k \in 0..Len(ring)
  BY <1>1, <1>2, SatelliteAssumption DEF MinOf
<1> SUFFICES ASSUME NEW r \in DOMAIN replies
             PROVE  Count(r)' \in {0, replies[r].n}
  BY <1>3 DEF WholeReplies
<1> DEFINE taken == Cardinality({i \in 1..k : ring[i].reply = r})
<1>5. heard[r] \in Nat /\ heard'[r] = heard[r] + taken
  BY <1>1, <1>2
<1>6. taken \in Nat /\ Cardinality(Places(ring', r)) \in Nat
  <2>1. 1..k \subseteq DOMAIN ring /\ ring' \in Seq(UnitType)
    BY <1>1, <1>2, <1>4
  <2> QED
    BY <1>1, <2>1, PlacesFinite DEF Places
<1>7. Cardinality(Places(ring, r)) = taken + Cardinality(Places(ring', r))
  BY <1>1, <1>2, <1>4, TakenAndLeft
<1> HIDE DEF taken
<1>8. Count(r)' = heard'[r] + Cardinality(Places(ring', r))
  BY CountPlaces DEF Count, Places
<1>9. Count(r)' = Count(r)
  BY <1>5, <1>6, <1>7, <1>8, CountPlaces
<1> QED
  BY <1>9 DEF WholeReplies

(* A reply that is pushed joins the queue as a whole or not at all, and    *)
(* nothing of an earlier one is touched.                                   *)
LEMMA WholePush ==
  ASSUME Inv, WholeReplies, Push \/ PushLate
  PROVE  WholeReplies'
<1>1. /\ ring \in Seq(UnitType) /\ heard \in Seq(Nat) /\ Len(heard) = Len(replies)
      /\ replies \in Seq(ReplyType) /\ pcm.n \in Nat /\ Len(replies) \in Nat
  BY DEF Inv, TypeOK, SoundOK, PcmType
<1> DEFINE new == Len(replies) + 1
<1>2. PICK units : units \in {Queued(pcm.n), <<>>} /\ Pushed(units)
  BY DEF Push, PushLate
<1>3. PICK q : q.n = pcm.n /\ replies' = Append(replies, q)
  BY <1>2 DEF Pushed
<1>4. ring' = ring \o units /\ heard' = Append(heard, 0)
  BY <1>2 DEF Pushed
<1>5. /\ units \in Seq(UnitType) /\ Len(units) \in {0, pcm.n}
      /\ \A i \in DOMAIN units : units[i].reply = new
  <2>1. pcm.level \in Int
    BY DEF Inv, TypeOK, SoundOK, PcmType
  <2>2. /\ Queued(pcm.n) \in Seq(UnitType) /\ Len(Queued(pcm.n)) = pcm.n
        /\ \A i \in DOMAIN Queued(pcm.n) : Queued(pcm.n)[i].reply = new
    BY <1>1, <2>1, QueuedUnits
  <2>3. CASE units = <<>>
    BY <2>3
  <2> QED
    BY <1>2, <2>2, <2>3
<1>6. /\ DOMAIN ring' = 1..(Len(ring) + Len(units)) /\ ring' \in Seq(UnitType)
      /\ \A i \in DOMAIN ring : ring'[i] = ring[i]
      /\ \A i \in DOMAIN ring' : i \notin DOMAIN ring => ring'[i].reply = new
  <2>1. /\ ring' \in Seq(UnitType) /\ Len(ring') = Len(ring) + Len(units)
        /\ \A i \in 1..Len(ring') :
             ring'[i] = IF i <= Len(ring) THEN ring[i] ELSE units[i - Len(ring)]
    BY <1>1, <1>4, <1>5
  <2> QED
    BY <1>1, <1>5, <2>1
<1>7. \A i \in DOMAIN ring : ring[i].reply \in DOMAIN replies
  BY DEF Inv, Levels
<1> SUFFICES ASSUME NEW r \in DOMAIN replies'
             PROVE  Count(r)' \in {0, replies'[r].n}
  BY DEF WholeReplies
<1>8. Count(r)' = heard'[r] + Cardinality(Places(ring', r))
  BY CountPlaces DEF Count, Places
<1>9. CASE r \in DOMAIN replies
  <2>1. heard'[r] = heard[r] /\ replies'[r] = replies[r]
    BY <1>1, <1>3, <1>4, <1>9
  <2>2. Places(ring', r) = Places(ring, r)
    BY <1>1, <1>6, <1>9 DEF Places
  <2> QED
    BY <1>8, <1>9, <2>1, <2>2, CountPlaces DEF WholeReplies
<1>10. CASE r \notin DOMAIN replies
  <2>1. r = new /\ heard'[r] = 0 /\ replies'[r].n = pcm.n
    BY <1>1, <1>3, <1>4, <1>10
  <2>2. Places(ring', r) = (Len(ring) + 1)..(Len(ring) + Len(units))
    <3>1. \A i \in DOMAIN ring : ring'[i].reply # r
      BY <1>1, <1>6, <1>7, <2>1
    <3> QED
      BY <1>1, <1>5, <1>6, <2>1, <3>1 DEF Places
  <2>3. Cardinality(Places(ring', r)) = Len(units)
    <3>1. Len(ring) \in Nat /\ Len(units) \in Nat
      BY <1>1, <1>5
    <3> DEFINE a == Len(ring) + 1
               b == Len(ring) + Len(units)
    <3>2. a \in Int /\ b \in Int /\ Len(units) = IF a > b THEN 0 ELSE b - a + 1
      BY <3>1
    <3> HIDE DEF a, b
    <3>3. Cardinality(a..b) = Len(units)
      BY <3>2, FS_Interval
    <3> USE DEF a, b
    <3> QED
      BY <2>2, <3>3
  <2> QED
    BY <1>1, <1>5, <1>8, <2>1, <2>3
<1> QED
  BY <1>9, <1>10

(* No step leaves half of a reply behind; the others do not touch them.    *)
LEMMA WholeStep ==
  ASSUME Inv, WholeReplies, [Next]_vars
  PROVE  WholeReplies'
<1>1. CASE UNCHANGED <<replies, ring, heard>>
  BY <1>1 DEF WholeReplies, Count
<1>2. UNCHANGED vars => UNCHANGED <<replies, ring, heard>>
  BY DEF vars, sound
<1>3. Quiet => UNCHANGED <<replies, ring, heard>>
  BY QuietFrame DEF Inv, TypeOK, sound
<1>4. HubWav \/ HubBinary \/ LoadFails \/ LoadBody \/ FetchBody
        => UNCHANGED <<replies, ring, heard>>
  BY DEF HubWav, HubBinary, LoadFails, LoadBody, FetchBody
<1> QED
  BY <1>1, <1>2, <1>3, <1>4, WholePlay, WholePush, NextSplit DEF Sounding

-----------------------------------------------------------------------------
(* The inductive invariant holds in every reachable state.                 *)
LEMMA Invariance == Spec => []Inv
<1>1. Inv /\ [Next]_vars => Inv'
  BY InvStep
<1> QED
  BY <1>1, InvInit, PTL DEF Spec

(* Every reachable state is of the stated shape: the dial between 0 and    *)
(* 100, the queue within the ring buffer, every task where it may be.      *)
THEOREM SatelliteTypeCorrect == Spec => []TypeOK
<1>1. Inv => TypeOK
  BY DEF Inv
<1> QED
  BY <1>1, Invariance, PTL

(* audio_util.c:41: nothing beyond the end of a body the hub sent is ever  *)
(* copied, whatever its header announces, as long as no block malloc gives *)
(* is near the size of the address space.                                  *)
THEOREM ReadsStayInside == Spec => []ReadsInside
<1>1. Inv => ReadsInside
  BY DEF Inv, Copied, ReadsInside
<1> QED
  BY <1>1, Invariance, PTL

(* audio_util.c:65: nothing queued for the speaker is louder than what was *)
(* sent, or of the other sign, however the dial was turned meanwhile.      *)
THEOREM QueueNeverLouder == Spec => []NeverLouder
<1>1. Inv => NeverLouder
  BY DEF Inv, Levels, NeverLouder
<1> QED
  BY <1>1, Invariance, PTL

(* i2s_spk.c:79: of every reply that was pushed, all samples or none are   *)
(* queued or were heard, for every size of the ring buffer and however     *)
(* playback and pushes interleave: no reply is cut off, none runs into the *)
(* next.                                                                   *)
THEOREM RepliesAreWhole == Spec => []WholeReplies
<1>1. Init => WholeReplies
  BY DEF Init, WholeReplies
<1>2. Inv /\ WholeReplies /\ [Next]_vars => WholeReplies'
  BY WholeStep
<1> QED
  BY <1>1, <1>2, Invariance, PTL DEF Spec
=============================================================================
