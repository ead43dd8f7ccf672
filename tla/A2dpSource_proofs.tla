-------------------------- MODULE A2dpSource_proofs --------------------------
(***************************************************************************)
(* Safety of A2dpSource and of AvrcpVolume, for every number of playback     *)
(* threads, every set of notifications, and every range of steps and         *)
(* volumes.  The two share no state, and each is proved by itself.           *)
(***************************************************************************)
EXTENDS A2dpSource, AvrcpVolume, SequenceTheorems, TLAPS

-----------------------------------------------------------------------------
(* The output stream and the play status.                                    *)

(* What the controller has been told only goes stale in a handler that ends  *)
(* the connection, and the stream is only open where one is about to close   *)
(* it: both are inductive as they stand.                                     *)
SourceIInv == StreamOwned /\ ControllerKnows

LEMMA SourceInit == Init => SourceIInv
<1> SUFFICES ASSUME Init PROVE SourceIInv
  OBVIOUS
<1>1. player \in [Player -> {"started", "loop", "write", "leave", "done"}]
  BY DEF Init
<1>2. posTimeouts \in 0 .. MaxTimeouts
  BY SourceAssumption DEF Init
<1>3. {mConnectedDevice, mAvrcpConnected, a2dp_device, output_stream, media_playing,
       play_pos_timer, posAlarm, timerLost, crashed} \subseteq BOOLEAN
  BY DEF Init
<1>4. TypeOK
  BY <1>1, <1>2, <1>3 DEF Init, TypeOK
<1> QED
  BY <1>4 DEF Init, SourceIInv, StreamOwned, ControllerKnows

(* The playback threads write to the stream and do not close it.             *)
LEMMA PlayersKeep == SourceIInv /\ (\E t \in Player : PlayerStep(t)) => SourceIInv'
<1> SUFFICES ASSUME SourceIInv, NEW t \in Player, PlayerStep(t) PROVE SourceIInv'
  OBVIOUS
<1> USE DEF connVars, halVars, notiVars, timerVars
<1>1. UNCHANGED <<connVars, mAvrcpConnected, halVars, playStatus, notiVars, timerVars, crashed,
                  playback_thread, duty>>
  BY DEF PlayerStep, PlayerStarts, PlayerTests, PlayerWrites, PlayerLeaves
<1>2. /\ player' \in [Player -> {"started", "loop", "write", "leave", "done"}]
      /\ media_playing' \in BOOLEAN
  BY DEF PlayerStep, PlayerStarts, PlayerTests, PlayerWrites, PlayerLeaves, MoveTo,
         SourceIInv, StreamOwned, TypeOK
<1> QED
  BY <1>1, <1>2 DEF SourceIInv, StreamOwned, ControllerKnows, TypeOK

(* The connection comes up, goes down, and the source is started and         *)
(* stopped; the stream is closed once the playback thread has been joined.   *)
LEMMA ConnectionKeeps == SourceIInv /\ ConnectionNext => SourceIInv'
<1> SUFFICES ASSUME SourceIInv, ConnectionNext PROVE SourceIInv'
  OBVIOUS
<1> USE SourceAssumption DEF connVars, halVars, playVars, notiVars, timerVars,
        SourceIInv, StreamOwned, ControllerKnows, TypeOK
<1>1. CASE HandleEnableSource
  BY <1>1 DEF HandleEnableSource, Free
<1>2. CASE HandleDisableSource
  BY <1>2 DEF HandleDisableSource, Free, JoinThen
<1>3. CASE ApiConnectReq \/ ConnectingCb
  BY <1>3 DEF ApiConnectReq, ConnectingCb, Free
<1>4. CASE ApiDisconnectReq
  BY <1>4 DEF ApiDisconnectReq, Free
<1>5. CASE ConnectedCb
  BY <1>5 DEF ConnectedCb, Free, InterfaceIsNull
<1>6. CASE DisconnectingCb
  BY <1>6 DEF DisconnectingCb, Free
<1>7. CASE DisconnectedCb
  BY <1>7 DEF DisconnectedCb, Free, JoinThen
<1>8. CASE DisconnectedCbEnds
  BY <1>8 DEF DisconnectedCbEnds, Joined
<1>9. CASE HandleDisableSourceEnds
  BY <1>9 DEF HandleDisableSourceEnds, Joined
<1>10. CASE StopEnds
  BY <1>10 DEF StopEnds, Joined, StopPlayPostionTimer, BecomePlayStatus
<1> QED
  BY <1>1, <1>2, <1>3, <1>4, <1>5, <1>6, <1>7, <1>8, <1>9, <1>10 DEF ConnectionNext, WorkAfterJoin

(* The commands of the user and the controller, its registrations, and the   *)
(* position timer.                                                          *)
LEMMA TargetKeeps == SourceIInv /\ TargetNext => SourceIInv'
<1> SUFFICES ASSUME SourceIInv, TargetNext PROVE SourceIInv'
  OBVIOUS
<1> USE SourceAssumption DEF connVars, halVars, playVars, notiVars, timerVars,
        SourceIInv, StreamOwned, ControllerKnows, TypeOK
<1>0. Crash => SourceIInv'
  BY DEF Crash
<1>1. CASE AvrcpConnectedCb
  BY <1>1 DEF AvrcpConnectedCb
<1>2. CASE AddrPlayerChanged
  BY <1>0, <1>2 DEF AddrPlayerChanged
<1>3. ASSUME NEW e \in PlayerEvents \union OtherEvents, RegNoti(e) PROVE SourceIInv'
  <2>1. CASE e = "PLAY_POS_CHANGED" /\ playStatus = "PLAYING"
    BY <1>3, <2>1 DEF RegNoti, StartPlayPostionTimer
  <2>2. CASE ~(e = "PLAY_POS_CHANGED" /\ playStatus = "PLAYING")
    BY <1>3, <2>2 DEF RegNoti
  <2> QED
    BY <2>1, <2>2
<1>4. ASSUME NEW events \in Notices, Notify(events) PROVE SourceIInv'
  BY <1>0, <1>4 DEF Notify
<1>5. StartStreaming =>
        /\ media_playing' \in BOOLEAN /\ playback_thread' \in Player \union {None} /\ duty' = duty
        /\ player' \in [Player -> {"started", "loop", "write", "leave", "done"}]
  BY DEF StartStreaming, MoveTo
<1>6. ASSUME NEW status \in {"STOPPED", "PLAYING", "PAUSED"}, NEW also, BecomePlayStatus(status, also)
      PROVE  /\ playStatus' \in {"STOPPED", "PLAYING", "PAUSED"}
             /\ registered' \subseteq PlayerEvents \union OtherEvents
             /\ told' \in {"STOPPED", "PLAYING", "PAUSED", None}
             /\ mSourceState = "CONNECTED" /\ told' # None => told' = playStatus'
  BY <1>6 DEF BecomePlayStatus
<1>7. StartPlayPostionTimer \/ StopPlayPostionTimer
         \/ UNCHANGED <<play_pos_timer, posAlarm, timerLost>> =>
      {play_pos_timer', posAlarm', timerLost'} \subseteq BOOLEAN
  BY DEF StartPlayPostionTimer, StopPlayPostionTimer
<1>12. CASE Play
  <2>1. CASE Crash
    BY <1>0, <2>1
  <2>2. CASE ~Crash
    <3>1. /\ StartStreaming \/ UNCHANGED playVars
          /\ BecomePlayStatus("PLAYING", {"TRACK_CHANGED"})
          /\ StartPlayPostionTimer \/ UNCHANGED <<play_pos_timer, posAlarm, timerLost>>
          /\ UNCHANGED <<connVars, mAvrcpConnected, halVars, posTimeouts, crashed>>
      BY <1>12, <2>2 DEF Play
    <3>2. {play_pos_timer', posAlarm', timerLost'} \subseteq BOOLEAN
      BY <1>7, <3>1
    <3>3. /\ media_playing' \in BOOLEAN /\ playback_thread' \in Player \union {None}
          /\ duty' = duty
          /\ player' \in [Player -> {"started", "loop", "write", "leave", "done"}]
      BY <1>5, <3>1
    <3> QED
      BY <1>6, <3>1, <3>2, <3>3
  <2> QED
    BY <2>1, <2>2
<1>13. CASE Pause
  <2>1. CASE Crash
    BY <1>0, <2>1
  <2>2. CASE ~Crash
    <3>1. /\ StopPlayPostionTimer /\ BecomePlayStatus("PAUSED", {})
          /\ UNCHANGED <<connVars, mAvrcpConnected, halVars, playVars, posTimeouts, crashed>>
      BY <1>13, <2>2 DEF Pause
    <3>2. {play_pos_timer', posAlarm', timerLost'} \subseteq BOOLEAN
      BY <1>7, <3>1
    <3> QED
      BY <1>6, <3>1, <3>2
  <2> QED
    BY <2>1, <2>2
<1>8. CASE Stop
  BY <1>0, <1>8 DEF Stop, JoinThen, Free
<1>9. CASE AvdtPlay
  BY <1>5, <1>9 DEF AvdtPlay
<1>10. CASE PlayPosTimehandler
  <2>1. posTimeouts' \in 0 .. MaxTimeouts
    BY <1>10 DEF PlayPosTimehandler
  <2>2. {posAlarm'} \subseteq BOOLEAN
    BY <1>10 DEF PlayPosTimehandler
  <2> QED
    BY <1>10, <2>1, <2>2 DEF PlayPosTimehandler
<1>11. CASE PlayPositionTimeout
  <2>1. posTimeouts' \in 0 .. MaxTimeouts
    BY <1>11 DEF PlayPositionTimeout
  <2>2. {play_pos_timer', posAlarm', timerLost'} \subseteq BOOLEAN
    BY <1>7, <1>11 DEF PlayPositionTimeout
  <2> QED
    BY <1>11, <2>1, <2>2 DEF PlayPositionTimeout
<1> QED
  BY <1>1, <1>2, <1>3, <1>4, <1>8, <1>9, <1>10, <1>11, <1>12, <1>13 DEF TargetNext

LEMMA SpecSourceIInv == Spec => []SourceIInv
<1>1. ASSUME SourceIInv, [Next]_vars PROVE SourceIInv'
  <2>1. CASE UNCHANGED vars
    BY <1>1, <2>1 DEF vars, connVars, halVars, playVars, notiVars, timerVars, SourceIInv,
                      StreamOwned, ControllerKnows, TypeOK
  <2> QED
    BY <1>1, <2>1, PlayersKeep, ConnectionKeeps, TargetKeeps DEF Next
<1> QED
  BY <1>1, SourceInit, PTL DEF Spec

(* BtA2dpCloseOutputStream and BtA2dpUnloadA2dpHal close the stream before    *)
(* the connection or the HAL it was opened for is gone, although both wait   *)
(* for the playback thread in between.                                       *)
THEOREM SpecStreamOwned == Spec => []StreamOwned
<1>1. SourceIInv => StreamOwned
  BY DEF SourceIInv
<1> QED
  BY <1>1, SpecSourceIInv, PTL

(* A change of the play status of a connected source answers the             *)
(* controller's registration, in HandleAvrcpEvents as in the handlers of     *)
(* commands, disconnections and restarts.                                    *)
THEOREM SpecControllerKnows == Spec => []ControllerKnows
<1>1. SourceIInv => ControllerKnows
  BY DEF SourceIInv
<1> QED
  BY <1>1, SpecSourceIInv, PTL

-----------------------------------------------------------------------------
(* The absolute volume.                                                      *)

(* A step that the speaker takes as it is comes back as the same step        *)
(* (convertToAvrcpVolume, convertToAudioStreamVolume).                       *)
THEOREM RoundTrip ==
    ASSUME NEW step \in 0 .. mAudioStreamMax
    PROVE  /\ convertToAvrcpVolume(step) \in 0 .. AVRCP_MAX_VOL
           /\ convertToAudioStreamVolume(convertToAvrcpVolume(step)) = step
  BY SMTT(30) DEF mAudioStreamMax, AVRCP_MAX_VOL, convertToAvrcpVolume,
                  convertToAudioStreamVolume

Messages == [type : TakesVolume \union {"REJ", "TIMEOUT"}, volume : Int]

(* The last volume on its way to the source is the speaker's; if none is,    *)
(* the source has it, or has none.                                           *)
Follows(queue, local, remote) ==
    \/ \E i \in 1 .. Len(queue) :
          /\ queue[i].type \in TakesVolume /\ queue[i].volume = remote
          /\ \A j \in 1 .. Len(queue) : i < j => queue[j].type \notin TakesVolume
    \/ /\ \A j \in 1 .. Len(queue) : queue[j].type \notin TakesVolume
       /\ local \in {-1, convertToAudioStreamVolume(remote)}

VolumeIInv ==
    /\ volumeQ \in Seq(Messages) /\ asked \in Seq(Int) /\ remoteVolume \in Int
    /\ ~strayed => Follows(volumeQ, mLocalVolume, remoteVolume)

LEMMA FollowsDelivery ==
    ASSUME NEW queue \in Seq(Messages), NEW m \in Messages, NEW local, NEW remote, NEW now,
           \/ m.type \in TakesVolume /\ m.volume = now
           \/ m.type \notin TakesVolume /\ now = remote /\ Follows(queue, local, remote)
    PROVE  Follows(Append(queue, m), local, now)
<1> DEFINE longer == Append(queue, m)
<1>1. /\ Len(queue) \in Nat /\ Len(longer) = Len(queue) + 1
      /\ longer[Len(queue) + 1] = m /\ \A i \in 1 .. Len(queue) : longer[i] = queue[i]
  OBVIOUS
<1> HIDE DEF longer
<1>2. CASE m.type \in TakesVolume /\ m.volume = now
  <2>1. Len(queue) + 1 \in 1 .. Len(longer)
        /\ \A j \in 1 .. Len(longer) : ~(Len(queue) + 1 < j)
    BY <1>1
  <2> QED
    BY <1>1, <1>2, <2>1 DEF Follows, longer
<1>3. CASE m.type \notin TakesVolume /\ now = remote /\ Follows(queue, local, remote)
  <2>1. \A i \in 1 .. Len(longer) : i # Len(queue) + 1 => i \in 1 .. Len(queue)
    BY <1>1
  <2>2. \A i \in 1 .. Len(queue) : i \in 1 .. Len(longer)
    BY <1>1
  <2> QED
    BY <1>1, <1>3, <2>1, <2>2 DEF Follows, longer
<1> QED
  BY <1>2, <1>3

LEMMA FollowsHandled ==
    ASSUME NEW queue \in Seq(Messages), queue # <<>>, NEW local, NEW remote, NEW new,
           Follows(queue, local, remote),
           IF Head(queue).type \in TakesVolume
           THEN new = convertToAudioStreamVolume(Head(queue).volume) ELSE new = local
    PROVE  Follows(Tail(queue), new, remote)
<1>1. /\ Len(Tail(queue)) = Len(queue) - 1 /\ Len(queue) \in Nat \ {0} /\ Head(queue) = queue[1]
      /\ \A i \in 1 .. Len(Tail(queue)) : Tail(queue)[i] = queue[i + 1] /\ i + 1 \in 1 .. Len(queue)
  BY HeadTailProperties
<1>2. \A i \in 1 .. Len(queue) : i # 1 => i - 1 \in 1 .. Len(Tail(queue)) /\ queue[i] = Tail(queue)[i - 1]
  BY <1>1
<1>3. ASSUME NEW i \in 1 .. Len(queue), queue[i].type \in TakesVolume, queue[i].volume = remote,
             \A j \in 1 .. Len(queue) : i < j => queue[j].type \notin TakesVolume
      PROVE  Follows(Tail(queue), new, remote)
  <2>1. CASE i = 1
    <3>1. \A j \in 1 .. Len(Tail(queue)) : Tail(queue)[j].type \notin TakesVolume
      BY <1>1, <1>3, <2>1
    <3>2. new = convertToAudioStreamVolume(remote)
      BY <1>1, <1>3, <2>1
    <3> QED
      BY <3>1, <3>2 DEF Follows
  <2>2. CASE i # 1
    <3>1. /\ i - 1 \in 1 .. Len(Tail(queue)) /\ Tail(queue)[i - 1] = queue[i]
          /\ \A j \in 1 .. Len(Tail(queue)) : i - 1 < j => Tail(queue)[j].type \notin TakesVolume
      BY <1>1, <1>2, <1>3, <2>2
    <3> QED
      BY <1>3, <3>1 DEF Follows
  <2> QED
    BY <2>1, <2>2
<1>4. CASE /\ \A j \in 1 .. Len(queue) : queue[j].type \notin TakesVolume
           /\ local \in {-1, convertToAudioStreamVolume(remote)}
  BY <1>1, <1>4 DEF Follows
<1> QED
  BY <1>3, <1>4 DEF Follows

LEMMA VolumeInitIInv == VolumeInit => VolumeIInv
<1> SUFFICES ASSUME VolumeInit PROVE VolumeIInv
  OBVIOUS
<1>1. volumeQ = <<>> /\ asked = <<>> /\ mLocalVolume = -1 /\ remoteVolume \in Int
  BY VolumeAssumption DEF VolumeInit, AVRCP_MAX_VOL
<1> QED
  BY <1>1 DEF VolumeIInv, Follows

LEMMA VolumeNextIInv == VolumeIInv /\ [VolumeNext]_volumeVars => VolumeIInv'
<1> SUFFICES ASSUME VolumeIInv, [VolumeNext]_volumeVars PROVE VolumeIInv'
  OBVIOUS
<1>0. /\ volumeQ \in Seq(Messages) /\ asked \in Seq(Int) /\ remoteVolume \in Int
      /\ ~strayed => Follows(volumeQ, mLocalVolume, remoteVolume)
      /\ Volumes \subseteq Int
  BY VolumeAssumption DEF VolumeIInv, AVRCP_MAX_VOL
<1>1. ASSUME NEW type \in TakesVolume \union {"REJ", "TIMEOUT"}, NEW volume \in Int,
             Deliver(type, volume), UNCHANGED mLocalVolume, strayed => strayed',
             \/ type \in TakesVolume /\ volume = remoteVolume'
             \/ type \notin TakesVolume /\ UNCHANGED remoteVolume
      PROVE  volumeQ' \in Seq(Messages)
             /\ (~strayed' => Follows(volumeQ', mLocalVolume', remoteVolume'))
  <2> DEFINE m == [type |-> type, volume |-> volume]
  <2>1. m \in Messages /\ m.type = type /\ m.volume = volume /\ volumeQ' = Append(volumeQ, m)
    BY <1>1 DEF Deliver, Messages
  <2>2. ASSUME ~strayed' PROVE Follows(volumeQ', mLocalVolume', remoteVolume')
    <3>1. Follows(volumeQ, mLocalVolume, remoteVolume)
      BY <1>0, <1>1, <2>2
    <3> HIDE DEF m
    <3> QED
      BY <1>0, <1>1, <2>1, <3>1, FollowsDelivery
  <2> QED
    BY <1>0, <2>1, <2>2
<1>2. CASE RcFeatures
  <2>1. ~strayed' => volumeQ' = <<>> /\ mLocalVolume' = -1
    BY <1>2 DEF RcFeatures
  <2> QED
    BY <1>0, <1>2, <2>1 DEF RcFeatures, VolumeIInv, Follows
<1>3. CASE ForgetSupport
  BY <1>0, <1>3 DEF ForgetSupport, VolumeIInv
<1>4. CASE SpeakerReports
  <2>1. UNCHANGED <<mLocalVolume, asked>> /\ (strayed => strayed')
    BY <1>4 DEF SpeakerReports
  <2>2. PICK type \in {"INTERIM", "CHANGED"} : Deliver(type, remoteVolume') /\ remoteVolume' \in Int
    BY <1>0, <1>4 DEF SpeakerReports
  <2> QED
    BY <1>0, <1>1, <2>1, <2>2 DEF TakesVolume, VolumeIInv
<1>5. CASE SpeakerAnswers
  <2>1. /\ UNCHANGED <<mLocalVolume, strayed>> /\ asked' = Tail(asked)
        /\ Tail(asked) \in Seq(Int) /\ Head(asked) \in Int
    BY <1>0, <1>5 DEF SpeakerAnswers
  <2>2. \/ Deliver("ACCEPT", remoteVolume') /\ remoteVolume' \in Int
        \/ Deliver("REJ", Head(asked)) /\ UNCHANGED remoteVolume
    BY <1>0, <1>5, <2>1 DEF SpeakerAnswers
  <2> QED
    BY <1>0, <1>1, <2>1, <2>2 DEF TakesVolume, VolumeIInv
<1>6. CASE AnswerLost
  <2>1. asked' = Tail(asked) /\ Tail(asked) \in Seq(Int) /\ Head(asked) \in Int
    BY <1>0, <1>6 DEF AnswerLost
  <2> QED
    BY <1>0, <1>6, <2>1 DEF AnswerLost, VolumeIInv
<1>7. CASE TimerExpires
  BY <1>0, <1>1, <1>7 DEF TimerExpires, TakesVolume, VolumeIInv
<1>8. CASE VolumeChanged \/ AbsVolTimeout
  <2>1. /\ volumeQ # <<>> /\ volumeQ' = Tail(volumeQ) /\ Tail(volumeQ) \in Seq(Messages)
        /\ UNCHANGED <<asked, remoteVolume>> /\ (strayed => strayed')
    <3>1. volumeQ # <<>> /\ volumeQ' = Tail(volumeQ) /\ UNCHANGED <<asked, remoteVolume>>
      BY <1>8 DEF VolumeChanged, AbsVolTimeout
    <3>2. strayed => strayed'
      BY <1>8 DEF VolumeChanged, AbsVolTimeout
    <3> QED
      BY <1>0, <3>1, <3>2
  <2>2. ~strayed' => IF Head(volumeQ).type \in TakesVolume
                     THEN mLocalVolume' = convertToAudioStreamVolume(Head(volumeQ).volume)
                     ELSE mLocalVolume' = mLocalVolume
    BY <1>8 DEF VolumeChanged, AbsVolTimeout, TakesVolume
  <2>3. ~strayed' => Follows(volumeQ', mLocalVolume', remoteVolume')
    BY <1>0, <2>1, <2>2, FollowsHandled
  <2> QED
    BY <1>0, <2>1, <2>3 DEF VolumeIInv
<1>9. ASSUME NEW step \in Steps, SetAbsVol(step) PROVE VolumeIInv'
  <2>1. convertToAvrcpVolume(step) \in Int
    BY VolumeAssumption, RoundTrip DEF AVRCP_MAX_VOL
  <2>2. asked' \in Seq(Int)
    BY <1>0, <1>9, <2>1 DEF SetAbsVol
  <2> QED
    BY <1>0, <1>9, <2>2 DEF SetAbsVol, VolumeIInv
<1>10. CASE UNCHANGED volumeVars
  BY <1>0, <1>10 DEF volumeVars, VolumeIInv
<1> QED
  BY <1>2, <1>3, <1>4, <1>5, <1>6, <1>7, <1>8, <1>9, <1>10 DEF VolumeNext

(* Whatever the speaker's keys and the user's commands do, in                *)
(* AVRCP_TARGET_VOLUME_CHANGED the source ends with the speaker's volume, as *)
(* long as every answer came and met its command.                            *)
THEOREM VolumeVolumesAgree == VolumeSpec => []VolumesAgree
<1>1. ASSUME VolumeIInv PROVE VolumesAgree
  <2>1. \A step \in Steps : convertToAudioStreamVolume(convertToAvrcpVolume(step)) = step
    BY VolumeAssumption, RoundTrip
  <2>2. ~strayed /\ volumeQ = <<>> => mLocalVolume \in {-1, convertToAudioStreamVolume(remoteVolume)}
    BY <1>1 DEF VolumeIInv, Follows
  <2> QED
    BY <2>1, <2>2 DEF VolumesAgree
<1> QED
  BY <1>1, VolumeInitIInv, VolumeNextIInv, PTL DEF VolumeSpec
=============================================================================
