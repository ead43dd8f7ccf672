----------------------------- MODULE AudioFocus -----------------------------
(***************************************************************************)
(* Who may play: the audio manager's thread, the HFP client's thread, the   *)
(* A2DP sink's thread and its streaming thread, each with a FIFO queue,     *)
(* and the Bluetooth stack, which is external.                              *)
(*                                                                          *)
(* A stack callback or a command is handled in the step that delivers it:   *)
(* it is posted by somebody who waits for nothing, so the time it spends in *)
(* the queue is time before it is posted.  What the threads post to each    *)
(* other is queued.  All threads are started; GapLifecycle starts and stops *)
(* them.  Left out: the PCM data and its timer, volume, codecs, the call    *)
(* commands that go straight to the stack.                                  *)
(***************************************************************************)
EXTENDS FocusStack, FiniteSets

CONSTANTS
    Device,           \* remote devices that can stream music
    MaxA2dpConn,      \* max_a2dp_conn
    HFP_CLIENT, A2DP_SINK, None,
    MaxInFlight       \* bound: messages queued when the outside world acts

ASSUME AudioAssumption ==
    /\ None \notin Device /\ HFP_CLIENT # A2DP_SINK
    /\ MaxA2dpConn \in Nat \ {0} /\ MaxInFlight \in Nat \ {0}

VARIABLES
    audio_control_stack,
    amQ,              \* the audio manager's queue
    hfpQ,             \* control statuses on their way to the HFP client
    streamQ,          \* the streaming thread's queue
    mClientState, mAudioMode, mcontrolStatus,   \* Hfp_Client
    scoOutput,        \* Hfp_Client::out_stream is open
    hfpLink,          \* external: the stack's hands-free connection
    deviceState,      \* pA2dpDeviceList: no entry, PENDING or CONNECTED
    mStreamingDevice, mResumingDevice,          \* A2dp_Sink_Streaming, both threads use them
    controlStatus,    \* A2dp_Sink_Streaming::controlStatus
    musicOutput,      \* A2dp_Sink_Streaming::out_stream is open
    use_bt_a2dp_hal,  \* read from the configuration, never changed
    sinkDuty,         \* what the sink's thread still has to do in the handler it is in
    a2dpLink          \* external: the stack's A2DP connections

hfpVars  == <<mClientState, mAudioMode, mcontrolStatus, scoOutput, hfpLink>>
sinkVars == <<deviceState, sinkDuty, a2dpLink, use_bt_a2dp_hal>>
streamVars == <<mResumingDevice, controlStatus, musicOutput>>
vars == <<audio_control_stack, amQ, hfpQ, streamQ, hfpVars, sinkVars, streamVars,
          mStreamingDevice>>

Call  == Entry(HFP_CLIENT, "TRANSIENT")
Music == Entry(A2DP_SINK, "PERMANENT")

Request(e) == [event |-> "REQUEST", entry |-> e]
Release(e) == [event |-> "RELEASE", entry |-> e]

StreamCommands == {"AM_REQUEST", "AM_RELEASE", "CLOSE", "DISCONNECTED"}

Init ==
    /\ audio_control_stack = <<>> /\ amQ = <<>> /\ hfpQ = <<>> /\ streamQ = <<>>
    /\ mClientState = "DISCONNECTED" /\ mAudioMode = "NORMAL"
    /\ mcontrolStatus = "LOSS_TRANSIENT" /\ scoOutput = FALSE /\ hfpLink = "down"
    /\ deviceState = [d \in Device |-> None] /\ a2dpLink = [d \in Device |-> "down"]
    /\ mStreamingDevice = None /\ mResumingDevice = None
    /\ controlStatus = "LOSS" /\ musicOutput = FALSE
    /\ use_bt_a2dp_hal \in BOOLEAN /\ sinkDuty = None

(* The outside world acts only while few messages are queued. *)
Room == Len(amQ) + Len(hfpQ) + Len(streamQ) < MaxInFlight

-----------------------------------------------------------------------------
(* The audio manager's thread.                                              *)

(* SendControlStatusMessage: p's queue after everybody in told was told. *)
Deliver(q, p, told) ==
    IF \E t \in told : t.profile = p
    THEN Append(q, (CHOOSE t \in told : t.profile = p).status)
    ELSE q

AudioManagerHandles ==
    /\ amQ # <<>>
    /\ LET msg == Head(amQ)
           result == IF msg.event = "REQUEST"
                     THEN OnRequest(audio_control_stack, msg.entry)
                     ELSE OnRelease(audio_control_stack, msg.entry.profile)
       IN  /\ audio_control_stack' = result.stack
           /\ hfpQ' = Deliver(hfpQ, HFP_CLIENT, result.told)
           /\ streamQ' = Deliver(streamQ, A2DP_SINK, result.told)
    /\ amQ' = Tail(amQ)
    /\ UNCHANGED <<hfpVars, sinkVars, streamVars, mStreamingDevice>>

-----------------------------------------------------------------------------
(* The HFP client's thread.                                                 *)

(* Mutant of RequestCall: the wrong request type. *)
RequestCallForGood ==
    /\ amQ' = Append(amQ, Request(Entry(HFP_CLIENT, "PERMANENT")))
    /\ UNCHANGED mcontrolStatus

RequestCall ==
    /\ amQ' = Append(amQ, Request(Call))
    /\ UNCHANGED mcontrolStatus

(* Every release is followed by mcontrolStatus = STATUS_LOSS_TRANSIENT. *)
ReleaseCall ==
    /\ amQ' = Append(amQ, Release(Call))
    /\ mcontrolStatus' = "LOSS_TRANSIENT"

OnlyHfp == UNCHANGED <<audio_control_stack, streamQ, sinkVars, streamVars, mStreamingDevice>>
HfpWorld == Room /\ OnlyHfp /\ UNCHANGED hfpQ
NoFocusChange == UNCHANGED <<amQ, mcontrolStatus>>

HfpConnectReq ==
    /\ HfpWorld /\ mClientState = "DISCONNECTED"
    /\ mClientState' = "CONNECTING"
    /\ NoFocusChange /\ UNCHANGED <<mAudioMode, scoOutput, hfpLink>>

HfpConnectedCb ==
    /\ HfpWorld /\ hfpLink = "down"
    /\ hfpLink' = "up" /\ mClientState' = "CONNECTING"
    /\ NoFocusChange /\ UNCHANGED <<mAudioMode, scoOutput>>

HfpSlcConnectedCb ==
    /\ HfpWorld /\ hfpLink = "up"
    /\ hfpLink' = "slc" /\ mClientState' = "CONNECTED"
    /\ NoFocusChange /\ UNCHANGED <<mAudioMode, scoOutput>>

HfpDisconnectReq ==
    /\ HfpWorld /\ mClientState = "CONNECTED"
    /\ ReleaseCall /\ mClientState' = "CONNECTING"
    /\ UNCHANGED <<mAudioMode, scoOutput, hfpLink>>

HfpDisconnectingCb ==
    /\ HfpWorld /\ hfpLink = "slc"
    /\ hfpLink' = "closing"
    /\ IF mClientState = "CONNECTED" THEN ReleaseCall ELSE NoFocusChange
    /\ UNCHANGED <<mClientState, mAudioMode, scoOutput>>

(* A connection that ends, or that was asked for and never came about. *)
HfpDisconnectedCb ==
    /\ HfpWorld
    /\ hfpLink \in {"up", "slc", "closing"} \/ mClientState = "CONNECTING"
    /\ hfpLink # "sco"
    /\ hfpLink' = "down" /\ mClientState' = "DISCONNECTED"
    /\ IF mClientState = "CONNECTED"
       THEN ReleaseCall /\ mAudioMode' = "NORMAL"
       ELSE NoFocusChange /\ UNCHANGED mAudioMode
    /\ UNCHANGED scoOutput

(* The focus is asked for unless the status says it is held already. *)
HfpAudioConnectedCb ==
    /\ HfpWorld /\ hfpLink = "slc"
    /\ hfpLink' = "sco"
    /\ IF mClientState = "CONNECTED"
       THEN /\ IF mcontrolStatus \in {"LOSS", "LOSS_TRANSIENT"}
               THEN RequestCall /\ UNCHANGED scoOutput
               ELSE NoFocusChange /\ scoOutput' = TRUE
            /\ mAudioMode' = "IN_CALL" /\ mClientState' = "AUDIO_ON"
       ELSE NoFocusChange /\ UNCHANGED <<mClientState, mAudioMode, scoOutput>>

(* Mutant of HfpAudioDisconnectedCb: the call's focus is kept. *)
AudioDisconnectedKeepsFocus ==
    /\ HfpWorld /\ hfpLink = "sco" /\ hfpLink' = "slc"
    /\ NoFocusChange
    /\ IF mClientState = "AUDIO_ON"
       THEN mAudioMode' = "NORMAL" /\ mClientState' = "CONNECTED" /\ scoOutput' = FALSE
       ELSE UNCHANGED <<mClientState, mAudioMode, scoOutput>>

HfpAudioDisconnectedCb ==
    /\ HfpWorld /\ hfpLink = "sco"
    /\ hfpLink' = "slc"
    /\ IF mClientState = "AUDIO_ON"
       THEN /\ ReleaseCall
            /\ mAudioMode' = "NORMAL" /\ mClientState' = "CONNECTED" /\ scoOutput' = FALSE
       ELSE NoFocusChange /\ UNCHANGED <<mClientState, mAudioMode, scoOutput>>

(* The first ring of a call; a later one only plays the tone again. *)
PlayRingtone ==
    /\ HfpWorld /\ hfpLink = "slc" /\ mClientState = "CONNECTED" /\ mAudioMode # "RINGTONE"
    /\ RequestCall /\ mAudioMode' = "RINGTONE"
    /\ UNCHANGED <<mClientState, scoOutput, hfpLink>>

(* Mutant of StopRingtone: released only once the focus has been gained. *)
StopReleasesOnlyGained ==
    /\ HfpWorld /\ mClientState = "CONNECTED" /\ mAudioMode = "RINGTONE"
    /\ mAudioMode' = "NORMAL"
    /\ IF mcontrolStatus = "GAIN_TRANSIENT" THEN ReleaseCall ELSE NoFocusChange
    /\ UNCHANGED <<mClientState, scoOutput, hfpLink>>

(* HFP_CLIENT_STOP_RINGTONE_REQ, or the user rejects the call. *)
StopRingtone ==
    /\ HfpWorld /\ mClientState = "CONNECTED" /\ mAudioMode = "RINGTONE"
    /\ ReleaseCall /\ mAudioMode' = "NORMAL"
    /\ UNCHANGED <<mClientState, scoOutput, hfpLink>>

(* Mutant of HfpControlStatus: AUDIO_ON only notes the status. *)
ControlStatusOnlyNoted ==
    /\ hfpQ # <<>> /\ hfpQ' = Tail(hfpQ)
    /\ IF mClientState \in {"CONNECTED", "AUDIO_ON"}
       THEN /\ mcontrolStatus' = Head(hfpQ)
            /\ scoOutput' = (scoOutput \/ (mClientState = "CONNECTED" /\ mAudioMode # "RINGTONE"))
       ELSE UNCHANGED <<mcontrolStatus, scoOutput>>
    /\ OnlyHfp /\ UNCHANGED <<amQ, mClientState, mAudioMode, hfpLink>>

(* BT_AM_CONTROL_STATUS: only CONNECTED and AUDIO_ON look at it. *)
HfpControlStatus ==
    /\ hfpQ # <<>> /\ hfpQ' = Tail(hfpQ)
    /\ IF mClientState \in {"CONNECTED", "AUDIO_ON"}
       THEN /\ mcontrolStatus' = Head(hfpQ)
            /\ scoOutput' = (scoOutput \/ (/\ Head(hfpQ) = "GAIN_TRANSIENT"
                                           /\ \/ mClientState = "AUDIO_ON"
                                              \/ mAudioMode # "RINGTONE"))
       ELSE UNCHANGED <<mcontrolStatus, scoOutput>>
    /\ OnlyHfp /\ UNCHANGED <<amQ, mClientState, mAudioMode, hfpLink>>

-----------------------------------------------------------------------------
(* The A2DP sink's thread.                                                  *)

Post(command) == streamQ' = Append(streamQ, command)

OnlySink == UNCHANGED <<audio_control_stack, amQ, hfpQ, hfpVars, streamVars, use_bt_a2dp_hal>>
SinkWorld == Room /\ OnlySink /\ sinkDuty = None

Listed(d) == deviceState[d] # None
ListFull  == Cardinality({d \in Device : Listed(d)}) >= MaxA2dpConn
Streams(d) == mStreamingDevice = d

(* A user's request, or the stack announcing a peer's. *)
SinkConnecting(d) ==
    /\ SinkWorld /\ a2dpLink[d] = "down" /\ ~Listed(d) /\ ~ListFull
    /\ deviceState' = [deviceState EXCEPT ![d] = "PENDING"]
    /\ UNCHANGED <<streamQ, sinkDuty, a2dpLink, mStreamingDevice>>

SinkConnectedCb(d) ==
    /\ SinkWorld /\ a2dpLink[d] = "down"
    /\ a2dpLink' = [a2dpLink EXCEPT ![d] = "up"]
    /\ deviceState' = IF Listed(d) \/ ~ListFull
                      THEN [deviceState EXCEPT ![d] = "CONNECTED"]
                      ELSE deviceState
    /\ UNCHANGED <<streamQ, sinkDuty, mStreamingDevice>>

(* A2DP_SINK_API_DISCONNECT_REQ and A2DP_SINK_DISCONNECTING_CB. *)
SinkDisconnecting(d) ==
    /\ SinkWorld /\ a2dpLink[d] = "up"
    /\ a2dpLink' = [a2dpLink EXCEPT ![d] = "closing"]
    /\ IF deviceState[d] = "CONNECTED"
       THEN /\ deviceState' = [deviceState EXCEPT ![d] = "PENDING"]
            /\ IF Streams(d) THEN Post("CLOSE") ELSE UNCHANGED streamQ
       ELSE UNCHANGED <<deviceState, streamQ>>
    /\ UNCHANGED <<sinkDuty, mStreamingDevice>>

(* change_state(DEVICE_STATE_DISCONNECTED) *)
Erase(d) ==
    /\ deviceState' = [deviceState EXCEPT ![d] = None]
    /\ IF Streams(d)
       THEN mStreamingDevice' = None /\ Post("DISCONNECTED")
       ELSE UNCHANGED <<mStreamingDevice, streamQ>>
    /\ sinkDuty' = None

(* While a connected device streams, the close is posted before the entry goes. *)
SinkDisconnectedCb(d) ==
    /\ SinkWorld
    /\ a2dpLink[d] \in {"up", "closing"} \/ deviceState[d] = "PENDING"
    /\ a2dpLink' = [a2dpLink EXCEPT ![d] = "down"]
    /\ IF deviceState[d] = "CONNECTED" /\ Streams(d)
       THEN /\ Post("CLOSE") /\ sinkDuty' = <<"erase", d>>
            /\ UNCHANGED <<deviceState, mStreamingDevice>>
       ELSE Erase(d)

Start(d) ==
    /\ mStreamingDevice' = d /\ Post("AM_REQUEST")
    /\ sinkDuty' = None

(* A2DP_SINK_AUDIO_STARTED and A2DP_SINK_FOCUS_REQUEST_CB *)
SinkAudioStarted(d) ==
    /\ SinkWorld /\ a2dpLink[d] = "up" /\ deviceState[d] = "CONNECTED"
    /\ IF mStreamingDevice \notin {None, d}
       THEN /\ sinkDuty' = <<"start", d>>
            /\ IF use_bt_a2dp_hal
               THEN Post("CLOSE") /\ UNCHANGED mStreamingDevice
               ELSE Post("AM_RELEASE") /\ mStreamingDevice' = None
       ELSE Start(d)
    /\ UNCHANGED <<deviceState, a2dpLink>>

(* A2DP_SINK_AUDIO_SUSPENDED and A2DP_SINK_AUDIO_STOPPED *)
SinkAudioStopped(d) ==
    /\ SinkWorld /\ a2dpLink[d] = "up" /\ deviceState[d] = "CONNECTED" /\ Streams(d)
    /\ mStreamingDevice' = None /\ Post("AM_RELEASE")
    /\ UNCHANGED <<deviceState, sinkDuty, a2dpLink>>

(* The rest of SinkDisconnectedCb and of SinkAudioStarted. *)
SinkContinues ==
    /\ sinkDuty # None /\ OnlySink /\ UNCHANGED a2dpLink
    /\ \/ sinkDuty[1] = "erase" /\ Erase(sinkDuty[2])
       \/ sinkDuty[1] = "start" /\ Start(sinkDuty[2]) /\ UNCHANGED deviceState

-----------------------------------------------------------------------------
(* The streaming thread.                                                    *)

ToAudioManager(msgs) == amQ' = amQ \o msgs

StreamTakes(command) ==
    /\ streamQ # <<>> /\ Head(streamQ) = command /\ streamQ' = Tail(streamQ)
    /\ UNCHANGED <<audio_control_stack, hfpQ, hfpVars, sinkVars, mStreamingDevice>>

StreamClose ==
    /\ StreamTakes("CLOSE")
    /\ musicOutput' = FALSE /\ ToAudioManager(<<Release(Music)>>)
    /\ UNCHANGED <<mResumingDevice, controlStatus>>

StreamRequest ==
    /\ StreamTakes("AM_REQUEST")
    /\ ToAudioManager(<<Request(Music)>>)
    /\ UNCHANGED streamVars

(* Under a call the entry stays, for the music to come back to. *)
StreamRelease ==
    /\ StreamTakes("AM_RELEASE")
    /\ musicOutput' = FALSE
    /\ ToAudioManager(IF controlStatus # "LOSS_TRANSIENT" THEN <<Release(Music)>> ELSE <<>>)
    /\ UNCHANGED <<mResumingDevice, controlStatus>>

StreamDisconnected ==
    /\ StreamTakes("DISCONNECTED")
    /\ musicOutput' = FALSE
    /\ UNCHANGED <<amQ, mResumingDevice, controlStatus>>

(* The music pauses; the device is remembered. *)
StreamInterrupted ==
    /\ StreamTakes("LOSS_TRANSIENT")
    /\ controlStatus' = "LOSS_TRANSIENT"
    /\ mResumingDevice' = mStreamingDevice /\ musicOutput' = FALSE
    /\ UNCHANGED amQ

StreamGains ==
    /\ StreamTakes("GAIN")
    /\ controlStatus' = "GAIN" /\ musicOutput' = TRUE
    /\ UNCHANGED <<amQ, mResumingDevice>>

(* The remembered device is told to play, and forgotten. *)
StreamRegains ==
    /\ StreamTakes("REGAINED")
    /\ controlStatus' = "REGAINED" /\ musicOutput' = TRUE
    /\ mResumingDevice' = None
    /\ UNCHANGED amQ

-----------------------------------------------------------------------------
HfpEvent ==
    \/ HfpConnectReq \/ HfpConnectedCb \/ HfpSlcConnectedCb
    \/ HfpDisconnectReq \/ HfpDisconnectingCb \/ HfpDisconnectedCb
    \/ HfpAudioConnectedCb \/ HfpAudioDisconnectedCb
    \/ PlayRingtone \/ StopRingtone

SinkEvent == \E d \in Device :
    \/ SinkConnecting(d) \/ SinkConnectedCb(d) \/ SinkDisconnecting(d)
    \/ SinkDisconnectedCb(d) \/ SinkAudioStarted(d) \/ SinkAudioStopped(d)

StreamHandles ==
    \/ StreamClose \/ StreamRequest \/ StreamRelease \/ StreamDisconnected
    \/ StreamInterrupted \/ StreamGains \/ StreamRegains

Next ==
    \/ HfpEvent \/ SinkEvent
    \/ AudioManagerHandles \/ HfpControlStatus \/ SinkContinues \/ StreamHandles

(* Threads run; nothing is assumed of the user, the peers and the stack. *)
Fairness ==
    /\ WF_vars(AudioManagerHandles) /\ WF_vars(HfpControlStatus)
    /\ WF_vars(SinkContinues) /\ WF_vars(StreamHandles)

Spec == Init /\ [][Next]_vars /\ Fairness

-----------------------------------------------------------------------------
Element(e, q) == \E i \in 1..Len(q) : q[i] = e

(* Profile p holds the focus once the audio manager has emptied its queue:  *)
(* its last message there is a request, or there is none and it holds now.  *)
Claims(p) ==
    LET mine == {i \in 1..Len(amQ) : amQ[i].entry.profile = p}
    IN  IF mine = {} THEN Holds(audio_control_stack, p)
        ELSE \E i \in mine : amQ[i].event = "REQUEST" /\ \A j \in mine : j <= i

(* The last control status sent to the streaming thread, handled or not. *)
LastToldA2dp(status) ==
    LET told == {i \in 1..Len(streamQ) : streamQ[i] \in Statuses}
    IN  IF told = {} THEN controlStatus = status
        ELSE \E i \in told : streamQ[i] = status /\ \A j \in told : j <= i

(* The variables hold what their C types and enumerations allow. *)
TypeOK ==
    /\ \A i \in 1..Len(amQ) : amQ[i] \in {Request(Call), Release(Call), Request(Music), Release(Music)}
    /\ \A i \in 1..Len(hfpQ) : hfpQ[i] \in Statuses
    /\ \A i \in 1..Len(streamQ) : streamQ[i] \in Statuses \union StreamCommands
    /\ mClientState \in {"DISCONNECTED", "CONNECTING", "CONNECTED", "AUDIO_ON"}
    /\ mAudioMode \in {"NORMAL", "RINGTONE", "IN_CALL"}
    /\ mcontrolStatus \in Statuses /\ controlStatus \in Statuses
    /\ scoOutput \in BOOLEAN /\ musicOutput \in BOOLEAN /\ use_bt_a2dp_hal \in BOOLEAN
    /\ hfpLink \in {"down", "up", "slc", "sco", "closing"}
    /\ deviceState \in [Device -> {None, "PENDING", "CONNECTED"}]
    /\ a2dpLink \in [Device -> {"down", "up", "closing"}]
    /\ mStreamingDevice \in Device \union {None} /\ mResumingDevice \in Device \union {None}
    /\ sinkDuty \in {None} \union ({"erase", "start"} \X Device)

(* audio_control_stack never holds more than one music entry with one call  *)
(* entry above it, whatever order requests and releases arrive in: the two  *)
(* places of MAX_PROFILE_ENTRIES are enough and AddNewNode never drops one. *)
StackShape == audio_control_stack \in {<<>>, <<Music>>, <<Call>>, <<Music, Call>>}

(* The HFP client is only ever told GAIN_TRANSIENT: the three other cases   *)
(* its handlers mark "this should not occur" do not (HfpClient.cpp:836).    *)
HfpNeverDenied == \A i \in 1..Len(hfpQ) : hfpQ[i] = "GAIN_TRANSIENT"

(* The two places are enough, and nobody is told that they were not.        *)
RoomForEverybody == StackShape /\ HfpNeverDenied

(* The last thing the audio manager told the music agrees with where its    *)
(* entry is: it may play exactly if the entry is on top.  ProcessEvent      *)
(* changes the stack and posts the statuses in two different orders.        *)
A2dpToldItsPlace ==
    \A i \in 1..Len(audio_control_stack) :
        audio_control_stack[i].profile = A2DP_SINK =>
            IF i = Len(audio_control_stack)
            THEN LastToldA2dp("GAIN") \/ LastToldA2dp("REGAINED")
            ELSE LastToldA2dp("LOSS_TRANSIENT")

(* A call's entry is known to its owner or on its way out: the HFP client   *)
(* has been told, will be told, or has posted the release.                  *)
HfpEntryIsOwned ==
    Holds(audio_control_stack, HFP_CLIENT) =>
        \/ mcontrolStatus = "GAIN_TRANSIENT"
        \/ Element("GAIN_TRANSIENT", hfpQ)
        \/ Element(Release(Call), amQ)

(* Without a ring or a call no call entry stays behind, in whatever order   *)
(* rings, connections and hang-ups came: it would silence the music for     *)
(* good, because every request under it is denied.                          *)
NoStuckCall == mAudioMode = "NORMAL" => ~Claims(HFP_CLIENT)

(* "we already have the focus, configure for SCO connection. TODO: cross    *)
(* check" (HfpClient.cpp:772): when SCO connects and the status does not    *)
(* say the focus is lost, the HFP client has an entry on the stack.         *)
AlreadyHaveFocus ==
    mClientState = "CONNECTED" /\ hfpLink = "slc" /\ mcontrolStatus = "GAIN_TRANSIENT"
        => Holds(audio_control_stack, HFP_CLIENT)

(* A connected SCO link gets its audio path, or goes away: no status is     *)
(* lost between the two threads and no request is denied (HfpClient.cpp:752 *)
(* to 790 and 1054 to 1077).                                                *)
CallGetsAudio == mClientState = "AUDIO_ON" ~> (scoOutput \/ mClientState # "AUDIO_ON")

(* Music that a call interrupted gets the top of the stack back when the    *)
(* call is over (Audio_Manager.cpp:342 to 348).                             *)
MusicComesBack ==
    (mAudioMode = "NORMAL" /\ audio_control_stack = <<Music, Call>>)
        ~> (audio_control_stack # <<Music, Call>>)
==============================================================================
