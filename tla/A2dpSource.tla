----------------------------- MODULE A2dpSource -----------------------------
(***************************************************************************)
(* Playing music to a remote speaker (a2dp_src/src/A2dp_Src.cpp): the A2DP   *)
(* source's thread, the playback threads it creates and joins, the output   *)
(* stream they share, and the AVRCP target: the remote controller's         *)
(* registrations and the play position timer.  One remote device.           *)
(*                                                                          *)
(* A command or a stack callback is handled in the step that delivers it,    *)
(* as in AudioFocus.  pthread_join is two steps: the thread handles nothing  *)
(* between them.                                                            *)
(*                                                                          *)
(* Left out: codecs, the data read and written, the split and pumping        *)
(* modes, browsing and element attributes; the volume is in AvrcpVolume.     *)
(***************************************************************************)
EXTENDS Naturals, FiniteSets

CONSTANTS
    Player,         \* playback threads that may exist at one time
    None,
    PlayerEvents,   \* notifications of the addressed player: PLAY_STATUS_CHANGED,
                    \* PLAY_POS_CHANGED and the others that a change of player rejects
    OtherEvents,    \* ADDR_PLAYER_CHANGED, AVAIL_PLAYER_CHANGED, UIDS_CHANGED
    MaxTimeouts     \* bound of the timeouts in the source's queue

ASSUME SourceAssumption ==
    /\ None \notin Player \union {"disconnect", "disable", "stop"}
    /\ {"PLAY_STATUS_CHANGED", "PLAY_POS_CHANGED"} \subseteq PlayerEvents
    /\ OtherEvents \subseteq {"ADDR_PLAYER_CHANGED", "AVAIL_PLAYER_CHANGED", "UIDS_CHANGED"}
    /\ MaxTimeouts \in Nat \ {0}

VARIABLES
    mSourceState,
    link,             \* external: the stack's A2DP connection, as its callbacks tell
    mConnectedDevice, \* is the device's address, not zero
    mAvrcpConnected,
    a2dp_device,      \* the A2DP HAL is loaded
    output_stream,    \* is open
    media_playing,    \* shared with the playback threads, without a lock
    player,           \* where each playback thread is; "done" if it has not begun
    playback_thread,  \* the handle of the last one created
    duty,             \* what the source's thread does once pthread_join returns
    playStatus,
    registered,       \* notifications whose type is INTERIM
    play_pos_timer,   \* the flag of the play position timer
    posAlarm,         \* its alarm is set
    posTimeouts,      \* AVRCP_TARGET_PLAY_POSITION_TIMEOUT events queued
    told,             \* history: the play status sent to a controller that has registered
                      \* for PLAY_STATUS_CHANGED since the connection and waits for the
                      \* change; else None
    timerLost,        \* history: the alarm was freed and the timer's flag stayed set
    crashed           \* the process died of a null interface

connVars  == <<mSourceState, link, mConnectedDevice>>
halVars   == <<a2dp_device, output_stream>>
playVars  == <<media_playing, player, playback_thread, duty>>
notiVars  == <<registered, told>>
timerVars == <<play_pos_timer, posAlarm, posTimeouts, timerLost>>
vars == <<connVars, mAvrcpConnected, halVars, playVars, playStatus, notiVars,
          timerVars, crashed>>

Init ==
    /\ mSourceState = "NOT_STARTED" /\ link = "down" /\ mConnectedDevice = FALSE
    /\ mAvrcpConnected = FALSE /\ a2dp_device = FALSE /\ output_stream = FALSE
    /\ media_playing = FALSE /\ player = [t \in Player |-> "done"]
    /\ playback_thread = None /\ duty = None
    /\ playStatus = "STOPPED" /\ registered = {} /\ told = None
    /\ play_pos_timer = FALSE /\ posAlarm = FALSE /\ posTimeouts = 0
    /\ timerLost = FALSE /\ crashed = FALSE

-----------------------------------------------------------------------------
(* The playback threads: thread_func.                                       *)

MoveTo(t, pc) == player' = [player EXCEPT ![t] = pc]

(* Without an output stream, or with a wrong buffer size, the thread ends    *)
(* at once and media_playing stays as it is.                                *)
PlayerStarts(t) ==
    /\ player[t] = "started"
    /\ MoveTo(t, "done") \/ (output_stream /\ MoveTo(t, "loop"))
    /\ UNCHANGED <<media_playing, playback_thread, duty>>

PlayerTests(t) ==
    /\ player[t] = "loop"
    /\ MoveTo(t, IF media_playing THEN "write" ELSE "leave")
    /\ UNCHANGED <<media_playing, playback_thread, duty>>

(* A write, or a round of the loop without one; the loop is left when there  *)
(* is no stream any more, or when relayed data is in another codec.          *)
PlayerWrites(t) ==
    /\ player[t] = "write"
    /\ MoveTo(t, "leave") \/ (output_stream /\ MoveTo(t, "loop"))
    /\ UNCHANGED <<media_playing, playback_thread, duty>>

PlayerLeaves(t) ==
    /\ player[t] = "leave"
    /\ media_playing' = FALSE
    /\ MoveTo(t, "done")
    /\ UNCHANGED <<playback_thread, duty>>

PlayerStep(t) ==
    /\ ~crashed
    /\ PlayerStarts(t) \/ PlayerTests(t) \/ PlayerWrites(t) \/ PlayerLeaves(t)
    /\ UNCHANGED <<connVars, mAvrcpConnected, halVars, playStatus, notiVars, timerVars,
                   crashed>>

-----------------------------------------------------------------------------
(* The source's thread.                                                     *)

Free == ~crashed /\ duty = None

(* The stack's interfaces, which HandleDisableSource sets to NULL.           *)
InterfaceIsNull == mSourceState = "NOT_STARTED"

(* BtA2dpStartStreaming, when the file opens and the thread is created, when *)
(* the file does not open, and when the thread is not created.              *)
StartStreaming ==
    \/ /\ ~media_playing
       /\ media_playing' = TRUE
       /\ \/ \E t \in Player :
                /\ player[t] = "done" /\ playback_thread # t
                /\ MoveTo(t, "started") /\ playback_thread' = t
          \/ UNCHANGED <<player, playback_thread>>
       /\ UNCHANGED duty
    \/ UNCHANGED playVars

(* media_playing = false and pthread_join; what follows is WorkAfterJoin.    *)
JoinThen(work) ==
    /\ media_playing' = FALSE /\ duty' = work
    /\ UNCHANGED <<player, playback_thread>>

(* The alarm of the play position timer exists while the source is started.  *)
StartPlayPostionTimer ==
    /\ play_pos_timer' = TRUE
    /\ posAlarm' = (posAlarm \/ ~play_pos_timer)
    /\ UNCHANGED timerLost

StopPlayPostionTimer ==
    IF mSourceState # "NOT_STARTED" /\ play_pos_timer
    THEN posAlarm' = FALSE /\ play_pos_timer' = FALSE /\ timerLost' = FALSE
    ELSE UNCHANGED <<posAlarm, play_pos_timer, timerLost>>

(* A new play status is sent to a controller that waits for it; the          *)
(* notifications in "also" are sent with it.                                *)
BecomePlayStatus(status, also) ==
    /\ playStatus' = status
    /\ IF playStatus # status
       THEN /\ registered' = registered \ ({"PLAY_STATUS_CHANGED"} \union also)
            /\ told' = None
       ELSE /\ registered' = registered \ also
            /\ UNCHANGED told

Joinable == playback_thread # None => player[playback_thread] = "done"

HandleEnableSource ==
    /\ Free /\ mSourceState = "NOT_STARTED"
    /\ mSourceState' = "DISCONNECTED"
    /\ a2dp_device' \in BOOLEAN
    /\ media_playing' = FALSE /\ playStatus' = "STOPPED"
    /\ UNCHANGED <<link, mConnectedDevice, mAvrcpConnected, output_stream, player,
                   playback_thread, duty, notiVars, timerVars, crashed>>

(* BtA2dpUnloadA2dpHal closes the stream first, which joins.                 *)
HandleDisableSource ==
    /\ Free /\ mSourceState # "NOT_STARTED"
    /\ mSourceState' = "NOT_STARTED"
    /\ JoinThen("disable")
    /\ UNCHANGED <<link, mConnectedDevice, mAvrcpConnected, halVars, playStatus, notiVars,
                   timerVars, crashed>>

ApiConnectReq ==
    /\ Free /\ mSourceState = "DISCONNECTED" /\ link = "down"
    /\ mSourceState' = "PENDING" /\ link' = "connecting"
    /\ UNCHANGED <<mConnectedDevice, mAvrcpConnected, halVars, playVars, playStatus,
                   notiVars, timerVars, crashed>>

(* Mutant: the state stays CONNECTED until the stack answers.                *)
ApiDisconnectReqKeepsState ==
    /\ Free /\ mSourceState = "CONNECTED" /\ mConnectedDevice
    /\ media_playing' = FALSE /\ playStatus' = "STOPPED"
    /\ UNCHANGED <<link, mSourceState, mConnectedDevice, mAvrcpConnected, halVars, player,
                   playback_thread, duty, notiVars, timerVars, crashed>>

(* The playback thread is told to stop and not joined.                       *)
ApiDisconnectReq ==
    /\ Free /\ mSourceState = "CONNECTED" /\ mConnectedDevice
    /\ mSourceState' = "PENDING"
    /\ media_playing' = FALSE /\ playStatus' = "STOPPED"
    /\ UNCHANGED <<link, mConnectedDevice, mAvrcpConnected, halVars, player, playback_thread,
                   duty, notiVars, timerVars, crashed>>

ConnectingCb ==
    /\ Free /\ mSourceState = "DISCONNECTED" /\ link = "down"
    /\ mSourceState' = "PENDING" /\ link' = "connecting"
    /\ UNCHANGED <<mConnectedDevice, mAvrcpConnected, halVars, playVars, playStatus,
                   notiVars, timerVars, crashed>>

(* The stream is opened unless the device cannot be made the active one.     *)
ConnectedCb ==
    /\ Free /\ ~InterfaceIsNull /\ link # "up" /\ link' = "up"
    /\ IF mSourceState \in {"DISCONNECTED", "PENDING"}
       THEN /\ mSourceState' = "CONNECTED" /\ mConnectedDevice' = TRUE
            /\ output_stream' \in {a2dp_device, output_stream}
       ELSE UNCHANGED <<mSourceState, mConnectedDevice, output_stream>>
    /\ told' = None
    /\ UNCHANGED <<mAvrcpConnected, a2dp_device, playVars, playStatus, registered,
                   timerVars, crashed>>

DisconnectingCb ==
    /\ Free /\ link = "up" /\ mSourceState = "CONNECTED"
    /\ mSourceState' = "PENDING"
    /\ UNCHANGED <<link, mConnectedDevice, mAvrcpConnected, halVars, playVars, playStatus,
                   notiVars, timerVars, crashed>>

(* Mutant: the pending state's handler does not close the stream.            *)
DisconnectedCbPendingKeepsStream ==
    /\ Free /\ link # "down" /\ link' = "down" /\ told' = None
    /\ IF mSourceState = "CONNECTED"
       THEN JoinThen("disconnect") /\ UNCHANGED <<mSourceState, mConnectedDevice>>
       ELSE /\ mSourceState' = IF mSourceState = "PENDING" THEN "DISCONNECTED"
                                ELSE mSourceState
            /\ mConnectedDevice' = FALSE
            /\ UNCHANGED playVars
    /\ playStatus' = "STOPPED"
    /\ UNCHANGED <<mAvrcpConnected, halVars, registered, timerVars, crashed>>

(* Mutant: BtA2dpCloseOutputStream joins without telling the thread to stop. *)
DisconnectedCbJoinsOnly ==
    /\ Free /\ link # "down" /\ link' = "down"
    /\ IF mSourceState \in {"PENDING", "CONNECTED"}
       THEN duty' = "disconnect" /\ playStatus' = "STOPPED"
       ELSE UNCHANGED <<duty, playStatus>>
    /\ told' = None
    /\ UNCHANGED <<mSourceState, mConnectedDevice, mAvrcpConnected, halVars, media_playing,
                   player, playback_thread, registered, timerVars, crashed>>

DisconnectedCb ==
    /\ Free /\ link # "down" /\ link' = "down"
    /\ IF mSourceState \in {"PENDING", "CONNECTED"}
       THEN JoinThen("disconnect") /\ playStatus' = "STOPPED"
       ELSE UNCHANGED <<playVars, playStatus>>
    /\ told' = None
    /\ UNCHANGED <<mSourceState, mConnectedDevice, mAvrcpConnected, halVars, registered,
                   timerVars, crashed>>

(* pthread_join returns. *)
Joined(work) ==
    /\ duty = work /\ Joinable
    /\ duty' = None /\ playback_thread' = None
    /\ UNCHANGED <<mAvrcpConnected, player, crashed>>

(* The end of BtA2dpCloseOutputStream and of the disconnection's handler.    *)
DisconnectedCbEnds ==
    /\ Joined("disconnect")
    /\ output_stream' = FALSE
    /\ mConnectedDevice' = FALSE /\ mSourceState' = "DISCONNECTED"
    /\ UNCHANGED <<link, a2dp_device, media_playing, playStatus, notiVars, timerVars>>

(* The end of BtA2dpUnloadA2dpHal, where the HAL may refuse to be closed, and *)
(* of HandleDisableSource; the flag of the position timer stays.             *)
HandleDisableSourceEnds ==
    /\ Joined("disable")
    /\ output_stream' = FALSE /\ a2dp_device' \in {FALSE, a2dp_device}
    /\ posAlarm' = FALSE /\ timerLost' = play_pos_timer /\ link' = "down"
    /\ media_playing' = FALSE /\ playStatus' = "STOPPED" /\ told' = None
    /\ UNCHANGED <<mSourceState, mConnectedDevice, registered, play_pos_timer, posTimeouts>>

(* The end of CMD_ID_STOP.                                                  *)
StopEnds ==
    /\ Joined("stop")
    /\ StopPlayPostionTimer
    /\ BecomePlayStatus("STOPPED", {})
    /\ UNCHANGED <<connVars, halVars, media_playing, posTimeouts>>

WorkAfterJoin == DisconnectedCbEnds \/ HandleDisableSourceEnds \/ StopEnds

-----------------------------------------------------------------------------
(* The AVRCP target.                                                        *)

(* A notification that needs the interface while it is NULL.                 *)
Crash ==
    /\ crashed' = TRUE
    /\ UNCHANGED <<connVars, mAvrcpConnected, halVars, playVars, playStatus, notiVars,
                   timerVars>>

AvrcpConnectedCb ==
    /\ Free /\ ~InterfaceIsNull
    /\ mAvrcpConnected' \in BOOLEAN
    /\ told' = None
    /\ UNCHANGED <<connVars, halVars, playVars, playStatus, registered, timerVars, crashed>>

RegNoti(e) ==
    /\ Free /\ mAvrcpConnected /\ ~InterfaceIsNull
    /\ registered' = registered \union {e}
    /\ told' = IF e = "PLAY_STATUS_CHANGED" THEN playStatus ELSE told
    /\ IF e = "PLAY_POS_CHANGED" /\ playStatus = "PLAYING"
       THEN StartPlayPostionTimer ELSE UNCHANGED <<play_pos_timer, posAlarm, timerLost>>
    /\ UNCHANGED <<connVars, mAvrcpConnected, halVars, playVars, playStatus, posTimeouts,
                   crashed>>

(* The menu's notifications: of the track, the list that is playing, a       *)
(* setting; a change of the available players also reports the identifiers.  *)
Notices ==
    {{e} : e \in PlayerEvents \ {"PLAY_STATUS_CHANGED", "PLAY_POS_CHANGED"}}
        \union {{"AVAIL_PLAYER_CHANGED", "UIDS_CHANGED"}}

Notify(events) ==
    /\ Free
    /\ IF InterfaceIsNull /\ events \intersect registered # {} THEN Crash
       ELSE /\ registered' = registered \ events
            /\ UNCHANGED <<connVars, mAvrcpConnected, halVars, playVars, playStatus, told,
                           timerVars, crashed>>

(* Another addressed player, from the menu or from the controller: the       *)
(* registrations of the old one are rejected, if this one was registered.    *)
AddrPlayerChanged ==
    /\ Free /\ "ADDR_PLAYER_CHANGED" \in registered
    /\ IF InterfaceIsNull THEN Crash
       ELSE /\ \/ registered' = registered \ {"ADDR_PLAYER_CHANGED"} /\ UNCHANGED told
               \/ registered' = registered \ (PlayerEvents \union {"ADDR_PLAYER_CHANGED"})
                  /\ told' = None
            /\ UNCHANGED <<connVars, mAvrcpConnected, halVars, playVars, playStatus,
                           timerVars, crashed>>

(* A2DP_SOURCE_AUDIO_CMD_REQ, from the menu: the remote devices of A2DP and  *)
(* of AVRCP must be the same one.                                           *)
SameDevice == mAvrcpConnected /\ mConnectedDevice

(* The command changes the play status, and the controller waits for that.   *)
CommandNeedsInterface(status) ==
    InterfaceIsNull /\ playStatus # status /\ "PLAY_STATUS_CHANGED" \in registered

Play ==
    /\ Free /\ SameDevice
    /\ IF \/ CommandNeedsInterface("PLAYING")
          \/ InterfaceIsNull /\ "TRACK_CHANGED" \in registered
          \/ InterfaceIsNull /\ "PLAY_POS_CHANGED" \in registered /\ ~play_pos_timer
       THEN Crash
       ELSE /\ IF media_playing THEN UNCHANGED playVars ELSE StartStreaming
            /\ BecomePlayStatus("PLAYING", {"TRACK_CHANGED"})
            /\ IF "PLAY_POS_CHANGED" \in registered
               THEN StartPlayPostionTimer ELSE UNCHANGED <<play_pos_timer, posAlarm, timerLost>>
            /\ UNCHANGED <<connVars, mAvrcpConnected, halVars, posTimeouts, crashed>>

Pause ==
    /\ Free /\ SameDevice
    /\ IF CommandNeedsInterface("PAUSED") THEN Crash
       ELSE /\ StopPlayPostionTimer
            /\ BecomePlayStatus("PAUSED", {})
            /\ UNCHANGED <<connVars, mAvrcpConnected, halVars, playVars, posTimeouts, crashed>>

Stop ==
    /\ Free /\ SameDevice
    /\ IF CommandNeedsInterface("STOPPED") THEN Crash
       ELSE /\ JoinThen("stop")
            /\ UNCHANGED <<connVars, mAvrcpConnected, halVars, playStatus, notiVars,
                           timerVars, crashed>>

(* A2DP_SOURCE_AUDIO_AVDT_CMD_REQ, CMD_ID_PLAY: in any state, and the play   *)
(* status stays as it is.                                                   *)
AvdtPlay ==
    /\ Free /\ ~media_playing
    /\ StartStreaming
    /\ UNCHANGED <<connVars, mAvrcpConnected, halVars, playStatus, notiVars, timerVars,
                   crashed>>

-----------------------------------------------------------------------------
(* The play position timer.                                                 *)

(* PlayPosTimehandler, on the thread of the alarms.                          *)
PlayPosTimehandler ==
    /\ ~crashed /\ posAlarm /\ posTimeouts < MaxTimeouts
    /\ posAlarm' = FALSE /\ posTimeouts' = posTimeouts + 1
    /\ UNCHANGED <<connVars, mAvrcpConnected, halVars, playVars, playStatus, notiVars,
                   play_pos_timer, timerLost, crashed>>

(* Mutant: the registration is answered and the timer's flag stays set.      *)
PlayPositionTimeoutFlagStays ==
    /\ Free /\ posTimeouts > 0
    /\ posTimeouts' = posTimeouts - 1
    /\ registered' = IF InterfaceIsNull THEN registered
                     ELSE registered \ {"PLAY_POS_CHANGED"}
    /\ UNCHANGED <<connVars, mAvrcpConnected, halVars, playVars, playStatus, told,
                   play_pos_timer, posAlarm, timerLost, crashed>>

(* AVRCP_TARGET_PLAY_POSITION_TIMEOUT: the timer is stopped, the registration *)
(* is answered, whether or not there is one.                                *)
PlayPositionTimeout ==
    /\ Free /\ posTimeouts > 0
    /\ posTimeouts' = posTimeouts - 1
    /\ StopPlayPostionTimer
    /\ registered' = IF InterfaceIsNull THEN registered
                     ELSE registered \ {"PLAY_POS_CHANGED"}
    /\ UNCHANGED <<connVars, mAvrcpConnected, halVars, playVars, playStatus, told, crashed>>

-----------------------------------------------------------------------------
ConnectionNext ==
    \/ HandleEnableSource \/ HandleDisableSource \/ WorkAfterJoin
    \/ ApiConnectReq \/ ApiDisconnectReq
    \/ ConnectingCb \/ ConnectedCb \/ DisconnectingCb \/ DisconnectedCb

TargetNext ==
    \/ AvrcpConnectedCb \/ AddrPlayerChanged
    \/ \E e \in PlayerEvents \union OtherEvents : RegNoti(e)
    \/ \E events \in Notices : Notify(events)
    \/ Play \/ Pause \/ Stop \/ AvdtPlay
    \/ PlayPosTimehandler \/ PlayPositionTimeout

Next == ConnectionNext \/ TargetNext \/ \E t \in Player : PlayerStep(t)

(* The threads run, pthread_join returns once it can, the timer expires and  *)
(* its event is handled; nothing makes the stack or the user act.            *)
Fairness ==
    /\ \A t \in Player : WF_vars(PlayerStep(t))
    /\ WF_vars(WorkAfterJoin)
    /\ WF_vars(PlayPosTimehandler) /\ WF_vars(PlayPositionTimeout)

Spec == Init /\ [][Next]_vars /\ Fairness

-----------------------------------------------------------------------------
(* Type correctness: the source's state, its threads and its registrations.  *)
TypeOK ==
    /\ mSourceState \in {"NOT_STARTED", "DISCONNECTED", "PENDING", "CONNECTED"}
    /\ link \in {"down", "connecting", "up"}
    /\ {mConnectedDevice, mAvrcpConnected, a2dp_device, output_stream, media_playing,
        play_pos_timer, posAlarm, timerLost, crashed} \subseteq BOOLEAN
    /\ player \in [Player -> {"started", "loop", "write", "leave", "done"}]
    /\ playback_thread \in Player \union {None}
    /\ duty \in {None, "disconnect", "disable", "stop"}
    /\ playStatus \in {"STOPPED", "PLAYING", "PAUSED"}
    /\ registered \subseteq PlayerEvents \union OtherEvents
    /\ told \in {"STOPPED", "PLAYING", "PAUSED", None}
    /\ posTimeouts \in 0 .. MaxTimeouts

(* The state is well-typed, and an open stream belongs to a loaded HAL and   *)
(* to a connection that the state machine still knows of: the two handlers   *)
(* that end the connection and the one that unloads the HAL close it before  *)
(* anything else can run.                                                   *)
StreamOwned ==
    /\ TypeOK
    /\ output_stream =>
          /\ a2dp_device
          /\ mSourceState \in {"CONNECTED", "PENDING"} \/ duty = "disable"

(* While the device is connected, a controller that waits for a change of    *)
(* the play status has been told the one the source is in: no handler        *)
(* changes the status silently, however commands, disconnections, changes of *)
(* player and restarts interleave.                                          *)
ControllerKnows ==
    mSourceState = "CONNECTED" /\ told # None => told = playStatus

(* The source's thread comes back from pthread_join, whatever the playback   *)
(* threads do at that moment and however many of them there are.             *)
JoinReturns == duty # None ~> duty = None

(* A controller that has registered for the position while music plays gets  *)
(* it, or the music stops or the connection ends; not so after a restart in  *)
(* which HandleDisableSource freed the alarm and kept the timer's flag.      *)
PositionReported ==
    LET waits == /\ mSourceState = "CONNECTED" /\ playStatus = "PLAYING"
                 /\ "PLAY_POS_CHANGED" \in registered
    IN (waits /\ ~timerLost) ~> ~waits
=============================================================================
