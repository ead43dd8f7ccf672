----------------------------- MODULE AvrcpVolume -----------------------------
(***************************************************************************)
(* The absolute volume of a remote speaker (a2dp_src/src/A2dp_Src.cpp): the  *)
(* user's steps and the speaker's scale, one command at a time, answers that *)
(* come late or never, a timer that gives a command up, and the features     *)
(* callback that resets everything from the stack's thread when AVRCP        *)
(* connects.                                                                *)
(*                                                                          *)
(* Left out: what is only printed (mLastLocalVolume, mRemoteVolume and       *)
(* mLastRemoteVolume are never read for anything else), the up and down      *)
(* keys; mVolCmdAdjustInProgress is never set.                              *)
(***************************************************************************)
EXTENDS Integers, Sequences

CONSTANTS
    Steps,      \* volume steps the user asks for
    Volumes,    \* volumes a speaker may choose by itself
    MaxLate     \* bound of the messages in the source's queue, and of the commands that
                \* the speaker has not seen

mAudioStreamMax == 15
AVRCP_MAX_VOL == 127

ASSUME VolumeAssumption ==
    /\ Steps \subseteq 0 .. mAudioStreamMax
    /\ Volumes \subseteq 0 .. AVRCP_MAX_VOL
    /\ MaxLate \in Nat

VARIABLES
    mAbsVolRemoteSupported,
    mVolCmdSetInProgress,
    initialKnown,     \* mInitialRemoteVolume # -1
    mLocalVolume,     \* a step, or -1
    abs_vol_timer,    \* the flag of the command's timer
    volAlarm,         \* its alarm is set
    volumeQ,          \* the source's queue: answers, changes and timeouts
    asked,            \* external: the commands that the speaker has not seen yet
    remoteVolume,     \* external: the speaker's volume
    strayed           \* history: an answer was lost, or met no command of its own

volumeVars == <<mAbsVolRemoteSupported, mVolCmdSetInProgress, initialKnown, mLocalVolume,
                abs_vol_timer, volAlarm, volumeQ, asked, remoteVolume, strayed>>

VolumeInit ==
    /\ mAbsVolRemoteSupported = FALSE /\ mVolCmdSetInProgress = FALSE
    /\ initialKnown = FALSE /\ mLocalVolume = -1
    /\ abs_vol_timer = FALSE /\ volAlarm = FALSE
    /\ volumeQ = <<>> /\ asked = <<>> /\ remoteVolume \in Volumes /\ strayed = FALSE

-----------------------------------------------------------------------------
(* round(volume * 15 / 127), and ceil(volume * 127 / 15).                    *)
convertToAudioStreamVolume(volume) ==
    (2 * volume * mAudioStreamMax + AVRCP_MAX_VOL) \div (2 * AVRCP_MAX_VOL)

convertToAvrcpVolume(volume) ==
    (volume * AVRCP_MAX_VOL + mAudioStreamMax - 1) \div mAudioStreamMax

Room == Len(volumeQ) < MaxLate
Deliver(type, volume) == volumeQ' = Append(volumeQ, [type |-> type, volume |-> volume])

-----------------------------------------------------------------------------
(* The speaker and the stack.                                               *)

(* btavrcp_target_rcfeatures_callback, on the stack's thread, when AVRCP has  *)
(* connected: what the speaker has not seen of an earlier connection is gone. *)
RcFeatures ==
    /\ \E supported \in BOOLEAN :
          mAbsVolRemoteSupported' = (mAbsVolRemoteSupported \/ supported)
    /\ mVolCmdSetInProgress' = FALSE /\ initialKnown' = FALSE /\ mLocalVolume' = -1
    /\ asked' = <<>>
    /\ strayed' = (strayed \/ asked # <<>> \/ volumeQ # <<>>)
    /\ UNCHANGED <<abs_vol_timer, volAlarm, volumeQ, remoteVolume>>

(* A2DP_SOURCE_DISCONNECTED_CB and the user's disconnection.                 *)
ForgetSupport ==
    /\ mAbsVolRemoteSupported /\ mAbsVolRemoteSupported' = FALSE
    /\ strayed' = (strayed \/ asked # <<>> \/ volumeQ # <<>>)
    /\ UNCHANGED <<mVolCmdSetInProgress, initialKnown, mLocalVolume, abs_vol_timer, volAlarm,
                   volumeQ, asked, remoteVolume>>

(* The speaker's volume as it is (INTERIM), or changed by its own keys.      *)
SpeakerReports ==
    /\ Room
    /\ \/ Deliver("INTERIM", remoteVolume) /\ UNCHANGED remoteVolume
       \/ \E v \in Volumes : remoteVolume' = v /\ Deliver("CHANGED", v)
    /\ strayed' = (strayed \/ ~mAbsVolRemoteSupported)
    /\ UNCHANGED <<mAbsVolRemoteSupported, mVolCmdSetInProgress, initialKnown, mLocalVolume,
                   abs_vol_timer, volAlarm, asked>>

(* The speaker takes the volume asked for or one of its own steps, or        *)
(* rejects it.                                                              *)
SpeakerAnswers ==
    /\ asked # <<>> /\ Room
    /\ asked' = Tail(asked)
    /\ \/ \E v \in {Head(asked)} \union Volumes :
             remoteVolume' = v /\ Deliver("ACCEPT", v)
       \/ Deliver("REJ", Head(asked)) /\ UNCHANGED remoteVolume
    /\ UNCHANGED <<mAbsVolRemoteSupported, mVolCmdSetInProgress, initialKnown, mLocalVolume,
                   abs_vol_timer, volAlarm, strayed>>

AnswerLost ==
    /\ asked # <<>> /\ asked' = Tail(asked)
    /\ remoteVolume' \in {remoteVolume, Head(asked)}
    /\ strayed' = TRUE
    /\ UNCHANGED <<mAbsVolRemoteSupported, mVolCmdSetInProgress, initialKnown, mLocalVolume,
                   abs_vol_timer, volAlarm, volumeQ>>

-----------------------------------------------------------------------------
(* The source's thread and the timer.                                       *)

StartSetAbsVolTimer ==
    /\ abs_vol_timer' = TRUE
    /\ volAlarm' = (volAlarm \/ ~abs_vol_timer)

StopSetAbsVolTimer ==
    /\ abs_vol_timer' = FALSE
    /\ volAlarm' = (volAlarm /\ ~abs_vol_timer)

(* AVRCP_TARGET_SET_ABS_VOL.                                                *)
SetAbsVol(step) ==
    /\ mAbsVolRemoteSupported /\ ~mVolCmdSetInProgress /\ initialKnown
    /\ Len(asked) < MaxLate
    /\ mVolCmdSetInProgress' = TRUE
    /\ StartSetAbsVolTimer
    /\ asked' = Append(asked, convertToAvrcpVolume(step))
    /\ UNCHANGED <<mAbsVolRemoteSupported, initialKnown, mLocalVolume, volumeQ, remoteVolume,
                   strayed>>

TakesVolume == {"ACCEPT", "CHANGED", "INTERIM"}

(* Mutant: an accepted command leaves the local volume as it is.             *)
VolumeChangedNotOnAccept ==
    /\ volumeQ # <<>> /\ Head(volumeQ).type # "TIMEOUT"
    /\ LET m == Head(volumeQ)
           answers == m.type \in {"ACCEPT", "REJ"}
           ignored == ~mAbsVolRemoteSupported \/ (answers /\ ~mVolCmdSetInProgress)
       IN /\ IF answers /\ ~ignored
             THEN StopSetAbsVolTimer /\ mVolCmdSetInProgress' = FALSE
             ELSE UNCHANGED <<abs_vol_timer, volAlarm, mVolCmdSetInProgress>>
          /\ initialKnown' = (initialKnown \/ ~ignored)
          /\ mLocalVolume' = IF ~ignored /\ m.type \in {"CHANGED", "INTERIM"}
                             THEN convertToAudioStreamVolume(m.volume) ELSE mLocalVolume
          /\ strayed' = (strayed \/ ignored)
    /\ volumeQ' = Tail(volumeQ)
    /\ UNCHANGED <<mAbsVolRemoteSupported, asked, remoteVolume>>

(* AVRCP_TARGET_VOLUME_CHANGED: an answer that no command waits for is        *)
(* ignored.                                                                 *)
VolumeChanged ==
    /\ volumeQ # <<>> /\ Head(volumeQ).type # "TIMEOUT"
    /\ LET m == Head(volumeQ)
           answers == m.type \in {"ACCEPT", "REJ"}
           ignored == ~mAbsVolRemoteSupported \/ (answers /\ ~mVolCmdSetInProgress)
       IN /\ IF answers /\ ~ignored
             THEN StopSetAbsVolTimer /\ mVolCmdSetInProgress' = FALSE
             ELSE UNCHANGED <<abs_vol_timer, volAlarm, mVolCmdSetInProgress>>
          /\ initialKnown' = (initialKnown \/ ~ignored)
          /\ mLocalVolume' = IF ~ignored /\ m.type \in TakesVolume
                             THEN convertToAudioStreamVolume(m.volume) ELSE mLocalVolume
          /\ strayed' = (strayed \/ ignored)
    /\ volumeQ' = Tail(volumeQ)
    /\ UNCHANGED <<mAbsVolRemoteSupported, asked, remoteVolume>>

(* set_abs_volume_timer_handler, on the thread of the alarms.                *)
TimerExpires ==
    /\ volAlarm /\ volAlarm' = FALSE /\ Room
    /\ Deliver("TIMEOUT", 0)
    /\ UNCHANGED <<mAbsVolRemoteSupported, mVolCmdSetInProgress, initialKnown, mLocalVolume,
                   abs_vol_timer, asked, remoteVolume, strayed>>

(* AVRCP_TARGET_ABS_VOL_TIMEOUT: the command is over, the timer's flag stays. *)
AbsVolTimeout ==
    /\ volumeQ # <<>> /\ Head(volumeQ).type = "TIMEOUT"
    /\ mVolCmdSetInProgress' = FALSE
    /\ strayed' = (strayed \/ mVolCmdSetInProgress)
    /\ volumeQ' = Tail(volumeQ)
    /\ UNCHANGED <<mAbsVolRemoteSupported, initialKnown, mLocalVolume, abs_vol_timer, volAlarm,
                   asked, remoteVolume>>

VolumeNext ==
    \/ RcFeatures \/ ForgetSupport \/ SpeakerReports \/ SpeakerAnswers \/ AnswerLost
    \/ TimerExpires \/ VolumeChanged \/ AbsVolTimeout
    \/ \E step \in Steps : SetAbsVol(step)

VolumeSpec == VolumeInit /\ [][VolumeNext]_volumeVars

-----------------------------------------------------------------------------
(* The conversions lose no step (convertToAvrcpVolume and back), and as long *)
(* as no answer was lost or met no command, the local volume is the          *)
(* speaker's when nothing is on its way, whoever changed it last.            *)
VolumesAgree ==
    /\ \A step \in Steps : convertToAudioStreamVolume(convertToAvrcpVolume(step)) = step
    /\ ~strayed /\ asked = <<>> /\ volumeQ = <<>> /\ mLocalVolume # -1
          => mLocalVolume = convertToAudioStreamVolume(remoteVolume)
=============================================================================
