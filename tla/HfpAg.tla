-------------------------------- MODULE HfpAg --------------------------------
(***************************************************************************)
(* The hands-free audio gateway (hfp_ag/src/HfpAG.cpp): its state machine,   *)
(* the queue in which the user's requests and the stack's callbacks reach    *)
(* it, and the playback and record threads of a SCO connection.  One remote  *)
(* device is connected at a time; a request may name another one.            *)
(*                                                                          *)
(* The code as its makefiles build it: with the audio HAL, without modem.    *)
(* Left out: what only passes on to the stack (VoIP calls, AT responses,     *)
(* volume), the numbers of calls that CLCC and CIND answer, and the samples. *)
(***************************************************************************)
EXTENDS Naturals, Sequences

CONSTANTS
    Player,     \* playback threads that may exist at one time
    None,
    MaxQueue,   \* bound of the messages that wait when the user asks for something or
                \* a connection comes up
    MaxMemory   \* bound of memorized_evt

ASSUME AgAssumption ==
    /\ None \notin Player /\ "recorder" \notin Player
    /\ None \notin {"recorder", "pending", "audio_on", "disable"}
    /\ MaxQueue \in Nat \ {0} /\ MaxMemory \in Nat \ {0}

VARIABLES
    mAgState,
    agQ,            \* the work queue of the gateway's thread
    memorized_evt,  \* which device each of the memorized disconnections names
    link, sco,      \* external: the service level connection, and its audio
    stopped,        \* stop_record and stop_playback, which are always set together
    record_tid,     \* the last thread created with it, or None
    recorder, playback, \* where the threads are; "done" if they have not begun
    in_handle_record, out_stream_plb_test,  \* are open
    duty,           \* what the gateway's thread does once pthread_join returns
    wanted,         \* history: the stack was asked, or will be, to end the connection
    late            \* history: a playback thread opened its stream after the last close

stackVars   == <<link, sco>>
threadVars  == <<stopped, record_tid, recorder, playback>>
streamVars  == <<in_handle_record, out_stream_plb_test, late>>
stateVars   == <<mAgState, memorized_evt, wanted>>
vars == <<stateVars, agQ, stackVars, threadVars, streamVars, duty>>

Devices == {"own", "other"}
Callbacks == {"CONNECTING", "CONNECTED", "DISCONNECTED", "AUDIO_CONNECTED",
              "AUDIO_DISCONNECTED"}
DISCONNECT_REQ == [own |-> "DISCONNECT_REQ own", other |-> "DISCONNECT_REQ other"]
Requests == {"CONNECT_REQ", DISCONNECT_REQ.own, DISCONNECT_REQ.other,
             "DISCONNECT_AUDIO_REQ", "START", "STOP"}

Init ==
    /\ mAgState = "NOT_STARTED" /\ memorized_evt = <<>> /\ wanted = FALSE
    /\ agQ = <<>> /\ link = "down" /\ sco = "off"
    /\ stopped = TRUE /\ record_tid = None /\ recorder = "done"
    /\ playback = [t \in Player |-> "done"]
    /\ in_handle_record = FALSE /\ out_stream_plb_test = FALSE
    /\ late = FALSE /\ duty = None

-----------------------------------------------------------------------------
(* The user, GAP and the stack.                                             *)

PostMessage(event) == agQ' = Append(agQ, event)

Room == Len(agQ) < MaxQueue

(* GAP starts a profile that is not started, and stops one that is.          *)
Ask(request) ==
    /\ Room /\ PostMessage(request)
    /\ request = "START" => mAgState = "NOT_STARTED" /\ duty = None
    /\ request = "STOP" => mAgState # "NOT_STARTED"
    /\ request \in {"START", "STOP"} => \A i \in DOMAIN agQ : agQ[i] # request
    /\ UNCHANGED <<stateVars, stackVars, threadVars, streamVars, duty>>

(* The stack has callbacks once it is initialised.                           *)
StackRuns == mAgState # "NOT_STARTED"

LinkConnects ==
    /\ StackRuns /\ Room
    /\ \/ link = "down" /\ link' = "connecting" /\ PostMessage("CONNECTING")
       \/ link = "connecting" /\ link' = "up" /\ PostMessage("CONNECTED")
    /\ UNCHANGED <<stateVars, sco, threadVars, streamVars, duty>>

(* The audio is reported down before the link is.                            *)
LinkDisconnects ==
    /\ StackRuns /\ link # "down" /\ sco = "off"
    /\ link' = "down" /\ PostMessage("DISCONNECTED")
    /\ UNCHANGED <<stateVars, sco, threadVars, streamVars, duty>>

(* Opened by the remote device, or for HFP_AG_API_CONNECT_AUDIO_REQ.         *)
ScoConnects ==
    /\ StackRuns /\ Room /\ link = "up" /\ sco = "off"
    /\ sco' = "on" /\ PostMessage("AUDIO_CONNECTED")
    /\ UNCHANGED <<stateVars, link, threadVars, streamVars, duty>>

ScoDisconnects ==
    /\ StackRuns /\ sco # "off"
    /\ sco' = "off" /\ PostMessage("AUDIO_DISCONNECTED")
    /\ UNCHANGED <<stateVars, link, threadVars, streamVars, duty>>

-----------------------------------------------------------------------------
(* The record and playback threads.                                         *)

(* The record thread opens the input, unless there is no audio module.       *)
RecorderStarts ==
    /\ recorder = "started"
    /\ recorder' \in {"loop", "done"}
    /\ in_handle_record' \in {in_handle_record, TRUE}
    /\ UNCHANGED <<playback, out_stream_plb_test, late>>

(* It is told to stop, or the file cannot be written.                        *)
RecorderEnds ==
    /\ recorder = "loop" /\ recorder' = "done"
    /\ UNCHANGED <<playback, streamVars>>

PlaybackStarts(t) ==
    /\ playback[t] = "started"
    /\ \/ /\ playback' = [playback EXCEPT ![t] = "loop"]
          /\ out_stream_plb_test' = TRUE /\ late' = stopped
       \/ /\ playback' = [playback EXCEPT ![t] = "done"]
          /\ UNCHANGED <<out_stream_plb_test, late>>
    /\ UNCHANGED <<recorder, in_handle_record>>

(* Ten rounds, each of which lasts until stop_playback.                      *)
PlaybackEnds(t) ==
    /\ playback[t] = "loop" /\ stopped
    /\ playback' = [playback EXCEPT ![t] = "done"]
    /\ UNCHANGED <<recorder, streamVars>>

ThreadStep ==
    /\ RecorderStarts \/ RecorderEnds \/ \E t \in Player : PlaybackStarts(t) \/ PlaybackEnds(t)
    /\ UNCHANGED <<stateVars, agQ, stackVars, stopped, record_tid, duty>>

-----------------------------------------------------------------------------
(* The gateway's thread.                                                    *)

Handles(events) ==
    /\ duty = None
    /\ agQ # <<>> /\ Head(agQ) \in events
    /\ agQ' = Tail(agQ)

ChangeState(state) ==
    /\ mAgState' = state
    /\ wanted' = (wanted /\ state \notin {"DISCONNECTED", "NOT_STARTED"})

(* pthread_join is two steps: the gateway's thread handles nothing between   *)
(* them.                                                                    *)
JoinThen(work) ==
    /\ stopped' = TRUE /\ duty' = work
    /\ UNCHANGED <<record_tid, recorder, playback>>

(* The stack may have no interface for the profile, and nothing is answered. *)
HandleEnableAg ==
    /\ Handles({"START"})
    /\ \/ /\ ChangeState("DISCONNECTED")
          /\ in_handle_record' = FALSE /\ out_stream_plb_test' = FALSE
       \/ UNCHANGED <<mAgState, wanted, in_handle_record, out_stream_plb_test>>
    /\ UNCHANGED <<memorized_evt, stackVars, threadVars, late, duty>>

(* cleanup() ends all connections without a callback.                        *)
HandleDisableAg ==
    /\ Handles({"STOP"})
    /\ ChangeState("NOT_STARTED")
    /\ link' = "down" /\ sco' = "off"
    /\ JoinThen("disable")
    /\ UNCHANGED <<memorized_evt, streamVars>>

(* connect() may be refused, which is not looked at.                         *)
ConnectReq ==
    /\ Handles({"CONNECT_REQ"}) /\ mAgState = "DISCONNECTED"
    /\ ChangeState("PENDING")
    /\ link' \in {link, IF link = "down" THEN "connecting" ELSE link}
    /\ UNCHANGED <<memorized_evt, sco, threadVars, streamVars, duty>>

ConnectingCb ==
    /\ Handles({"CONNECTING"}) /\ mAgState = "DISCONNECTED"
    /\ ChangeState("PENDING")
    /\ UNCHANGED <<memorized_evt, stackVars, threadVars, streamVars, duty>>

ConnectedCb ==
    /\ Handles({"CONNECTED"}) /\ mAgState \in {"DISCONNECTED", "PENDING"}
    /\ ChangeState("CONNECTED")
    /\ UNCHANGED <<memorized_evt, stackVars, threadVars, streamVars, duty>>

DisconnectedCb ==
    /\ Handles({"DISCONNECTED"}) /\ mAgState \in {"PENDING", "CONNECTED"}
    /\ ChangeState("DISCONNECTED")
    /\ UNCHANGED <<memorized_evt, stackVars, threadVars, streamVars, duty>>

CloseSco == sco' = IF sco = "on" THEN "closing" ELSE sco

(* The stack's disconnect(): refused for a device that is not connected.     *)
Disconnects(device) == device = "own" /\ link = "up"

DisconnectReqConnected(device) ==
    /\ Handles({DISCONNECT_REQ[device]}) /\ mAgState = "CONNECTED"
    /\ IF Disconnects(device)
       THEN /\ link' = "closing" /\ CloseSco
            /\ mAgState' = "PENDING" /\ wanted' = TRUE
       ELSE UNCHANGED <<mAgState, wanted, stackVars>>
    /\ UNCHANGED <<memorized_evt, threadVars, streamVars, duty>>

(* Mutant: the request is not kept for the end of the audio.                 *)
DisconnectReqAudioOnForgets(device) ==
    /\ Handles({DISCONNECT_REQ[device]}) /\ mAgState = "AUDIO_ON"
    /\ IF device = "own" THEN CloseSco ELSE UNCHANGED sco
    /\ mAgState' = "PENDING" /\ wanted' = (wanted \/ device = "own")
    /\ UNCHANGED <<link, memorized_evt, threadVars, streamVars, duty>>

(* The audio goes first; the request is kept until its callback.             *)
DisconnectReqAudioOn(device) ==
    /\ Handles({DISCONNECT_REQ[device]}) /\ mAgState = "AUDIO_ON"
    /\ Len(memorized_evt) < MaxMemory
    /\ IF device = "own" THEN CloseSco ELSE UNCHANGED sco
    /\ memorized_evt' = Append(memorized_evt, device)
    /\ mAgState' = "PENDING" /\ wanted' = (wanted \/ device = "own")
    /\ UNCHANGED <<link, threadVars, streamVars, duty>>

DisconnectAudioReq ==
    /\ Handles({"DISCONNECT_AUDIO_REQ"}) /\ mAgState = "AUDIO_ON"
    /\ CloseSco
    /\ UNCHANGED <<stateVars, link, threadVars, streamVars, duty>>

(* Both threads are created with record_tid, the playback thread first.      *)
CreateThreads ==
    \E plays, records \in BOOLEAN :
        /\ recorder' = IF records THEN "started" ELSE recorder
        /\ IF plays
           THEN \E t \in Player :
                    /\ playback[t] = "done"
                    /\ playback' = [playback EXCEPT ![t] = "started"]
                    /\ record_tid' = IF records THEN "recorder" ELSE t
           ELSE /\ record_tid' = IF records THEN "recorder" ELSE record_tid
                /\ UNCHANGED playback

(* Mutant: the state changes only once the file is open.                     *)
AudioConnectedCbNeedsFile ==
    /\ Handles({"AUDIO_CONNECTED"}) /\ mAgState = "CONNECTED"
    /\ stopped' = FALSE
    /\ \/ UNCHANGED <<mAgState, record_tid, recorder, playback>>
       \/ mAgState' = "AUDIO_ON" /\ CreateThreads
    /\ UNCHANGED <<wanted, memorized_evt, stackVars, streamVars, duty>>

(* Without the file there are no threads.                                    *)
AudioConnectedCb ==
    /\ Handles({"AUDIO_CONNECTED"}) /\ mAgState = "CONNECTED"
    /\ mAgState' = "AUDIO_ON"
    /\ stopped' = FALSE
    /\ UNCHANGED <<record_tid, recorder, playback>> \/ CreateThreads
    /\ UNCHANGED <<wanted, memorized_evt, stackVars, streamVars, duty>>

(* Mutant: the threads are told to stop and not joined.                      *)
AudioDisconnectedCbNoJoin ==
    /\ Handles({"AUDIO_DISCONNECTED"}) /\ mAgState \in {"PENDING", "AUDIO_ON"}
    /\ IF mAgState = "PENDING" THEN JoinThen("pending") /\ UNCHANGED mAgState
       ELSE /\ stopped' = TRUE /\ mAgState' = "CONNECTED"
            /\ UNCHANGED <<record_tid, recorder, playback, duty>>
    /\ UNCHANGED <<wanted, memorized_evt, stackVars, streamVars>>

AudioDisconnectedCb ==
    /\ Handles({"AUDIO_DISCONNECTED"}) /\ mAgState \in {"PENDING", "AUDIO_ON"}
    /\ JoinThen(IF mAgState = "PENDING" THEN "pending" ELSE "audio_on")
    /\ UNCHANGED <<stateVars, stackVars, streamVars>>

(* The end of the join; playback_tid is never set, and no other thread is     *)
(* waited for.                                                              *)
Joined(work) ==
    /\ duty = work /\ duty' = None
    /\ CASE record_tid = None -> TRUE
         [] record_tid = "recorder" -> recorder = "done"
         [] OTHER -> playback[record_tid] = "done"
    /\ record_tid' = None
    /\ in_handle_record' = FALSE /\ out_stream_plb_test' = FALSE   \* configurescoaudio
    /\ late' = FALSE
    /\ UNCHANGED <<agQ, stopped, recorder, playback>>

AudioOnEnds ==
    /\ Joined("audio_on")
    /\ ChangeState("CONNECTED")
    /\ UNCHANGED <<memorized_evt, stackVars>>

LastOf(list) == list[Len(list)]

(* A memorized disconnection that the stack refuses stays memorized.         *)
PendingEnds ==
    /\ Joined("pending")
    /\ \/ /\ memorized_evt = <<>>
          /\ ChangeState("CONNECTED")
          /\ UNCHANGED <<memorized_evt, stackVars>>
       \/ /\ memorized_evt # <<>> /\ Disconnects(LastOf(memorized_evt))
          /\ link' = "closing" /\ CloseSco
          /\ memorized_evt' = SubSeq(memorized_evt, 1, Len(memorized_evt) - 1)
          /\ UNCHANGED <<mAgState, wanted>>
       \/ /\ memorized_evt # <<>> /\ ~Disconnects(LastOf(memorized_evt))
          /\ UNCHANGED <<stateVars, stackVars>>

DisableEnds ==
    /\ Joined("disable")
    /\ UNCHANGED <<stateVars, stackVars>>

(* What the handler of the state has no case for.                            *)
Handled ==
    [NOT_STARTED  |-> {"START"},
     DISCONNECTED |-> {"STOP", "CONNECT_REQ", "CONNECTING", "CONNECTED"},
     PENDING      |-> {"STOP", "CONNECTED", "DISCONNECTED", "AUDIO_DISCONNECTED"},
     CONNECTED    |-> {"STOP", DISCONNECT_REQ.own, DISCONNECT_REQ.other,
                       "DISCONNECTED", "AUDIO_CONNECTED"},
     AUDIO_ON     |-> {"STOP", DISCONNECT_REQ.own, DISCONNECT_REQ.other,
                       "DISCONNECT_AUDIO_REQ", "AUDIO_DISCONNECTED"}]

NotHandled ==
    /\ Handles((Requests \union Callbacks) \ Handled[mAgState])
    /\ UNCHANGED <<stateVars, stackVars, threadVars, streamVars, duty>>

AgHandles ==
    \/ HandleEnableAg \/ HandleDisableAg
    \/ ConnectReq \/ ConnectingCb \/ ConnectedCb \/ DisconnectedCb
    \/ \E d \in Devices : DisconnectReqConnected(d) \/ DisconnectReqAudioOn(d)
    \/ DisconnectAudioReq \/ AudioConnectedCb \/ AudioDisconnectedCb \/ NotHandled

AgReturns == AudioOnEnds \/ PendingEnds \/ DisableEnds

StackNext == LinkConnects \/ LinkDisconnects \/ ScoConnects \/ ScoDisconnects

Next ==
    \/ AgHandles \/ AgReturns \/ ThreadStep \/ StackNext
    \/ \E r \in Requests : Ask(r)

(* Threads run; the stack ends what it was asked to end.                     *)
Fairness ==
    /\ WF_vars(AgHandles) /\ WF_vars(AgReturns)
    /\ WF_vars(stopped /\ ThreadStep)
    /\ WF_vars(sco = "closing" /\ ScoDisconnects)
    /\ WF_vars(link = "closing" /\ (ScoDisconnects \/ LinkDisconnects))

Spec == Init /\ [][Next]_vars /\ Fairness

-----------------------------------------------------------------------------
(* Type correctness: the gateway's state, its queue and its threads.         *)
TypeOK ==
    /\ mAgState \in {"NOT_STARTED", "DISCONNECTED", "PENDING", "CONNECTED", "AUDIO_ON"}
    /\ agQ \in Seq(Requests \union Callbacks) /\ Len(agQ) <= MaxQueue + 2
    /\ memorized_evt \in Seq(Devices) /\ Len(memorized_evt) <= MaxMemory
    /\ link \in {"down", "connecting", "up", "closing"} /\ sco \in {"off", "on", "closing"}
    /\ {stopped, in_handle_record, out_stream_plb_test, wanted, late} \subseteq BOOLEAN
    /\ record_tid \in Player \union {None, "recorder"}
    /\ recorder \in {"done", "started", "loop"}
    /\ playback \in [Player -> {"done", "started", "loop"}]
    /\ duty \in {None, "pending", "audio_on", "disable"}

(* The state is well-typed, and outside of a call's audio nothing records:   *)
(* the record thread has ended, its handle is free for the next one and the  *)
(* input is closed, on each of the ways out of AUDIO_ON; the output is open  *)
(* only if a playback thread, which nobody joins, was late to open it.       *)
RecorderOwned ==
    /\ TypeOK
    /\ duty = None /\ mAgState \in {"NOT_STARTED", "DISCONNECTED", "CONNECTED"} =>
          /\ recorder = "done" /\ record_tid = None /\ ~in_handle_record
          /\ out_stream_plb_test => late

(* Once all callbacks are handled, the state agrees with the connection and  *)
(* its audio, however requests and callbacks crossed; in PENDING the gateway *)
(* claims nothing.                                                          *)
StateAgrees ==
    agQ = <<>> /\ duty = None =>
        /\ mAgState = "DISCONNECTED" => link \in {"down", "connecting"}
        /\ mAgState = "CONNECTED" => link \in {"up", "closing"} /\ sco = "off"
        /\ mAgState = "AUDIO_ON" => link \in {"up", "closing"} /\ sco # "off"

(* A disconnection of the connected device that the gateway has accepted,    *)
(* with or without audio, comes to its end, although the audio may end by    *)
(* itself, come back, or the link go down while it is under way.             *)
DisconnectEnds == wanted ~> ~wanted
=============================================================================
