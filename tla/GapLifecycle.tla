----------------------------- MODULE GapLifecycle -----------------------------
(***************************************************************************)
(* Turning Bluetooth on and off: the GAP thread (gap/src/Gap.cpp), the main *)
(* thread that commands it (main/src/Main.cpp), the profile threads, the    *)
(* audio manager, the four alarms, and the Bluetooth stack, which is        *)
(* external.  Each thread handles one message of its queue per step;        *)
(* PostMessage appends to a queue, or drops when the thread does not exist. *)
(*                                                                          *)
(* Left out: the link-closing requests PAN_EVENT_API_DISABLE and            *)
(* HID_API_DISABLE, discovery, bonding and the adapter's properties; a      *)
(* message that is answered by nothing and changes none of this state.      *)
(***************************************************************************)
EXTENDS Naturals, Sequences, FiniteSets

CONSTANTS
    Configurations, \* what bt_app.conf may say: [profiles, enableDefault]
    BT_AM,          \* the audio manager's profile id
    A2DP_SINK,      \* the A2DP sink's profile id
    Late,           \* profiles whose threads InitHandler creates after it posted
                    \* the default enable (SDP client, PAN, HID)
    Fallible,       \* profiles whose start or stop may report failure, or whose
                    \* start may report nothing (no profile interface)
    Deferring,      \* profiles that complete a stop later, after another thread's
                    \* answer (A2DP sink: its streaming thread; PBAP: disconnectInd)
    MaxCommands,    \* bound: enables and disables posted by the main thread
    None

Profiles == UNION {c.profiles : c \in Configurations}

ASSUME GapAssumption ==
    /\ \A c \in Configurations : c.profiles \ {BT_AM} # {} /\ c.enableDefault \in BOOLEAN
    /\ IsFiniteSet(Profiles)
    /\ Late \subseteq Profiles
    /\ Fallible \subseteq Profiles \ {BT_AM} /\ Deferring \subseteq Profiles \ {BT_AM}
    /\ BT_AM # A2DP_SINK /\ None \notin Profiles /\ MaxCommands \in Nat \ {0}

Timers == {"profile_startup", "profile_stop", "enable", "disable"}

VARIABLES
    config,       \* the configuration the process was started with
    state,        \* AdapterProperties::state_
    startStatus,  \* profile_config[p].start_status
    stopStatus,   \* profile_config[p].stop_status
    armed,        \* the alarms that are set
    gapQ,         \* the GAP thread's queue
    mainQ,        \* the main thread's queue: events for BluetoothApp::ProcessEvent
    inbox,        \* the queue of each profile's thread
    thread,       \* of each profile: no thread, a thread, its object built too
    profile,      \* what each profile is doing
    mainPc,       \* InitHandler before and after the default enable, then serving
    btState,      \* BluetoothApp::bt_state
    enableCmd,    \* status.enable_cmd is COMMAND_INPROGRESS
    disableCmd,   \* status.disable_cmd is COMMAND_INPROGRESS
    stack,        \* external: the Bluetooth stack
    commands,     \* enables and disables posted to the GAP thread so far
    killed        \* how the process ended: the event whose handler killed it

Enabled == config.profiles             \* profile_config[].is_enabled
DefaultEnable == config.enableDefault  \* is_bt_enable_default_

gapVars  == <<state, startStatus, stopStatus>>
mainVars == <<mainPc, btState, enableCmd, disableCmd, commands>>
profVars == <<thread, profile>>
vars == <<config, gapVars, mainVars, profVars, armed, gapQ, mainQ, inbox, stack,
          killed>>

Event(id, from, status) == [id |-> id, from |-> from, status |-> status]
Msg(id) == Event(id, None, TRUE)
Timeout(t) == Event("TIMEOUT", t, TRUE)

Init ==
    /\ config \in Configurations
    /\ state = "OFF" /\ stack = "off"
    /\ startStatus = [p \in Enabled |-> FALSE]
    /\ stopStatus = [p \in Enabled |-> FALSE]
    /\ armed = {} /\ gapQ = <<>> /\ mainQ = <<>>
    /\ inbox = [p \in Enabled |-> <<>>]
    /\ thread = [p \in Enabled |-> IF p \in Late THEN "none" ELSE "ready"]
    /\ profile = [p \in Enabled |-> "idle"]
    /\ mainPc = "enabling" /\ btState = "OFF"
    /\ enableCmd = FALSE /\ disableCmd = FALSE /\ commands = 0
    /\ killed = None

\* PostMessage of id to the threads of the profiles in P.
PostTo(P, id) ==
    inbox' = [p \in Enabled |-> IF p \in P /\ thread[p] # "none"
                                THEN Append(inbox[p], id) ELSE inbox[p]]

------------------------------------------------------------------------------
(* The main thread.                                                         *)

\* The middle of InitHandler, where the threads that are not in Late exist.
PostDefaultEnable ==
    /\ mainPc = "enabling"
    /\ gapQ' = IF DefaultEnable THEN Append(gapQ, Msg("GAP_API_ENABLE")) ELSE gapQ
    /\ commands' = commands + (IF DefaultEnable THEN 1 ELSE 0)
    /\ mainPc' = "threads"
    /\ UNCHANGED <<gapVars, profVars, btState, enableCmd, disableCmd, armed, mainQ, inbox, stack, killed>>

StartThread(p) ==
    /\ mainPc = "threads" /\ thread[p] # "ready"
    /\ thread' = [thread EXCEPT ![p] = IF @ = "none" THEN "thread" ELSE "ready"]
    /\ UNCHANGED <<gapVars, mainVars, profile, armed, gapQ, mainQ, inbox, stack, killed>>

InitHandlerReturns ==
    /\ mainPc = "threads" /\ \A p \in Enabled : thread[p] = "ready"
    /\ mainPc' = "serving"
    /\ UNCHANGED <<gapVars, profVars, btState, enableCmd, disableCmd, commands,
                   armed, gapQ, mainQ, inbox, stack, killed>>

Idle == ~enableCmd /\ ~disableCmd

SendEnableCmdToGap ==
    /\ mainPc = "serving" /\ commands < MaxCommands
    /\ Idle /\ btState = "OFF"
    /\ enableCmd' = TRUE /\ commands' = commands + 1
    /\ gapQ' = Append(gapQ, Msg("GAP_API_ENABLE"))
    /\ UNCHANGED <<gapVars, profVars, mainPc, btState, disableCmd, armed, mainQ,
                   inbox, stack, killed>>

SendDisableCmdToGap ==
    /\ mainPc = "serving" /\ commands < MaxCommands
    /\ Idle /\ btState = "ON"
    /\ disableCmd' = TRUE /\ commands' = commands + 1
    /\ gapQ' = Append(gapQ, Msg("GAP_API_DISABLE"))
    /\ UNCHANGED <<gapVars, profVars, mainPc, btState, enableCmd, armed, mainQ,
                   inbox, stack, killed>>

\* MAIN_EVENT_ENABLED and MAIN_EVENT_DISABLED.
MainHandles ==
    /\ mainPc = "serving" /\ mainQ # <<>>
    /\ btState' = IF Head(mainQ).status THEN "ON" ELSE "OFF"
    /\ IF Head(mainQ).id = "MAIN_EVENT_ENABLED"
       THEN enableCmd' = FALSE /\ UNCHANGED disableCmd
       ELSE disableCmd' = FALSE /\ UNCHANGED enableCmd
    /\ mainQ' = Tail(mainQ)
    /\ UNCHANGED <<gapVars, profVars, mainPc, commands, armed, gapQ, inbox, stack, killed>>

------------------------------------------------------------------------------
(* The GAP thread: Gap::ProcessEvent, one action per event.                 *)

Handling(id) == gapQ # <<>> /\ Head(gapQ).id = id
Now == Head(gapQ)
ConsumeAndPost(out) == gapQ' = Tail(gapQ) \o out
Consume == ConsumeAndPost(<<>>)
TellMain(id, on) == mainQ' = Append(mainQ, Event(id, None, on))

\* Mutant: the main thread is told as soon as the adapter is on, and again later.
TurnedOnTellsMain ==
    /\ Handling("GAP_EVENT_ADAPTER_STATE") /\ Now.status
    /\ state' = "ON"
    /\ TellMain("MAIN_EVENT_ENABLED", TRUE)
    /\ ConsumeAndPost(<<Msg("PROFILE_API_START")>>)
    /\ UNCHANGED <<startStatus, stopStatus, mainVars, profVars, armed, inbox, stack,
                   killed>>

AdapterTurnedOn ==
    /\ Handling("GAP_EVENT_ADAPTER_STATE") /\ Now.status
    /\ state' = "ON"
    /\ ConsumeAndPost(<<Msg("PROFILE_API_START")>>)
    /\ UNCHANGED <<startStatus, stopStatus, mainVars, profVars, armed, mainQ, inbox,
                   stack, killed>>

AdapterTurnedOff ==
    /\ Handling("GAP_EVENT_ADAPTER_STATE") /\ ~Now.status
    /\ state' = "OFF"
    /\ armed' = armed \ {"disable"}
    /\ TellMain("MAIN_EVENT_DISABLED", FALSE)
    /\ Consume
    /\ UNCHANGED <<startStatus, stopStatus, mainVars, profVars, inbox, stack, killed>>

IgnoreEnable ==
    /\ Handling("GAP_API_ENABLE") /\ state # "OFF"
    /\ TellMain("MAIN_EVENT_ENABLED", TRUE)
    /\ Consume
    /\ UNCHANGED <<gapVars, mainVars, profVars, armed, inbox, stack, killed>>

\* Mutant: the enable timer is not started.
EnableWithoutTimer ==
    /\ Handling("GAP_API_ENABLE") /\ state = "OFF"
    /\ Consume
    /\ stack = "off" /\ stack' = "enabling" /\ state' = "TURNING_ON"
    /\ UNCHANGED <<mainQ, armed, startStatus, stopStatus, mainVars, profVars, inbox,
                   killed>>

\* HandleEnable: the stack accepts or refuses.
HandleEnable ==
    /\ Handling("GAP_API_ENABLE") /\ state = "OFF"
    /\ Consume
    /\ \/ /\ stack = "off" /\ stack' = "enabling"
          /\ armed' = armed \cup {"enable"}
          /\ state' = "TURNING_ON"
          /\ UNCHANGED mainQ
       \/ /\ TellMain("MAIN_EVENT_ENABLED", FALSE)
          /\ UNCHANGED <<stack, armed, state>>
    /\ UNCHANGED <<startStatus, stopStatus, mainVars, profVars, inbox, killed>>

StartProfiles ==
    /\ Handling("PROFILE_API_START")
    /\ startStatus' = [p \in Enabled |-> FALSE]
    /\ armed' = armed \cup {"profile_startup"}
    /\ PostTo(Enabled, "PROFILE_API_START")
    /\ Consume
    /\ UNCHANGED <<state, stopStatus, mainVars, profVars, mainQ, stack, killed>>

\* Mutant: the first profile that has started counts for all.
StartDoneDoesNotWait ==
    /\ Handling("PROFILE_EVENT_START_DONE")
    /\ startStatus' = [startStatus EXCEPT ![Now.from] = Now.status]
    /\ armed' = armed \ {"profile_startup", "enable"}
    /\ TellMain("MAIN_EVENT_ENABLED", TRUE)
    /\ Consume
    /\ UNCHANGED <<state, stopStatus, mainVars, profVars, inbox, stack, killed>>

StartDone ==
    /\ Handling("PROFILE_EVENT_START_DONE")
    /\ startStatus' = [startStatus EXCEPT ![Now.from] = Now.status]
    /\ IF \A p \in Enabled : startStatus'[p]
       THEN /\ armed' = armed \ {"profile_startup", "enable"}
            /\ TellMain("MAIN_EVENT_ENABLED", TRUE)
       ELSE UNCHANGED <<armed, mainQ>>
    /\ Consume
    /\ UNCHANGED <<state, stopStatus, mainVars, profVars, inbox, stack, killed>>

\* Mutant: the first profile that has stopped counts for all.
StopDoneDoesNotWait ==
    /\ Handling("PROFILE_EVENT_STOP_DONE")
    /\ stopStatus' = [stopStatus EXCEPT ![Now.from] = Now.status]
    /\ ConsumeAndPost(<<Msg("BT_AM_DISABLE_DONE")>>)
    /\ UNCHANGED <<state, startStatus, mainVars, profVars, armed, mainQ, inbox, stack,
                   killed>>

\* Mutant: the audio manager is not disabled before the stack.
StopDoneSkipsAudioManager ==
    /\ Handling("PROFILE_EVENT_STOP_DONE")
    /\ stopStatus' = [stopStatus EXCEPT ![Now.from] = Now.status]
    /\ IF \E p \in Enabled \ {BT_AM} : ~stopStatus'[p]
       THEN Consume ELSE ConsumeAndPost(<<Msg("BT_AM_DISABLE_DONE")>>)
    /\ UNCHANGED <<state, startStatus, mainVars, profVars, armed, mainQ, inbox, stack,
                   killed>>

StopDone ==
    /\ Handling("PROFILE_EVENT_STOP_DONE")
    /\ stopStatus' = [stopStatus EXCEPT ![Now.from] = Now.status]
    /\ IF \E p \in Enabled \ {BT_AM} : ~stopStatus'[p]
       THEN Consume /\ UNCHANGED inbox
       ELSE IF BT_AM \in Enabled
            THEN Consume /\ PostTo({BT_AM}, "BT_AM_DISABLE_REQ")
            ELSE ConsumeAndPost(<<Msg("BT_AM_DISABLE_DONE")>>) /\ UNCHANGED inbox
    /\ UNCHANGED <<state, startStatus, mainVars, profVars, armed, mainQ, stack, killed>>

\* Mutant: a refused disable is reported as a success.
RefusedDisableSaysOff ==
    /\ Handling("BT_AM_DISABLE_DONE")
    /\ armed' = armed \ {"profile_stop"}
    /\ TellMain("MAIN_EVENT_DISABLED", FALSE)
    /\ Consume
    /\ UNCHANGED <<stack, gapVars, mainVars, profVars, inbox, killed>>

\* BT_AM_DISABLE_DONE and HandleDisable, where the stack accepts or refuses.
HandleDisable ==
    /\ Handling("BT_AM_DISABLE_DONE")
    /\ Consume
    /\ \/ /\ state = "ON" /\ stack = "on" /\ stack' = "disabling"
          /\ armed' = (armed \ {"profile_stop"}) \cup {"disable"}
          /\ state' = "TURNING_OFF"
          /\ UNCHANGED mainQ
       \/ /\ armed' = armed \ {"profile_stop"}
          /\ TellMain("MAIN_EVENT_DISABLED", TRUE)
          /\ UNCHANGED <<stack, state>>
    /\ UNCHANGED <<startStatus, stopStatus, mainVars, profVars, inbox, killed>>

IgnoreDisable ==
    /\ Handling("GAP_API_DISABLE") /\ state # "ON"
    /\ TellMain("MAIN_EVENT_DISABLED", FALSE)
    /\ Consume
    /\ UNCHANGED <<gapVars, mainVars, profVars, armed, inbox, stack, killed>>

CleanUpSinkFirst ==
    /\ Handling("GAP_API_DISABLE") /\ state = "ON" /\ A2DP_SINK \in Enabled
    /\ PostTo({A2DP_SINK}, "A2DP_SINK_CLEANUP_REQ")
    /\ Consume
    /\ UNCHANGED <<gapVars, mainVars, profVars, armed, mainQ, stack, killed>>

\* Mutant: the profile stop timer is not started.
StopWithoutTimer ==
    /\ Handling("A2DP_SINK_CLEANUP_DONE")
    /\ stopStatus' = [p \in Enabled |-> FALSE]
    /\ PostTo({p \in Enabled \ {BT_AM} : startStatus[p]}, "PROFILE_API_STOP")
    /\ Consume
    /\ UNCHANGED <<state, startStatus, armed, mainVars, profVars, mainQ, stack, killed>>

\* GAP_API_DISABLE falls through to A2DP_SINK_CLEANUP_DONE without a sink.
StopProfiles ==
    /\ \/ Handling("GAP_API_DISABLE") /\ state = "ON" /\ A2DP_SINK \notin Enabled
       \/ Handling("A2DP_SINK_CLEANUP_DONE")
    /\ stopStatus' = [p \in Enabled |-> FALSE]
    /\ armed' = armed \cup {"profile_stop"}
    /\ PostTo({p \in Enabled \ {BT_AM} : startStatus[p]}, "PROFILE_API_STOP")
    /\ Consume
    /\ UNCHANGED <<state, startStatus, mainVars, profVars, mainQ, stack, killed>>

\* A timeout, or the stack's subsystem-restart callback, ends the process.
Kill ==
    /\ Handling("TIMEOUT") \/ Handling("GAP_EVENT_SSR_CLEANUP")
    /\ killed' = Now
    /\ UNCHANGED <<gapVars, mainVars, profVars, armed, gapQ, mainQ, inbox, stack>>

------------------------------------------------------------------------------
(* The profile threads.  Head(inbox[p]) is the message being handled.       *)

Receives(p, id) ==
    /\ inbox[p] # <<>> /\ Head(inbox[p]) = id
    /\ inbox' = [inbox EXCEPT ![p] = Tail(@)]

ToGap(ev) == gapQ' = Append(gapQ, ev)

\* The handlers test the profile's object before they do anything.
DropsMessage(p) ==
    /\ thread[p] = "thread"
    /\ \E id \in {"PROFILE_API_START", "PROFILE_API_STOP"} : Receives(p, id)
    /\ UNCHANGED <<gapVars, mainVars, profVars, armed, gapQ, mainQ, stack, killed>>

Starts(p) ==
    /\ thread[p] = "ready" /\ Receives(p, "PROFILE_API_START")
    /\ \/ /\ profile' = [profile EXCEPT ![p] = "running"]
          /\ ToGap(Event("PROFILE_EVENT_START_DONE", p, TRUE))
       \/ /\ p \in Fallible
          /\ ToGap(Event("PROFILE_EVENT_START_DONE", p, FALSE)) \/ UNCHANGED gapQ
          /\ UNCHANGED profile
    /\ UNCHANGED <<gapVars, mainVars, thread, armed, mainQ, stack, killed>>

Stops(p) ==
    /\ thread[p] = "ready" /\ Receives(p, "PROFILE_API_STOP")
    /\ \/ /\ p \in Deferring
          /\ profile' = [profile EXCEPT ![p] = "stopping"]
          /\ UNCHANGED gapQ
       \/ /\ profile' = [profile EXCEPT ![p] = "idle"]
          /\ \E ok \in {TRUE} \cup (IF p \in Fallible THEN {FALSE} ELSE {}) :
                ToGap(Event("PROFILE_EVENT_STOP_DONE", p, ok))
    /\ UNCHANGED <<gapVars, mainVars, thread, armed, mainQ, stack, killed>>

\* The answer a deferring profile waits for: the streaming thread's
\* A2DP_SINK_STREAMING_DISABLE_DONE, or disconnectInd.
StopCompletes(p) ==
    /\ profile[p] = "stopping"
    /\ profile' = [profile EXCEPT ![p] = "idle"]
    /\ ToGap(Event("PROFILE_EVENT_STOP_DONE", p, TRUE))
    /\ UNCHANGED <<gapVars, mainVars, thread, armed, mainQ, inbox, stack, killed>>

SinkCleansUp(p) ==
    /\ p = A2DP_SINK /\ Receives(p, "A2DP_SINK_CLEANUP_REQ")
    /\ ToGap(Msg("A2DP_SINK_CLEANUP_DONE"))
    /\ UNCHANGED <<gapVars, mainVars, profVars, armed, mainQ, stack, killed>>

AudioManagerStops(p) ==
    /\ p = BT_AM /\ Receives(p, "BT_AM_DISABLE_REQ")
    /\ profile' = [profile EXCEPT ![p] = "idle"]
    /\ ToGap(Msg("BT_AM_DISABLE_DONE"))
    /\ UNCHANGED <<gapVars, mainVars, thread, armed, mainQ, stack, killed>>

------------------------------------------------------------------------------
(* The alarms and the stack.                                                *)

\* The expiry posts to the GAP thread; alarm_cancel after that disarms nothing.
TimerExpires(t) ==
    /\ t \in armed
    /\ armed' = armed \ {t}
    /\ ToGap(Timeout(t))
    /\ UNCHANGED <<gapVars, mainVars, profVars, mainQ, inbox, stack, killed>>

AdapterState(on) == ToGap(Event("GAP_EVENT_ADAPTER_STATE", None, on))

StackCallback ==
    /\ \/ stack = "enabling" /\ stack' = "on" /\ AdapterState(TRUE)
       \/ stack \in {"enabling", "disabling"} /\ stack' = "off" /\ AdapterState(FALSE)
    /\ UNCHANGED <<gapVars, mainVars, profVars, armed, mainQ, inbox, killed>>

SsrCleanupCb ==
    /\ stack # "off" /\ stack # "lost"
    /\ stack' = "lost"
    /\ ToGap(Msg("GAP_EVENT_SSR_CLEANUP"))
    /\ UNCHANGED <<gapVars, mainVars, profVars, armed, mainQ, inbox, killed>>

------------------------------------------------------------------------------
MainStep ==
    PostDefaultEnable \/ InitHandlerReturns \/ MainHandles
        \/ \E p \in Enabled : StartThread(p)

User == SendEnableCmdToGap \/ SendDisableCmdToGap

GapStep ==
    \/ AdapterTurnedOn \/ AdapterTurnedOff \/ IgnoreEnable \/ HandleEnable
    \/ StartProfiles \/ StartDone \/ StopDone \/ HandleDisable \/ IgnoreDisable
    \/ CleanUpSinkFirst \/ StopProfiles \/ Kill

ProfileStep(p) ==
    DropsMessage(p) \/ Starts(p) \/ Stops(p) \/ SinkCleansUp(p) \/ AudioManagerStops(p)

Alive == killed = None /\ UNCHANGED config

Next ==
    /\ Alive
    /\ \/ MainStep \/ User \/ GapStep \/ StackCallback \/ SsrCleanupCb
       \/ \E p \in Enabled : ProfileStep(p) \/ StopCompletes(p)
       \/ \E t \in Timers : TimerExpires(t)

Spec == Init /\ [][Next]_vars

\* The threads of this process are scheduled and an alarm left armed expires.
\* Nothing is assumed of the stack, of the user, or of the peer whose
\* disconnection completes a deferred stop.
Fairness ==
    /\ WF_vars(Alive /\ MainStep)
    /\ WF_vars(Alive /\ GapStep)
    /\ \A p \in Profiles : WF_vars(Alive /\ p \in Enabled /\ ProfileStep(p))
    /\ \A t \in Timers : WF_vars(Alive /\ TimerExpires(t))

FairSpec == Spec /\ Fairness

------------------------------------------------------------------------------
(* Properties.                                                              *)

Events(q) == {q[k] : k \in DOMAIN q}
Messages(q, id) == {k \in DOMAIN q : q[k].id = id}
Running == {p \in Enabled : profile[p] = "running"}

\* The variables stay in their sets.
TypeOK ==
    /\ config \in Configurations
    /\ state \in {"OFF", "ON", "TURNING_ON", "TURNING_OFF"}
    /\ startStatus \in [Enabled -> BOOLEAN] /\ stopStatus \in [Enabled -> BOOLEAN]
    /\ armed \subseteq Timers
    /\ \A e \in Events(gapQ) : e.from \in Enabled \cup Timers \cup {None}
    /\ \A e \in Events(mainQ) : e.id \in {"MAIN_EVENT_ENABLED", "MAIN_EVENT_DISABLED"}
    /\ DOMAIN inbox = Enabled
    /\ thread \in [Enabled -> {"none", "thread", "ready"}]
    /\ profile \in [Enabled -> {"idle", "running", "stopping"}]
    /\ mainPc \in {"enabling", "threads", "serving"} /\ btState \in {"OFF", "ON"}
    /\ enableCmd \in BOOLEAN /\ disableCmd \in BOOLEAN
    /\ stack \in {"off", "enabling", "on", "disabling", "lost"}
    /\ commands \in 0..MaxCommands

\* The comment in Gap::ProcessEvent, "all profiles started now, now send BT
\* ENABLED event": while the message saying that Bluetooth is on is on its
\* way to the main thread, the adapter is on and every profile is running.
AnnouncedMeansRunning ==
    (\E e \in Events(mainQ) : e.id = "MAIN_EVENT_ENABLED" /\ e.status)
        => state = "ON" /\ Running = Enabled

\* The same where it does hold: when Bluetooth is only enabled by command.
AnnouncedIsTrue == TypeOK /\ (~DefaultEnable => AnnouncedMeansRunning)

\* One answer per command, without a default enable: a MAIN_EVENT_ENABLED is always the answer to the
\* one enable command in progress, so the main thread never completes a
\* command that it did not give or that has not been carried out.
AnswersAreAsked ==
    ~DefaultEnable =>
    Cardinality(Messages(mainQ, "MAIN_EVENT_ENABLED")) <= (IF enableCmd THEN 1 ELSE 0)

\* The stack is told to disable only when no profile uses it any more, the
\* audio manager included.
StackDownLast ==
    [][stack = "on" /\ stack' = "disabling" => \A p \in Enabled : profile[p] = "idle"]_vars

\* While the main thread believes that Bluetooth is on and has nothing
\* outstanding, the profiles are all running, or (after a disable that the
\* stack refused) none is: never some.
NeverHalfUp ==
    ~DefaultEnable /\ btState = "ON" /\ Idle => Running \in {Enabled, {}}

\* The main thread's belief and the adapter's state agree when no command is
\* outstanding and nothing is on its way to the main thread.
BeliefAgrees ==
    ~DefaultEnable /\ Idle /\ mainQ = <<>> /\ state \in {"ON", "OFF"} => btState = state

\* "stoping profile_startup_timer": after the last profile has started and the
\* timers have been cancelled, the start-up timeouts do not end the process.
CancelledTimersAreQuiet ==
    killed # None /\ killed.id = "TIMEOUT" /\ killed.from \in {"profile_startup", "enable"}
        => state # "ON" \/ \E p \in Enabled : ~startStatus[p]

\* Every command the main thread accepts completes, or a timeout ends the
\* process: whatever the stack and the profiles fail to answer.
EnableEnds  == enableCmd ~> (~enableCmd \/ killed # None)
DisableEnds == disableCmd ~> (~disableCmd \/ killed # None)
==============================================================================
