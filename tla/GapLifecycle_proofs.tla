-------------------------- MODULE GapLifecycle_proofs --------------------------
(***************************************************************************)
(* Safety of GapLifecycle for any profiles, any number of commands and any    *)
(* length of the queues.                                                     *)
(*                                                                          *)
(* When Bluetooth is enabled by command only, a command of the main thread    *)
(* is in one place at a time: a message of the GAP thread, the stack, the      *)
(* profiles, or the answer to the main thread.  The inductive invariant lists  *)
(* the places, with what is true of the adapter and the profiles in each.      *)
(* Timeouts and the stack's restart are in the queue beside it.               *)
(*                                                                          *)
(* With a default enable there may be two commands, and an answer may be taken *)
(* for the other's.  A second invariant, of every configuration, follows them  *)
(* by the adapter's phase: what may be in the main thread's queue and among the *)
(* commands still to be handled, and how far a disable has come.               *)
(***************************************************************************)
EXTENDS GapLifecycle, SequenceTheorems, FiniteSetTheorems, TLAPS

-----------------------------------------------------------------------------
(* The GAP thread's queue as the set of what it holds of the protocol.        *)

Noise == {"TIMEOUT", "GAP_EVENT_SSR_CLEANUP"}

GapIds == {"GAP_API_ENABLE", "GAP_API_DISABLE", "GAP_EVENT_ADAPTER_STATE", "PROFILE_API_START",
           "PROFILE_EVENT_START_DONE", "PROFILE_EVENT_STOP_DONE", "BT_AM_DISABLE_DONE",
           "A2DP_SINK_CLEANUP_DONE"} \cup Noise
MainIds == {"MAIN_EVENT_ENABLED", "MAIN_EVENT_DISABLED"}

Requests == {"PROFILE_API_START", "PROFILE_API_STOP", "A2DP_SINK_CLEANUP_REQ", "BT_AM_DISABLE_REQ"}

GapEvents == [id : GapIds, from : Enabled \cup Timers \cup {None}, status : BOOLEAN]
MainEvents == [id : MainIds, from : {None}, status : BOOLEAN]

(* What a queue carries besides the messages of the kinds in skip, each once.  *)
Kept(queue, skip) == {queue[i] : i \in {j \in 1 .. Len(queue) : queue[j].id \notin skip}}
Distinct(queue, skip) ==
    \A i, j \in 1 .. Len(queue) : queue[i] = queue[j] /\ queue[i].id \notin skip => i = j

Carried(queue) == Kept(queue, Noise)
Once(queue) == Distinct(queue, Noise)

-----------------------------------------------------------------------------
(* The parts of the inductive invariant.                                     *)

(* The variables stay in their sets, the queues in what they hold too.        *)
QueuesOK ==
    /\ gapQ \in Seq(GapEvents) /\ mainQ \in Seq(MainEvents)
    /\ inbox \in [Enabled -> Seq(Requests)]
    /\ mainPc = "enabling" => commands = 0

Still == stack \notin {"enabling", "disabling"}
AllIdle == \A p \in Enabled : profile[p] = "idle"
AllRunning == \A p \in Enabled : profile[p] = "running"
AllStarted == \A p \in Enabled : startStatus[p]
Empty == \A p \in Enabled : inbox[p] = <<>>
Low == AllIdle /\ Empty
Holds(events, answers) == Carried(gapQ) = events /\ mainQ = answers

Enabling(ok) == Event("MAIN_EVENT_ENABLED", None, ok)
Disabling(on) == Event("MAIN_EVENT_DISABLED", None, on)
AdapterIs(on) == Event("GAP_EVENT_ADAPTER_STATE", None, on)
StartIs(p, ok) == Event("PROFILE_EVENT_START_DONE", p, ok)
StopIs(p, ok) == Event("PROFILE_EVENT_STOP_DONE", p, ok)

(* No command.  After a disable that the stack refused nothing runs.          *)
Resting ==
    /\ Holds({}, <<>>) /\ Empty /\ Still /\ state = btState
    /\ state = "OFF" => AllIdle
    /\ state = "ON" => AllStarted /\ (AllRunning \/ AllIdle)

(* An enable, until the profiles are asked to start.                         *)
EnableAsked == state = "OFF" /\ Still /\ Holds({Msg("GAP_API_ENABLE")}, <<>>)
EnableFailed ==
    /\ state = "OFF" /\ Still
    /\ Carried(gapQ) = {} /\ mainQ \in {<<>>, <<Enabling(FALSE)>>, <<Disabling(FALSE)>>}
StackEnables == state = "TURNING_ON" /\ stack \in {"enabling", "lost"} /\ Holds({}, <<>>)
StackAnswers ==
    /\ state = "TURNING_ON" /\ Still
    /\ \E on \in BOOLEAN : Holds({AdapterIs(on)}, <<>>)
StartAsked == state = "ON" /\ Still /\ Holds({Msg("PROFILE_API_START")}, <<>>)

Starting(p) ==
    /\ inbox[p] \in {<<>>, <<"PROFILE_API_START">>} /\ profile[p] # "stopping"
    /\ inbox[p] # <<>> =>
          /\ profile[p] = "idle" /\ ~startStatus[p]
          /\ \A ok \in BOOLEAN : StartIs(p, ok) \notin Carried(gapQ)
    /\ \A ok \in BOOLEAN : StartIs(p, ok) \in Carried(gapQ) =>
          ~startStatus[p] /\ profile[p] = IF ok THEN "running" ELSE "idle"
    /\ startStatus[p] => profile[p] = "running"

ProfilesStart ==
    /\ state = "ON" /\ Still /\ mainQ = <<>> /\ ~AllStarted
    /\ \A e \in Carried(gapQ) : \E p \in Enabled, ok \in BOOLEAN : e = StartIs(p, ok)
    /\ \A p \in Enabled : Starting(p)

EnableDone ==
    /\ state = "ON" /\ Still /\ Holds({}, <<Enabling(TRUE)>>)
    /\ AllRunning /\ AllStarted /\ Empty

EnableCommand == enableCmd /\ ~disableCmd /\ btState = "OFF"
EnableInProgress ==
    \/ Low /\ (EnableAsked \/ EnableFailed \/ StackEnables \/ StackAnswers \/ StartAsked)
    \/ ProfilesStart
    \/ EnableDone

(* A disable, until the stack is told.                                       *)
DisableAsked ==
    /\ AllRunning \/ AllIdle
    /\ \/ Empty /\ Holds({Msg("GAP_API_DISABLE")}, <<>>)
       \/ Empty /\ Holds({Msg("A2DP_SINK_CLEANUP_DONE")}, <<>>)
       \/ /\ A2DP_SINK \in Enabled /\ Holds({}, <<>>)
          /\ \A p \in Enabled : inbox[p] = IF p = A2DP_SINK THEN <<"A2DP_SINK_CLEANUP_REQ">> ELSE <<>>

Stopping(p) ==
    /\ inbox[p] \in {<<>>, <<"PROFILE_API_STOP">>}
    /\ inbox[p] # <<>> \/ profile[p] = "stopping" =>
          /\ ~stopStatus[p]
          /\ \A ok \in BOOLEAN : StopIs(p, ok) \notin Carried(gapQ)
    /\ inbox[p] # <<>> => profile[p] # "stopping"
    /\ \A ok \in BOOLEAN : StopIs(p, ok) \in Carried(gapQ) =>
          /\ ~stopStatus[p] /\ profile[p] = "idle"
          /\ StopIs(p, ~ok) \notin Carried(gapQ)
    /\ stopStatus[p] => profile[p] = "idle"

Others == Enabled \ {BT_AM}
ProfilesStop ==
    /\ mainQ = <<>> /\ \E p \in Others : ~stopStatus[p]
    /\ \A e \in Carried(gapQ) : \E p \in Others, ok \in BOOLEAN : e = StopIs(p, ok)
    /\ \A p \in Others : Stopping(p)
    /\ BT_AM \in Enabled => inbox[BT_AM] = <<>> /\ profile[BT_AM] # "stopping"

AudioManagerAsked ==
    /\ BT_AM \in Enabled /\ inbox[BT_AM] = <<"BT_AM_DISABLE_REQ">> /\ Holds({}, <<>>)
    /\ profile[BT_AM] # "stopping"
    /\ \A p \in Others : inbox[p] = <<>> /\ profile[p] = "idle"

AudioManagerDone == Low /\ Holds({Msg("BT_AM_DISABLE_DONE")}, <<>>)
DisableRefused == Low /\ Holds({}, <<Disabling(TRUE)>>)

(* The rest of a disable.                                                    *)
StackDisables == state = "TURNING_OFF" /\ stack \in {"disabling", "lost"} /\ Holds({}, <<>>)
StackDisabled == state = "TURNING_OFF" /\ Still /\ Holds({AdapterIs(FALSE)}, <<>>)
DisableDone == state = "OFF" /\ Still /\ Holds({}, <<Disabling(FALSE)>>)

DisableCommand == disableCmd /\ ~enableCmd /\ btState = "ON"
StillOn == state = "ON" /\ Still /\ AllStarted
DisableInProgress ==
    \/ StillOn /\ (DisableAsked \/ ProfilesStop \/ AudioManagerAsked
                   \/ AudioManagerDone \/ DisableRefused)
    \/ Low /\ (StackDisables \/ StackDisabled \/ DisableDone)

(* Commands are given once all threads are there.                            *)
ThreadsReady ==
    /\ mainPc = "serving" => \A p \in Enabled : thread[p] = "ready"
    /\ ~Idle => mainPc = "serving"

OneCommand ==
    /\ Once(gapQ) /\ ThreadsReady
    /\ \/ Idle /\ Resting
       \/ EnableCommand /\ EnableInProgress
       \/ DisableCommand /\ DisableInProgress

IInv == TypeOK /\ QueuesOK /\ (~DefaultEnable => OneCommand)

-----------------------------------------------------------------------------
(* Lemmas about queues.                                                      *)

LEMMA KeptAppend ==
    ASSUME NEW skip, NEW q \in Seq(GapEvents), NEW e \in GapEvents
    PROVE  /\ Kept(Append(q, e), skip) = Kept(q, skip) \cup (IF e.id \in skip THEN {} ELSE {e})
           /\ Distinct(q, skip) /\ (e.id \in skip \/ e \notin Kept(q, skip)) => Distinct(Append(q, e), skip)
<1> DEFINE more == Append(q, e)
           n == Len(q)
<1>1. /\ more \in Seq(GapEvents) /\ n \in Nat /\ Len(more) = n + 1
      /\ \A i \in 1 .. n : more[i] = q[i] /\ i \in 1 .. n + 1
      /\ more[n + 1] = e /\ n + 1 \in 1 .. n + 1
      /\ \A i \in 1 .. n + 1 : i \in 1 .. n \/ i = n + 1
  BY AppendProperties
<1> HIDE DEF more, n
<1>2. Kept(more, skip) = Kept(q, skip) \cup (IF e.id \in skip THEN {} ELSE {e})
  <2>1. ASSUME NEW x \in Kept(more, skip)
        PROVE  x \in Kept(q, skip) \cup (IF e.id \in skip THEN {} ELSE {e})
    <3>1. PICK i \in 1 .. n + 1 : x = more[i] /\ more[i].id \notin skip
      BY <1>1, <2>1 DEF Kept
    <3> QED
      BY <1>1, <3>1 DEF Kept, n
  <2>2. ASSUME NEW x \in Kept(q, skip) PROVE x \in Kept(more, skip)
    <3>1. PICK i \in 1 .. n : x = q[i] /\ q[i].id \notin skip
      BY <2>2 DEF Kept, n
    <3> QED
      BY <1>1, <3>1 DEF Kept
  <2>3. e.id \notin skip => e \in Kept(more, skip)
    BY <1>1 DEF Kept
  <2> QED
    BY <2>1, <2>2, <2>3
<1>3. ASSUME Distinct(q, skip), e.id \in skip \/ e \notin Kept(q, skip) PROVE Distinct(more, skip)
  <2> SUFFICES ASSUME NEW i \in 1 .. n + 1, NEW j \in 1 .. n + 1, more[i] = more[j], more[i].id \notin skip
               PROVE  i = j
    BY <1>1 DEF Distinct
  <2>1. CASE i \in 1 .. n /\ j \in 1 .. n
    BY <1>1, <1>3, <2>1 DEF Distinct, n
  <2>2. CASE i = n + 1 /\ j \in 1 .. n
    BY <1>1, <1>3, <2>2 DEF Kept, n
  <2>3. CASE i \in 1 .. n /\ j = n + 1
    BY <1>1, <1>3, <2>3 DEF Kept, n
  <2> QED
    BY <1>1, <2>1, <2>2, <2>3
<1> QED
  BY <1>2, <1>3 DEF more

LEMMA KeptTail ==
    ASSUME NEW skip, NEW q \in Seq(GapEvents), q # <<>>
    PROVE  /\ Distinct(q, skip) => Distinct(Tail(q), skip)
           /\ Head(q).id \in skip => Kept(Tail(q), skip) = Kept(q, skip)
           /\ Distinct(q, skip) /\ Head(q).id \notin skip =>
                 Head(q) \in Kept(q, skip) /\ Kept(Tail(q), skip) = Kept(q, skip) \ {Head(q)}
<1> DEFINE rest == Tail(q)
           n == Len(q)
<1>1. /\ rest \in Seq(GapEvents) /\ Head(q) = q[1] /\ Head(q) \in GapEvents
      /\ n \in Nat \ {0} /\ Len(rest) = n - 1
      /\ \A i \in 1 .. Len(rest) : rest[i] = q[i + 1]
  BY HeadTailProperties
<1> HIDE DEF rest, n
<1>2. /\ 1 \in 1 .. n
      /\ \A i \in 1 .. Len(rest) : i + 1 \in 1 .. n /\ i + 1 # 1
      /\ \A i \in 1 .. n : i # 1 => i - 1 \in 1 .. Len(rest) /\ rest[i - 1] = q[i]
  BY <1>1
<1>3. ASSUME Distinct(q, skip) PROVE Distinct(rest, skip)
  <2> SUFFICES ASSUME NEW i \in 1 .. Len(rest), NEW j \in 1 .. Len(rest), rest[i] = rest[j], rest[i].id \notin skip
               PROVE  i = j
    BY DEF Distinct
  <2>1. i + 1 = j + 1
    BY <1>1, <1>2, <1>3 DEF Distinct, n
  <2> QED
    BY <1>1, <2>1
<1>4. ASSUME NEW x \in Kept(rest, skip)
      PROVE  x \in Kept(q, skip) /\ (Distinct(q, skip) => x # Head(q))
  <2>1. PICK i \in 1 .. Len(rest) : x = rest[i] /\ rest[i].id \notin skip
    BY <1>4 DEF Kept
  <2>2. x = q[i + 1] /\ i + 1 \in 1 .. n /\ i + 1 # 1
    BY <1>1, <1>2, <2>1
  <2>3. x \in Kept(q, skip)
    BY <2>1, <2>2 DEF Kept, n
  <2>4. Distinct(q, skip) => x # Head(q)
    BY <1>1, <1>2, <2>1, <2>2 DEF Distinct, n
  <2> QED
    BY <2>3, <2>4
<1>5. ASSUME NEW x \in Kept(q, skip) PROVE x \in Kept(rest, skip) \/ (x = Head(q) /\ Head(q).id \notin skip)
  <2>1. PICK i \in 1 .. n : x = q[i] /\ q[i].id \notin skip
    BY <1>5 DEF Kept, n
  <2>2. CASE i = 1
    BY <1>1, <2>1, <2>2
  <2>3. CASE i # 1
    BY <1>2, <2>1, <2>3 DEF Kept
  <2> QED
    BY <2>2, <2>3
<1>6. Head(q).id \notin skip => Head(q) \in Kept(q, skip)
  BY <1>1, <1>2 DEF Kept, n
<1> QED
  BY <1>3, <1>4, <1>5, <1>6 DEF rest

LEMMA QueueAppend ==
    ASSUME NEW q \in Seq(GapEvents), NEW e \in GapEvents
    PROVE  /\ Append(q, e) \in Seq(GapEvents)
           /\ Carried(Append(q, e)) = Carried(q) \cup (IF e.id \in Noise THEN {} ELSE {e})
           /\ Once(q) /\ (e.id \in Noise \/ e \notin Carried(q)) => Once(Append(q, e))
  BY KeptAppend, AppendProperties DEF Carried, Once

LEMMA QueueTake ==
    ASSUME NEW q \in Seq(GapEvents), q # <<>>
    PROVE  /\ Tail(q) \in Seq(GapEvents) /\ Head(q) \in GapEvents
           /\ Once(q) => Once(Tail(q))
           /\ Once(q) /\ Head(q).id \notin Noise =>
                 Head(q) \in Carried(q) /\ Carried(Tail(q)) = Carried(q) \ {Head(q)}
  BY KeptTail, HeadTailProperties DEF Carried, Once

LEMMA OneMessage ==
    ASSUME NEW x
    PROVE  /\ Append(<<>>, x) = <<x>> /\ Head(<<x>>) = x /\ Tail(<<x>>) = <<>> /\ <<x>> # <<>>
  OBVIOUS

LEMMA NothingCarried == Carried(<<>>) = {} /\ Once(<<>>)
  BY DEF Carried, Once, Kept, Distinct

-----------------------------------------------------------------------------
(* The type invariant.                                                       *)

(* What each kind of message is made of.                                     *)
LEMMA MessageTypes ==
    /\ \A id \in GapIds : Msg(id) \in GapEvents /\ Msg(id).id = id
    /\ \A t \in Timers : Timeout(t) \in GapEvents /\ Timeout(t).id = "TIMEOUT"
    /\ \A on \in BOOLEAN : /\ AdapterIs(on) \in GapEvents
                            /\ AdapterIs(on).id = "GAP_EVENT_ADAPTER_STATE" /\ AdapterIs(on).status = on
    /\ \A p \in Enabled, ok \in BOOLEAN :
          /\ StartIs(p, ok) \in GapEvents /\ StartIs(p, ok).id = "PROFILE_EVENT_START_DONE"
          /\ StopIs(p, ok) \in GapEvents /\ StopIs(p, ok).id = "PROFILE_EVENT_STOP_DONE"
    /\ \A ok \in BOOLEAN : Enabling(ok) \in MainEvents /\ Disabling(ok) \in MainEvents
  BY DEF GapEvents, MainEvents, GapIds, MainIds, Noise, Msg, Timeout, Event, AdapterIs, StartIs,
         StopIs, Enabling, Disabling

Scalars ==
    /\ config \in Configurations
    /\ state \in {"OFF", "ON", "TURNING_ON", "TURNING_OFF"}
    /\ startStatus \in [Enabled -> BOOLEAN] /\ stopStatus \in [Enabled -> BOOLEAN]
    /\ armed \subseteq Timers
    /\ thread \in [Enabled -> {"none", "thread", "ready"}]
    /\ profile \in [Enabled -> {"idle", "running", "stopping"}]
    /\ mainPc \in {"enabling", "threads", "serving"} /\ btState \in {"OFF", "ON"}
    /\ enableCmd \in BOOLEAN /\ disableCmd \in BOOLEAN
    /\ stack \in {"off", "enabling", "on", "disabling", "lost"}
    /\ commands \in 0..MaxCommands
    /\ mainPc = "enabling" => commands = 0

LEMMA TypesMeet == TypeOK /\ QueuesOK <=> Scalars /\ QueuesOK
<1>1. ASSUME QueuesOK
      PROVE  /\ \A e \in Events(gapQ) : e.from \in Enabled \cup Timers \cup {None}
             /\ \A e \in Events(mainQ) : e.id \in {"MAIN_EVENT_ENABLED", "MAIN_EVENT_DISABLED"}
             /\ DOMAIN inbox = Enabled
  <2>1. /\ \A k \in DOMAIN gapQ : gapQ[k] \in GapEvents
        /\ \A k \in DOMAIN mainQ : mainQ[k] \in MainEvents
    BY <1>1 DEF QueuesOK
  <2> QED
    BY <1>1, <2>1 DEF Events, QueuesOK, GapEvents, MainEvents, MainIds
<1> QED
  BY <1>1 DEF TypeOK, Scalars, QueuesOK

(* The four ways in which the GAP thread's queue changes.                    *)
LEMMA GapQueueTyped ==
    ASSUME gapQ \in Seq(GapEvents)
    PROVE  /\ \A e \in GapEvents : Append(gapQ, e) \in Seq(GapEvents)
           /\ gapQ # <<>> => /\ Tail(gapQ) \o <<>> = Tail(gapQ) /\ Tail(gapQ) \in Seq(GapEvents)
                             /\ \A e \in GapEvents : /\ Tail(gapQ) \o <<e>> = Append(Tail(gapQ), e)
                                                     /\ Tail(gapQ) \o <<e>> \in Seq(GapEvents)
<1>1. \A e \in GapEvents : Append(gapQ, e) \in Seq(GapEvents)
  BY QueueAppend
<1>2. ASSUME gapQ # <<>> PROVE Tail(gapQ) \in Seq(GapEvents)
  BY <1>2, QueueTake
<1>3. \A q \in Seq(GapEvents), e \in GapEvents : q \o <<e>> = Append(q, e) /\ Append(q, e) \in Seq(GapEvents)
  OBVIOUS
<1>4. \A q \in Seq(GapEvents) : q \o <<>> = q
  OBVIOUS
<1> QED
  BY <1>1, <1>2, <1>3, <1>4

LEMMA GapQTypedInGap == ASSUME QueuesOK, Scalars, GapStep PROVE gapQ' \in Seq(GapEvents)
<1>1. CASE Kill
  BY <1>1 DEF Kill, QueuesOK
<1>2. CASE ~Kill
  <2>1. /\ gapQ # <<>>
        /\ \/ gapQ' = Tail(gapQ) \o <<>>
           \/ \E id \in GapIds : gapQ' = Tail(gapQ) \o <<Msg(id)>>
    <3> USE DEF GapIds, Noise, Consume, ConsumeAndPost, Handling
    <3>1. CASE AdapterTurnedOn \/ AdapterTurnedOff \/ IgnoreEnable \/ HandleEnable
      BY <3>1 DEF AdapterTurnedOn, AdapterTurnedOff, IgnoreEnable, HandleEnable
    <3>2. CASE StartProfiles \/ StartDone \/ StopDone
      BY <3>2 DEF StartProfiles, StartDone, StopDone
    <3>3. CASE HandleDisable \/ IgnoreDisable \/ CleanUpSinkFirst \/ StopProfiles
      BY <3>3 DEF HandleDisable, IgnoreDisable, CleanUpSinkFirst, StopProfiles
    <3> QED
      BY <1>2, <3>1, <3>2, <3>3 DEF GapStep
  <2> QED
    BY <2>1, GapQueueTyped, MessageTypes DEF QueuesOK
<1> QED
  BY <1>1, <1>2

LEMMA GapQTyped == ASSUME QueuesOK, Scalars, Next PROVE gapQ' \in Seq(GapEvents)
<1>1. gapQ \in Seq(GapEvents)
  BY DEF QueuesOK
<1>2. CASE MainStep \/ User
  BY <1>1, <1>2, GapQueueTyped, MessageTypes DEF MainStep, User, PostDefaultEnable, InitHandlerReturns,
     MainHandles, StartThread, SendEnableCmdToGap, SendDisableCmdToGap, GapIds
<1>3. CASE GapStep
  BY <1>3, GapQTypedInGap
<1>4. CASE StackCallback \/ SsrCleanupCb
  BY <1>1, <1>4, GapQueueTyped, MessageTypes DEF StackCallback, SsrCleanupCb, AdapterState, ToGap, GapIds,
     Noise, AdapterIs
<1>5. ASSUME NEW p \in Enabled, ProfileStep(p) \/ StopCompletes(p) PROVE gapQ' \in Seq(GapEvents)
  <2>1. CASE DropsMessage(p) \/ Starts(p)
    BY <1>1, <2>1, GapQueueTyped, MessageTypes DEF DropsMessage, Starts, ToGap, StartIs
  <2>2. CASE Stops(p) \/ StopCompletes(p)
    BY <1>1, <2>2, GapQueueTyped, MessageTypes DEF Stops, StopCompletes, ToGap, StopIs
  <2>3. CASE SinkCleansUp(p) \/ AudioManagerStops(p)
    BY <1>1, <2>3, GapQueueTyped, MessageTypes DEF SinkCleansUp, AudioManagerStops, ToGap, GapIds
  <2> QED
    BY <1>5, <2>1, <2>2, <2>3 DEF ProfileStep
<1>6. ASSUME NEW t \in Timers, TimerExpires(t) PROVE gapQ' \in Seq(GapEvents)
  BY <1>1, <1>6, GapQueueTyped, MessageTypes DEF TimerExpires, ToGap
<1> QED
  BY <1>2, <1>3, <1>4, <1>5, <1>6 DEF Next

LEMMA MainQTyped == ASSUME QueuesOK, Scalars, Next PROVE mainQ' \in Seq(MainEvents)
<1>1. mainQ \in Seq(MainEvents)
  BY DEF QueuesOK
<1>2. \A on \in BOOLEAN : /\ Append(mainQ, Enabling(on)) \in Seq(MainEvents)
                          /\ Append(mainQ, Disabling(on)) \in Seq(MainEvents)
  BY <1>1, MessageTypes
<1>3. CASE MainStep \/ User
  <2>1. mainQ # <<>> => Tail(mainQ) \in Seq(MainEvents)
    BY <1>1
  <2> QED
    BY <1>1, <1>3, <2>1 DEF MainStep, User, PostDefaultEnable, InitHandlerReturns, MainHandles, StartThread,
       SendEnableCmdToGap, SendDisableCmdToGap
<1>4. CASE GapStep
  <2> USE DEF TellMain, Enabling, Disabling
  <2>1. CASE AdapterTurnedOn \/ AdapterTurnedOff \/ IgnoreEnable \/ HandleEnable
    BY <1>1, <1>2, <2>1 DEF AdapterTurnedOn, AdapterTurnedOff, IgnoreEnable, HandleEnable
  <2>2. CASE StartProfiles \/ StartDone \/ StopDone
    BY <1>1, <1>2, <2>2 DEF StartProfiles, StartDone, StopDone
  <2>3. CASE HandleDisable \/ IgnoreDisable \/ CleanUpSinkFirst \/ StopProfiles \/ Kill
    BY <1>1, <1>2, <2>3 DEF HandleDisable, IgnoreDisable, CleanUpSinkFirst, StopProfiles, Kill
  <2> QED
    BY <1>4, <2>1, <2>2, <2>3 DEF GapStep
<1>5. CASE StackCallback \/ SsrCleanupCb
  BY <1>1, <1>5 DEF StackCallback, SsrCleanupCb
<1>6. ASSUME NEW p \in Enabled, ProfileStep(p) \/ StopCompletes(p) PROVE mainQ' \in Seq(MainEvents)
  BY <1>1, <1>6 DEF ProfileStep, DropsMessage, Starts, Stops, StopCompletes, SinkCleansUp, AudioManagerStops
<1>7. ASSUME NEW t \in Timers, TimerExpires(t) PROVE mainQ' \in Seq(MainEvents)
  BY <1>1, <1>7 DEF TimerExpires
<1> QED
  BY <1>3, <1>4, <1>5, <1>6, <1>7 DEF Next

LEMMA PostTyped ==
    ASSUME QueuesOK, NEW P, NEW id \in Requests, PostTo(P, id)
    PROVE  inbox' \in [Enabled -> Seq(Requests)]
<1>1. \A p \in Enabled : Append(inbox[p], id) \in Seq(Requests) /\ inbox[p] \in Seq(Requests)
  BY DEF QueuesOK
<1> QED
  BY <1>1 DEF PostTo

LEMMA ReceiptTyped ==
    ASSUME QueuesOK, NEW p \in Enabled, NEW id, Receives(p, id)
    PROVE  inbox' \in [Enabled -> Seq(Requests)]
<1>1. inbox[p] \in Seq(Requests) /\ inbox[p] # <<>>
  BY DEF QueuesOK, Receives
<1>2. Tail(inbox[p]) \in Seq(Requests)
  BY <1>1
<1> QED
  BY <1>2 DEF QueuesOK, Receives

LEMMA InboxTyped == ASSUME QueuesOK, Scalars, Next PROVE inbox' \in [Enabled -> Seq(Requests)]
<1>1. inbox \in [Enabled -> Seq(Requests)]
  BY DEF QueuesOK
<1>2. CASE MainStep \/ User
  BY <1>1, <1>2 DEF MainStep, User, PostDefaultEnable, InitHandlerReturns, MainHandles, StartThread,
     SendEnableCmdToGap, SendDisableCmdToGap
<1>3. CASE GapStep
  <2>1. CASE AdapterTurnedOn \/ AdapterTurnedOff \/ IgnoreEnable \/ HandleEnable \/ StartDone
    BY <1>1, <2>1 DEF AdapterTurnedOn, AdapterTurnedOff, IgnoreEnable, HandleEnable, StartDone
  <2>2. CASE StartProfiles \/ StopDone
    BY <1>1, <2>2, PostTyped DEF StartProfiles, StopDone, Requests
  <2>3. CASE HandleDisable \/ IgnoreDisable \/ Kill
    BY <1>1, <2>3 DEF HandleDisable, IgnoreDisable, Kill
  <2>4. CASE CleanUpSinkFirst \/ StopProfiles
    BY <2>4, PostTyped DEF CleanUpSinkFirst, StopProfiles, Requests
  <2> QED
    BY <1>3, <2>1, <2>2, <2>3, <2>4 DEF GapStep
<1>4. CASE StackCallback \/ SsrCleanupCb
  BY <1>1, <1>4 DEF StackCallback, SsrCleanupCb
<1>5. ASSUME NEW p \in Enabled, ProfileStep(p) \/ StopCompletes(p) PROVE inbox' \in [Enabled -> Seq(Requests)]
  BY <1>1, <1>5, ReceiptTyped DEF ProfileStep, DropsMessage, Starts, Stops, StopCompletes, SinkCleansUp,
     AudioManagerStops
<1>6. ASSUME NEW t \in Timers, TimerExpires(t) PROVE inbox' \in [Enabled -> Seq(Requests)]
  BY <1>1, <1>6 DEF TimerExpires
<1> QED
  BY <1>2, <1>3, <1>4, <1>5, <1>6 DEF Next

LEMMA ScalarsTyped == ASSUME QueuesOK, Scalars, Next PROVE Scalars'
<1>1. UNCHANGED config /\ Enabled' = Enabled
  BY DEF Next, Alive, Enabled
<1> USE DEF gapVars, mainVars, profVars
<1>2. CASE MainStep \/ User
  <2>1. MaxCommands \in Nat \ {0} /\ DefaultEnable' = DefaultEnable
    BY <1>1, GapAssumption DEF DefaultEnable
  <2>2. CASE PostDefaultEnable
    <3>1. commands = 0
      BY <2>2 DEF PostDefaultEnable, Scalars
    <3>2. commands' \in 0 .. MaxCommands
      <4>1. commands' = 0 \/ commands' = 1
        BY <2>2, <3>1 DEF PostDefaultEnable
      <4> QED
        BY <2>1, <4>1
    <3>3. mainPc' = "threads"
      BY <2>2 DEF PostDefaultEnable
    <3>4. UNCHANGED <<gapVars, profVars, btState, enableCmd, disableCmd, armed, stack>>
      BY <2>2 DEF PostDefaultEnable
    <3> QED
      BY <1>1, <3>2, <3>3, <3>4 DEF Scalars
  <2>3. CASE InitHandlerReturns \/ MainHandles
    BY <1>1, <2>3 DEF InitHandlerReturns, MainHandles, Scalars
  <2>4. ASSUME NEW p \in Enabled, StartThread(p) PROVE Scalars'
    BY <1>1, <2>4 DEF StartThread, Scalars
  <2>5. CASE User
    <3>1. commands' = commands + 1 /\ commands < MaxCommands /\ mainPc = "serving"
      BY <2>5 DEF User, SendEnableCmdToGap, SendDisableCmdToGap
    <3>2. commands' \in 0 .. MaxCommands
      BY <2>1, <3>1 DEF Scalars
    <3>3. UNCHANGED <<gapVars, profVars, mainPc, btState, armed, stack>>
      BY <2>5 DEF User, SendEnableCmdToGap, SendDisableCmdToGap
    <3>4. enableCmd' \in BOOLEAN /\ disableCmd' \in BOOLEAN
      BY <2>5 DEF User, SendEnableCmdToGap, SendDisableCmdToGap, Scalars
    <3> QED
      BY <1>1, <3>1, <3>2, <3>3, <3>4 DEF Scalars
  <2> QED
    BY <1>2, <2>2, <2>3, <2>4, <2>5 DEF MainStep
<1>3. CASE GapStep
  <2>1. Now.status \in BOOLEAN \/ Kill
    <3>1. CASE gapQ # <<>>
      <4>1. Head(gapQ) \in GapEvents
        BY <3>1, QueueTake DEF QueuesOK
      <4> QED
        BY <4>1 DEF GapEvents, Now
    <3>2. CASE gapQ = <<>>
      BY <1>3, <3>2 DEF GapStep, AdapterTurnedOn, AdapterTurnedOff, IgnoreEnable, HandleEnable, StartProfiles,
         StartDone, StopDone, HandleDisable, IgnoreDisable, CleanUpSinkFirst, StopProfiles, Kill, Handling
    <3> QED
      BY <3>1, <3>2
  <2>2. CASE AdapterTurnedOn \/ AdapterTurnedOff
    BY <1>1, <2>2 DEF AdapterTurnedOn, AdapterTurnedOff, Scalars
  <2>11. CASE IgnoreEnable
    BY <1>1, <2>11 DEF IgnoreEnable, Scalars
  <2>3. CASE HandleEnable
    BY <1>1, <2>3 DEF HandleEnable, Scalars, Timers
  <2>4. CASE StartProfiles
    BY <1>1, <2>4 DEF StartProfiles, Scalars, Timers
  <2>9. CASE StopProfiles
    BY <1>1, <2>9 DEF StopProfiles, Scalars, Timers
  <2>5. CASE StartDone /\ ~Kill
    BY <1>1, <2>1, <2>5 DEF StartDone, Scalars
  <2>6. CASE StopDone /\ ~Kill
    BY <1>1, <2>1, <2>6 DEF StopDone, Scalars
  <2>7. CASE HandleDisable
    BY <1>1, <2>7 DEF HandleDisable, Scalars, Timers
  <2>8. CASE IgnoreDisable
    BY <1>1, <2>8 DEF IgnoreDisable, Scalars
  <2>10. CASE CleanUpSinkFirst \/ Kill
    BY <1>1, <2>10 DEF CleanUpSinkFirst, Kill, Scalars
  <2> QED
    BY <1>3, <2>2, <2>3, <2>4, <2>5, <2>6, <2>7, <2>8, <2>9, <2>10, <2>11
       DEF GapStep
<1>4. CASE StackCallback \/ SsrCleanupCb
  BY <1>1, <1>4 DEF StackCallback, SsrCleanupCb, Scalars
<1>5. ASSUME NEW p \in Enabled, ProfileStep(p) \/ StopCompletes(p) PROVE Scalars'
  <2>1. CASE DropsMessage(p) \/ SinkCleansUp(p)
    BY <1>1, <2>1 DEF DropsMessage, SinkCleansUp, Scalars
  <2>2. CASE Starts(p)
    BY <1>1, <2>2 DEF Starts, Scalars
  <2>3. CASE Stops(p)
    BY <1>1, <2>3 DEF Stops, Scalars
  <2>4. CASE AudioManagerStops(p) \/ StopCompletes(p)
    BY <1>1, <2>4 DEF AudioManagerStops, StopCompletes, Scalars
  <2> QED
    BY <1>5, <2>1, <2>2, <2>3, <2>4 DEF ProfileStep
<1>6. ASSUME NEW t \in Timers, TimerExpires(t) PROVE Scalars'
  BY <1>1, <1>6 DEF TimerExpires, Scalars
<1> QED
  BY <1>2, <1>3, <1>4, <1>5, <1>6 DEF Next

LEMMA NextTyped == ASSUME TypeOK, QueuesOK, Next PROVE TypeOK' /\ QueuesOK'
<1>1. QueuesOK /\ Scalars
  BY TypesMeet
<1>2. Scalars'
  BY <1>1, ScalarsTyped
<1>3. Enabled' = Enabled /\ GapEvents' = GapEvents
  BY DEF Next, Alive, Enabled, GapEvents
<1>4. QueuesOK'
  <2>1. mainPc' = "enabling" => commands' = 0
    BY <1>2 DEF Scalars
  <2> QED
    BY <1>1, <1>3, <2>1, GapQTyped, MainQTyped, InboxTyped DEF QueuesOK
<1>5. (TypeOK /\ QueuesOK <=> Scalars /\ QueuesOK)'
  BY TypesMeet, PTL
<1> QED
  BY <1>2, <1>4, <1>5
-----------------------------------------------------------------------------
(* Where the command is.                                                     *)

(* A message of the protocol says in which phase the command is.              *)
LEMMA PlaceOfMessage ==
    ASSUME OneCommand, NEW e \in Carried(gapQ)
    PROVE  \/ EnableCommand /\ Low /\ EnableAsked /\ e = Msg("GAP_API_ENABLE")
           \/ EnableCommand /\ Low /\ StackAnswers /\ e \in {AdapterIs(TRUE), AdapterIs(FALSE)}
           \/ EnableCommand /\ Low /\ StartAsked /\ e = Msg("PROFILE_API_START")
           \/ EnableCommand /\ ProfilesStart /\ \E p \in Enabled, ok \in BOOLEAN : e = StartIs(p, ok)
           \/ /\ DisableCommand /\ StillOn /\ DisableAsked /\ Empty
              /\ e \in {Msg("GAP_API_DISABLE"), Msg("A2DP_SINK_CLEANUP_DONE")}
           \/ /\ DisableCommand /\ StillOn /\ ProfilesStop
              /\ \E p \in Others, ok \in BOOLEAN : e = StopIs(p, ok)
           \/ DisableCommand /\ StillOn /\ AudioManagerDone /\ e = Msg("BT_AM_DISABLE_DONE")
           \/ DisableCommand /\ Low /\ StackDisabled /\ e = AdapterIs(FALSE)
<1>1. ~Resting
  BY DEF Resting, Holds
<1>2. CASE EnableCommand /\ EnableInProgress
  BY <1>2 DEF EnableInProgress, EnableAsked, EnableFailed, StackEnables, StackAnswers, StartAsked,
     ProfilesStart, EnableDone, Holds
<1>3. CASE DisableCommand /\ StillOn /\ DisableAsked
  BY <1>3 DEF DisableAsked, Holds
<1>4. CASE DisableCommand /\ StillOn /\ ProfilesStop
  BY <1>4 DEF ProfilesStop
<1>5. CASE /\ DisableCommand
           /\ \/ StillOn /\ (AudioManagerAsked \/ AudioManagerDone \/ DisableRefused)
              \/ Low /\ (StackDisables \/ StackDisabled \/ DisableDone)
  BY <1>5 DEF AudioManagerAsked, AudioManagerDone, DisableRefused, StackDisables, StackDisabled,
     DisableDone, Holds
<1> QED
  BY <1>1, <1>2, <1>3, <1>4, <1>5 DEF OneCommand, DisableInProgress

(* So does a request to a profile's thread.                                   *)
LEMMA PlaceOfRequest ==
    ASSUME OneCommand, NEW p \in Enabled, inbox[p] # <<>>
    PROVE  \/ EnableCommand /\ ProfilesStart /\ inbox[p] = <<"PROFILE_API_START">>
           \/ /\ DisableCommand /\ StillOn /\ DisableAsked /\ Carried(gapQ) = {} /\ p = A2DP_SINK
              /\ inbox[p] = <<"A2DP_SINK_CLEANUP_REQ">>
           \/ DisableCommand /\ StillOn /\ ProfilesStop /\ p \in Others /\ inbox[p] = <<"PROFILE_API_STOP">>
           \/ DisableCommand /\ StillOn /\ AudioManagerAsked /\ p = BT_AM /\ inbox[p] = <<"BT_AM_DISABLE_REQ">>
<1>1. ~Empty
  BY DEF Empty
<1>2. ~Resting /\ ~Low /\ ~EnableDone /\ ~AudioManagerDone /\ ~DisableRefused
  BY <1>1 DEF Resting, Low, EnableDone, AudioManagerDone, DisableRefused
<1>3. CASE EnableCommand /\ ProfilesStart
  BY <1>3 DEF ProfilesStart, Starting
<1>4. CASE DisableCommand /\ StillOn /\ DisableAsked
  BY <1>1, <1>4 DEF DisableAsked, Holds
<1>5. CASE DisableCommand /\ StillOn /\ ProfilesStop
  BY <1>5 DEF ProfilesStop, Stopping, Others
<1>6. CASE DisableCommand /\ StillOn /\ AudioManagerAsked
  BY <1>6 DEF AudioManagerAsked, Others
<1> QED
  BY <1>2, <1>3, <1>4, <1>5, <1>6 DEF OneCommand, EnableInProgress, DisableInProgress

(* A profile is on its way down only while the profiles are being stopped.    *)
LEMMA PlaceOfStop ==
    ASSUME Scalars, OneCommand, NEW p \in Enabled, profile[p] = "stopping"
    PROVE  DisableCommand /\ StillOn /\ ProfilesStop /\ p \in Others
<1>1. ~AllIdle /\ ~AllRunning
  BY DEF AllIdle, AllRunning
<1>2. ~Resting /\ ~Low /\ ~EnableDone /\ ~DisableAsked /\ ~AudioManagerDone /\ ~DisableRefused
  BY <1>1 DEF Resting, Low, EnableDone, DisableAsked, AudioManagerDone, DisableRefused, Scalars
<1>3. ~ProfilesStart
  BY DEF ProfilesStart, Starting
<1>4. ~AudioManagerAsked
  BY DEF AudioManagerAsked, Others
<1>5. ProfilesStop => p \in Others
  BY DEF ProfilesStop, Others
<1> QED
  BY <1>2, <1>3, <1>4, <1>5 DEF OneCommand, EnableInProgress, DisableInProgress

(* And an answer to the main thread.                                          *)
LEMMA PlaceOfAnswer ==
    ASSUME OneCommand, mainQ # <<>>
    PROVE  \/ EnableCommand /\ Low /\ EnableFailed
           \/ EnableCommand /\ EnableDone
           \/ DisableCommand /\ StillOn /\ DisableRefused
           \/ DisableCommand /\ Low /\ DisableDone
<1>1. /\ ~Resting /\ ~EnableAsked /\ ~StackEnables /\ ~StackAnswers /\ ~StartAsked /\ ~ProfilesStart
      /\ ~DisableAsked /\ ~ProfilesStop /\ ~AudioManagerAsked /\ ~AudioManagerDone
      /\ ~StackDisables /\ ~StackDisabled
  BY DEF Resting, EnableAsked, StackEnables, StackAnswers, StartAsked, ProfilesStart, DisableAsked,
     ProfilesStop, AudioManagerAsked, AudioManagerDone, StackDisables, StackDisabled, Holds
<1> QED
  BY <1>1 DEF OneCommand, EnableInProgress, DisableInProgress

-----------------------------------------------------------------------------
(* How a step moves it.                                                      *)

LEMMA TakesMessage ==
    ASSUME QueuesOK, OneCommand, NEW id \in GapIds \ Noise, Handling(id)
    PROVE  /\ Now \in Carried(gapQ) /\ Now.id = id /\ Now \in GapEvents
           /\ Consume => Once(gapQ') /\ Carried(gapQ') = Carried(gapQ) \ {Now}
           /\ \A e \in GapEvents :
                 e.id \notin Noise /\ e \notin Carried(gapQ) \ {Now} /\ ConsumeAndPost(<<e>>)
                     => Once(gapQ') /\ Carried(gapQ') = (Carried(gapQ) \ {Now}) \cup {e}
<1>1. gapQ \in Seq(GapEvents) /\ gapQ # <<>> /\ Once(gapQ) /\ Now = Head(gapQ) /\ Now.id = id
  BY DEF QueuesOK, Handling, OneCommand, Now
<1>2. /\ Tail(gapQ) \in Seq(GapEvents) /\ Now \in GapEvents /\ Once(Tail(gapQ))
      /\ Now \in Carried(gapQ) /\ Carried(Tail(gapQ)) = Carried(gapQ) \ {Now}
  BY <1>1, QueueTake
<1>3. Tail(gapQ) \o <<>> = Tail(gapQ) /\ \A e \in GapEvents : Tail(gapQ) \o <<e>> = Append(Tail(gapQ), e)
  BY <1>1, GapQueueTyped
<1>4. ASSUME NEW e \in GapEvents, e.id \notin Noise, e \notin Carried(gapQ) \ {Now}, ConsumeAndPost(<<e>>)
      PROVE  Once(gapQ') /\ Carried(gapQ') = (Carried(gapQ) \ {Now}) \cup {e}
  <2>1. gapQ' = Append(Tail(gapQ), e)
    BY <1>3, <1>4 DEF ConsumeAndPost
  <2>2. e \notin Carried(Tail(gapQ))
    BY <1>2, <1>4
  <2> QED
    BY <1>2, <1>4, <2>1, <2>2, QueueAppend
<1> QED
  BY <1>1, <1>2, <1>3, <1>4 DEF Consume, ConsumeAndPost

LEMMA PostsMessage ==
    ASSUME QueuesOK, OneCommand, NEW e \in GapEvents, e.id \in Noise \/ e \notin Carried(gapQ), ToGap(e)
    PROVE  Once(gapQ') /\ Carried(gapQ') = Carried(gapQ) \cup (IF e.id \in Noise THEN {} ELSE {e})
  BY QueueAppend DEF QueuesOK, OneCommand, ToGap

(* The request reaches every thread it is posted to: all are there.           *)
LEMMA PostsRequest ==
    ASSUME OneCommand, ~Idle, Empty, NEW P, NEW id, PostTo(P, id)
    PROVE  \A p \in Enabled : inbox'[p] = IF p \in P THEN <<id>> ELSE <<>>
<1>1. \A p \in Enabled : thread[p] = "ready"
  BY DEF OneCommand, ThreadsReady
<1> QED
  BY <1>1, OneMessage DEF PostTo, Empty

LEMMA TakesRequest ==
    ASSUME QueuesOK, NEW p \in Enabled, NEW id, Receives(p, id), inbox[p] = <<id>>
    PROVE  \A q \in Enabled : inbox'[q] = IF q = p THEN <<>> ELSE inbox[q]
  BY OneMessage DEF QueuesOK, Receives

LEMMA StaysReady ==
    ASSUME OneCommand, UNCHANGED <<config, thread, mainPc, enableCmd, disableCmd>>
    PROVE  ThreadsReady'
  BY DEF OneCommand, ThreadsReady, Idle, Enabled

(* A timeout, the restart of the stack, and a step that changes no part.      *)
LEMMA KeepsPlace ==
    ASSUME OneCommand, UNCHANGED <<config, gapVars, profVars, inbox, mainQ, btState, enableCmd, disableCmd>>,
           Once(gapQ'), Carried(gapQ') = Carried(gapQ), ThreadsReady',
           stack' = stack \/ stack' = "lost"
    PROVE  OneCommand'
<1> USE DEF gapVars, profVars, Enabled
<1>1. /\ UNCHANGED <<Idle, EnableCommand, DisableCommand, AllIdle, AllRunning, AllStarted, Empty, Low>>
      /\ Still => Still'
  BY DEF Idle, EnableCommand, DisableCommand, AllIdle, AllRunning, AllStarted, Empty, Low, Still
<1>2. Resting => Resting'
  BY <1>1 DEF Resting, Holds
<1>3. EnableInProgress => EnableInProgress'
  <2>1. /\ EnableAsked => EnableAsked'
        /\ EnableFailed => EnableFailed'
        /\ StackEnables => StackEnables'
        /\ StackAnswers => StackAnswers'
        /\ StartAsked => StartAsked'
        /\ EnableDone => EnableDone'
    BY <1>1 DEF EnableAsked, EnableFailed, StackEnables, StackAnswers, StartAsked, EnableDone, Holds
  <2>2. ProfilesStart => ProfilesStart'
    BY <1>1 DEF ProfilesStart, Starting
  <2> QED
    BY <1>1, <2>1, <2>2 DEF EnableInProgress
<1>4. DisableInProgress => DisableInProgress'
  <2>1. /\ DisableAsked => DisableAsked'
        /\ AudioManagerAsked => AudioManagerAsked'
        /\ AudioManagerDone => AudioManagerDone'
        /\ DisableRefused => DisableRefused'
        /\ StillOn => StillOn'
    BY <1>1 DEF DisableAsked, AudioManagerAsked, AudioManagerDone, DisableRefused, StillOn, Holds, Others
  <2>2. ProfilesStop => ProfilesStop'
    BY DEF ProfilesStop, Stopping, Others
  <2>3. /\ StackDisables => StackDisables'
        /\ StackDisabled => StackDisabled'
        /\ DisableDone => DisableDone'
    BY <1>1 DEF StackDisables, StackDisabled, DisableDone, Holds
  <2> QED
    BY <1>1, <2>1, <2>2, <2>3 DEF DisableInProgress
<1> QED
  BY <1>1, <1>2, <1>3, <1>4 DEF OneCommand
LEMMA SameParts ==
    ASSUME UNCHANGED config
    PROVE  /\ UNCHANGED Enabled
           /\ UNCHANGED mainVars => UNCHANGED <<EnableCommand, DisableCommand, Idle, btState>>
           /\ UNCHANGED <<profile, inbox>> => UNCHANGED <<AllIdle, AllRunning, Empty, Low>>
           /\ UNCHANGED stack => UNCHANGED Still
           /\ UNCHANGED <<thread, mainVars>> => UNCHANGED ThreadsReady
<1>1. UNCHANGED Enabled
  BY DEF Enabled
<1>2. ASSUME UNCHANGED mainVars PROVE UNCHANGED <<EnableCommand, DisableCommand, Idle, btState, mainPc>>
  BY <1>2 DEF mainVars, EnableCommand, DisableCommand, Idle
<1>3. ASSUME UNCHANGED <<profile, inbox>> PROVE UNCHANGED <<AllIdle, AllRunning, Empty, Low>>
  BY <1>1, <1>3 DEF AllIdle, AllRunning, Empty, Low
<1>4. UNCHANGED stack => UNCHANGED Still
  BY DEF Still
<1>5. ASSUME UNCHANGED <<thread, mainVars>> PROVE UNCHANGED ThreadsReady
  BY <1>1, <1>2, <1>5 DEF ThreadsReady
<1> QED
  BY <1>1, <1>2, <1>3, <1>4, <1>5

(* The kind of a message says in which phase the command is.                  *)
LEMMA PlaceOfKind ==
    ASSUME OneCommand, NEW e \in Carried(gapQ)
    PROVE  /\ e.id = "GAP_API_ENABLE" => EnableCommand /\ Low /\ EnableAsked /\ Holds({e}, <<>>)
           /\ e.id = "GAP_EVENT_ADAPTER_STATE" =>
                 /\ Low /\ Holds({e}, <<>>) /\ Still
                 /\ \/ EnableCommand
                    \/ DisableCommand /\ ~e.status
           /\ e.id = "PROFILE_API_START" => EnableCommand /\ Low /\ StartAsked /\ Holds({e}, <<>>)
           /\ e.id = "PROFILE_EVENT_START_DONE" =>
                 EnableCommand /\ ProfilesStart /\ \E p \in Enabled, ok \in BOOLEAN : e = StartIs(p, ok)
           /\ e.id \in {"GAP_API_DISABLE", "A2DP_SINK_CLEANUP_DONE"} =>
                 DisableCommand /\ StillOn /\ (AllRunning \/ AllIdle) /\ Empty /\ Holds({e}, <<>>)
           /\ e.id = "PROFILE_EVENT_STOP_DONE" =>
                 DisableCommand /\ StillOn /\ ProfilesStop /\ \E p \in Others, ok \in BOOLEAN : e = StopIs(p, ok)
           /\ e.id = "BT_AM_DISABLE_DONE" =>
                 DisableCommand /\ StillOn /\ Low /\ Holds({e}, <<>>)
<1>1. /\ \A id : Msg(id).id = id
      /\ \A on \in BOOLEAN : AdapterIs(on).id = "GAP_EVENT_ADAPTER_STATE" /\ AdapterIs(on).status = on
      /\ \A p, ok : StartIs(p, ok).id = "PROFILE_EVENT_START_DONE" /\ StopIs(p, ok).id = "PROFILE_EVENT_STOP_DONE"
  BY DEF Msg, AdapterIs, StartIs, StopIs, Event
<1>2. CASE EnableCommand /\ Low /\ EnableAsked /\ e = Msg("GAP_API_ENABLE")
  BY <1>1, <1>2 DEF EnableAsked, Holds
<1>3. CASE EnableCommand /\ Low /\ StackAnswers /\ e \in {AdapterIs(TRUE), AdapterIs(FALSE)}
  <2>1. Holds({e}, <<>>) /\ Still
    BY <1>3 DEF StackAnswers, Holds
  <2>2. e.id = "GAP_EVENT_ADAPTER_STATE"
    BY <1>1, <1>3
  <2> QED
    BY <1>3, <2>1, <2>2
<1>4. CASE EnableCommand /\ Low /\ StartAsked /\ e = Msg("PROFILE_API_START")
  BY <1>1, <1>4 DEF StartAsked, Holds
<1>5. CASE EnableCommand /\ ProfilesStart /\ \E p \in Enabled, ok \in BOOLEAN : e = StartIs(p, ok)
  BY <1>1, <1>5
<1>6. CASE /\ DisableCommand /\ StillOn /\ DisableAsked /\ Empty
           /\ e \in {Msg("GAP_API_DISABLE"), Msg("A2DP_SINK_CLEANUP_DONE")}
  <2>1. Holds({e}, <<>>) /\ (AllRunning \/ AllIdle)
    BY <1>6 DEF DisableAsked, Holds
  <2>2. e.id \in {"GAP_API_DISABLE", "A2DP_SINK_CLEANUP_DONE"}
    BY <1>1, <1>6
  <2> QED
    BY <1>6, <2>1, <2>2
<1>7. CASE DisableCommand /\ StillOn /\ ProfilesStop /\ \E p \in Others, ok \in BOOLEAN : e = StopIs(p, ok)
  BY <1>1, <1>7
<1>8. CASE DisableCommand /\ StillOn /\ AudioManagerDone /\ e = Msg("BT_AM_DISABLE_DONE")
  BY <1>1, <1>8 DEF AudioManagerDone, Holds
<1>9. CASE DisableCommand /\ Low /\ StackDisabled /\ e = AdapterIs(FALSE)
  BY <1>1, <1>9 DEF StackDisabled, Holds
<1> QED
  BY <1>2, <1>3, <1>4, <1>5, <1>6, <1>7, <1>8, <1>9, PlaceOfMessage

-----------------------------------------------------------------------------
(* The main thread.                                                          *)

LEMMA MainKeeps ==
    ASSUME QueuesOK, Scalars, OneCommand, Alive, ~DefaultEnable,
           PostDefaultEnable \/ InitHandlerReturns \/ \E p \in Enabled : StartThread(p)
    PROVE  OneCommand'
<1> USE DEF gapVars, profVars, mainVars
<1>1. UNCHANGED <<config, gapVars, inbox, mainQ, btState, enableCmd, disableCmd, profile, stack, gapQ>>
  BY DEF Alive, PostDefaultEnable, InitHandlerReturns, StartThread
<1>2. /\ mainPc' = "serving" => \A p \in Enabled : thread'[p] = "ready"
      /\ ~Idle => FALSE
  BY DEF PostDefaultEnable, InitHandlerReturns, StartThread, OneCommand, ThreadsReady
<1>3. ThreadsReady' /\ Idle'
  BY <1>1, <1>2 DEF ThreadsReady, Idle, Enabled
<1>4. Resting /\ Once(gapQ)
  BY <1>2 DEF OneCommand, EnableCommand, DisableCommand, Idle
<1>5. Resting'
  BY <1>1, <1>4 DEF Resting, Holds, Empty, Still, AllIdle, AllRunning, AllStarted, Enabled
<1> QED
  BY <1>1, <1>3, <1>4, <1>5 DEF OneCommand

LEMMA EnableSent ==
    ASSUME QueuesOK, Scalars, OneCommand, Alive, SendEnableCmdToGap
    PROVE  OneCommand'
<1> USE DEF gapVars, profVars, mainVars
<1>1. UNCHANGED <<config, gapVars, profVars, mainPc, btState, disableCmd, mainQ, inbox, stack>> /\ Enabled' = Enabled
  BY DEF Alive, SendEnableCmdToGap, Enabled
<1>2. Idle /\ Resting /\ btState = "OFF" /\ enableCmd' /\ mainPc = "serving"
  BY DEF SendEnableCmdToGap, OneCommand, EnableCommand, DisableCommand, Idle
<1>3. Once(gapQ') /\ Carried(gapQ') = {Msg("GAP_API_ENABLE")}
  <2>1. ToGap(Msg("GAP_API_ENABLE"))
    BY DEF SendEnableCmdToGap, ToGap
  <2>2. Msg("GAP_API_ENABLE") \in GapEvents /\ Msg("GAP_API_ENABLE").id = "GAP_API_ENABLE"
    BY MessageTypes DEF GapIds
  <2> QED
    BY <1>2, <2>1, <2>2, PostsMessage DEF Resting, Holds, Noise
<1>4. EnableCommand' /\ ThreadsReady'
  BY <1>1, <1>2 DEF EnableCommand, Idle, ThreadsReady, OneCommand
<1>5. Low' /\ EnableAsked'
  BY <1>1, <1>2, <1>3 DEF Low, EnableAsked, Holds, Resting, Empty, AllIdle, Still
<1> QED
  BY <1>3, <1>4, <1>5 DEF OneCommand, EnableInProgress

LEMMA DisableSent ==
    ASSUME QueuesOK, Scalars, OneCommand, Alive, SendDisableCmdToGap
    PROVE  OneCommand'
<1> USE DEF gapVars, profVars, mainVars
<1>1. UNCHANGED <<config, gapVars, profVars, mainPc, btState, enableCmd, mainQ, inbox, stack>> /\ Enabled' = Enabled
  BY DEF Alive, SendDisableCmdToGap, Enabled
<1>2. Idle /\ Resting /\ btState = "ON" /\ disableCmd' /\ mainPc = "serving"
  BY DEF SendDisableCmdToGap, OneCommand, EnableCommand, DisableCommand, Idle
<1>3. Once(gapQ') /\ Carried(gapQ') = {Msg("GAP_API_DISABLE")}
  <2>1. ToGap(Msg("GAP_API_DISABLE"))
    BY DEF SendDisableCmdToGap, ToGap
  <2>2. Msg("GAP_API_DISABLE") \in GapEvents /\ Msg("GAP_API_DISABLE").id = "GAP_API_DISABLE"
    BY MessageTypes DEF GapIds
  <2> QED
    BY <1>2, <2>1, <2>2, PostsMessage DEF Resting, Holds, Noise
<1>4. DisableCommand' /\ ThreadsReady'
  BY <1>1, <1>2 DEF DisableCommand, Idle, ThreadsReady, OneCommand
<1>5. StillOn' /\ DisableAsked'
  BY <1>1, <1>2, <1>3 DEF StillOn, DisableAsked, Holds, Resting, Empty, AllIdle, AllRunning, AllStarted, Still
<1> QED
  BY <1>3, <1>4, <1>5 DEF OneCommand, DisableInProgress

LEMMA AnswerHandled ==
    ASSUME QueuesOK, Scalars, OneCommand, Alive, MainHandles
    PROVE  OneCommand'
<1> USE DEF gapVars, profVars, mainVars
<1>1. /\ UNCHANGED <<config, gapVars, profVars, mainPc, gapQ, inbox, stack>> /\ Enabled' = Enabled
      /\ UNCHANGED <<AllIdle, AllRunning, AllStarted, Empty, Still, Low>>
  BY DEF Alive, MainHandles, Enabled, AllIdle, AllRunning, AllStarted, Empty, Still, Low
<1>2. Once(gapQ') /\ ThreadsReady'
  BY <1>1 DEF OneCommand, ThreadsReady, MainHandles
<1>3. mainQ # <<>>
  BY DEF MainHandles
<1>4. \A on \in BOOLEAN :
         /\ mainQ = <<Enabling(on)>> =>
               /\ mainQ' = <<>> /\ btState' = IF on THEN "ON" ELSE "OFF"
               /\ enableCmd' = FALSE /\ UNCHANGED disableCmd
         /\ mainQ = <<Disabling(on)>> =>
               /\ mainQ' = <<>> /\ btState' = IF on THEN "ON" ELSE "OFF"
               /\ disableCmd' = FALSE /\ UNCHANGED enableCmd
  <2> SUFFICES ASSUME NEW on \in BOOLEAN
               PROVE  /\ mainQ = <<Enabling(on)>> =>
                            /\ mainQ' = <<>> /\ btState' = IF on THEN "ON" ELSE "OFF"
                            /\ enableCmd' = FALSE /\ UNCHANGED disableCmd
                      /\ mainQ = <<Disabling(on)>> =>
                            /\ mainQ' = <<>> /\ btState' = IF on THEN "ON" ELSE "OFF"
                            /\ disableCmd' = FALSE /\ UNCHANGED enableCmd
    OBVIOUS
  <2>1. CASE mainQ = <<Enabling(on)>>
    <3>1. Head(mainQ) = Enabling(on) /\ Tail(mainQ) = <<>>
      BY <2>1, OneMessage
    <3>2. Enabling(on).id = "MAIN_EVENT_ENABLED" /\ Enabling(on).status = on
      BY DEF Enabling, Event
    <3>3. mainQ # <<Disabling(on)>>
      BY <3>1, <3>2, OneMessage DEF Disabling, Event
    <3> QED
      BY <3>1, <3>2, <3>3 DEF MainHandles
  <2>2. CASE mainQ = <<Disabling(on)>>
    <3>1. Head(mainQ) = Disabling(on) /\ Tail(mainQ) = <<>>
      BY <2>2, OneMessage
    <3>2. Disabling(on).id = "MAIN_EVENT_DISABLED" /\ Disabling(on).status = on
      BY DEF Disabling, Event
    <3>3. mainQ # <<Enabling(on)>>
      BY <3>1, <3>2, OneMessage DEF Enabling, Event
    <3> QED
      BY <3>1, <3>2, <3>3 DEF MainHandles
  <2> QED
    BY <2>1, <2>2
<1>5. CASE EnableCommand /\ Low /\ EnableFailed
  <2>1. CASE mainQ = <<Enabling(FALSE)>>
    <3>1. Idle'
      BY <1>4, <1>5, <2>1 DEF Idle, EnableCommand
    <3>2. Resting'
      BY <1>1, <1>4, <1>5, <2>1 DEF Resting, Holds, EnableFailed, Low
    <3> QED
      BY <1>2, <3>1, <3>2 DEF OneCommand
  <2>2. CASE mainQ = <<Disabling(FALSE)>>
    <3>1. EnableCommand'
      BY <1>4, <1>5, <2>2 DEF EnableCommand
    <3>2. EnableFailed' /\ Low'
      BY <1>1, <1>4, <1>5, <2>2 DEF EnableFailed
    <3> QED
      BY <1>2, <3>1, <3>2 DEF OneCommand, EnableInProgress
  <2> QED
    BY <1>3, <1>5, <2>1, <2>2 DEF EnableFailed
<1>6. CASE EnableCommand /\ EnableDone
  <2>1. mainQ = <<Enabling(TRUE)>>
    BY <1>6 DEF EnableDone, Holds
  <2>2. Idle'
    BY <1>4, <1>6, <2>1 DEF Idle, EnableCommand
  <2>3. Resting'
    BY <1>1, <1>4, <1>6, <2>1 DEF Resting, Holds, EnableDone
  <2> QED
    BY <1>2, <2>2, <2>3 DEF OneCommand
<1>7. CASE DisableCommand /\ StillOn /\ DisableRefused
  <2>1. mainQ = <<Disabling(TRUE)>>
    BY <1>7 DEF DisableRefused, Holds
  <2>2. Idle'
    BY <1>4, <1>7, <2>1 DEF Idle, DisableCommand
  <2>3. Resting'
    BY <1>1, <1>4, <1>7, <2>1 DEF Resting, Holds, DisableRefused, StillOn, Low
  <2> QED
    BY <1>2, <2>2, <2>3 DEF OneCommand
<1>8. CASE DisableCommand /\ Low /\ DisableDone
  <2>1. mainQ = <<Disabling(FALSE)>>
    BY <1>8 DEF DisableDone, Holds
  <2>2. Idle'
    BY <1>4, <1>8, <2>1 DEF Idle, DisableCommand
  <2>3. Resting'
    BY <1>1, <1>4, <1>8, <2>1 DEF Resting, Holds, DisableDone, Low
  <2> QED
    BY <1>2, <2>2, <2>3 DEF OneCommand
<1> QED
  BY <1>3, <1>5, <1>6, <1>7, <1>8, PlaceOfAnswer

-----------------------------------------------------------------------------
(* The alarms, the stack, and the end of the process.                        *)

LEMMA NoiseKeeps ==
    ASSUME QueuesOK, Scalars, OneCommand, Alive, Kill \/ SsrCleanupCb \/ \E t \in Timers : TimerExpires(t)
    PROVE  OneCommand'
<1> USE DEF gapVars, profVars, mainVars
<1>1. /\ UNCHANGED <<config, gapVars, profVars, mainPc, btState, enableCmd, disableCmd, mainQ, inbox>>
      /\ stack' = stack \/ stack' = "lost"
  BY DEF Alive, Kill, SsrCleanupCb, TimerExpires
<1>2. Once(gapQ') /\ Carried(gapQ') = Carried(gapQ)
  <2>1. CASE Kill
    BY <2>1 DEF Kill, OneCommand
  <2>2. CASE SsrCleanupCb
    BY <2>2, PostsMessage, MessageTypes DEF SsrCleanupCb, GapIds, Noise
  <2>3. ASSUME NEW t \in Timers, TimerExpires(t) PROVE Once(gapQ') /\ Carried(gapQ') = Carried(gapQ)
    BY <2>3, PostsMessage, MessageTypes DEF TimerExpires, Noise
  <2> QED
    BY <2>1, <2>2, <2>3
<1>3. ThreadsReady'
  BY <1>1, StaysReady
<1> QED
  BY <1>1, <1>2, <1>3, KeepsPlace

LEMMA StackAnswered ==
    ASSUME QueuesOK, Scalars, OneCommand, Alive, StackCallback
    PROVE  OneCommand'
<1> USE DEF gapVars, profVars, mainVars
<1>1. /\ UNCHANGED <<config, gapVars, profVars, mainVars, mainQ, inbox>> /\ Enabled' = Enabled
      /\ UNCHANGED <<EnableCommand, DisableCommand, Low, ThreadsReady>>
  BY DEF Alive, StackCallback, Enabled, Low, AllIdle, Empty, EnableCommand, DisableCommand, ThreadsReady, Idle
<1>2. /\ ~Still /\ Still'
      /\ (ToGap(AdapterIs(TRUE)) /\ stack = "enabling") \/ ToGap(AdapterIs(FALSE))
  BY DEF StackCallback, AdapterState, AdapterIs, Still
<1>3. \/ EnableCommand /\ Low /\ StackEnables
      \/ DisableCommand /\ Low /\ StackDisables
  BY <1>2 DEF OneCommand, Resting, EnableInProgress, EnableAsked, EnableFailed, StackAnswers, StartAsked,
     ProfilesStart, EnableDone, DisableInProgress, StillOn, StackDisabled, DisableDone
<1>4. ASSUME NEW on \in BOOLEAN, ToGap(AdapterIs(on))
      PROVE  Once(gapQ') /\ Carried(gapQ') = {AdapterIs(on)}
  BY <1>3, <1>4, PostsMessage, MessageTypes DEF StackEnables, StackDisables, Holds, Noise
<1>5. CASE EnableCommand /\ Low /\ StackEnables
  <2>1. PICK on \in BOOLEAN : ToGap(AdapterIs(on))
    BY <1>2
  <2>2. StackAnswers'
    BY <1>1, <1>2, <1>4, <1>5, <2>1 DEF StackAnswers, StackEnables, Holds, AdapterIs
  <2> QED
    BY <1>1, <1>4, <1>5, <2>1, <2>2 DEF OneCommand, EnableInProgress
<1>6. CASE DisableCommand /\ Low /\ StackDisables
  <2>1. ToGap(AdapterIs(FALSE))
    BY <1>2, <1>6 DEF StackDisables
  <2>2. StackDisabled'
    BY <1>1, <1>2, <1>4, <1>6, <2>1 DEF StackDisabled, StackDisables, Holds, AdapterIs
  <2> QED
    BY <1>1, <1>4, <1>6, <2>1, <2>2 DEF OneCommand, DisableInProgress
<1> QED
  BY <1>3, <1>5, <1>6
-----------------------------------------------------------------------------
(* The GAP thread.                                                           *)

LEMMA AdapterAnswerHandled ==
    ASSUME QueuesOK, Scalars, OneCommand, Alive, AdapterTurnedOn \/ AdapterTurnedOff
    PROVE  OneCommand'
<1> USE DEF gapVars, profVars, mainVars
<1>0. UNCHANGED <<config, profVars, mainVars, startStatus, inbox, stack>>
  BY DEF Alive, AdapterTurnedOn, AdapterTurnedOff
<1>1. UNCHANGED <<Enabled, EnableCommand, DisableCommand, Low, ThreadsReady, Still>>
  BY <1>0, SameParts
<1>2. Handling("GAP_EVENT_ADAPTER_STATE") /\ "GAP_EVENT_ADAPTER_STATE" \in GapIds \ Noise
  BY DEF AdapterTurnedOn, AdapterTurnedOff, GapIds, Noise
<1>3. Now \in Carried(gapQ) /\ Now.id = "GAP_EVENT_ADAPTER_STATE" /\ ThreadsReady'
  BY <1>1, <1>2, TakesMessage DEF OneCommand
<1>4. /\ Low /\ Holds({Now}, <<>>) /\ Still
      /\ EnableCommand \/ (DisableCommand /\ ~Now.status)
  BY <1>3, PlaceOfKind
<1>5. mainQ = <<>> /\ Still /\ Carried(gapQ) = {Now}
  BY <1>4 DEF Holds
<1>6. CASE AdapterTurnedOn
  <2>1. EnableCommand /\ Low /\ Carried(gapQ) = {Now}
    BY <1>4, <1>5, <1>6 DEF AdapterTurnedOn
  <2>2. Once(gapQ') /\ Carried(gapQ') = {Msg("PROFILE_API_START")}
    BY <1>2, <1>6, <2>1, TakesMessage, MessageTypes DEF AdapterTurnedOn, GapIds, Noise
  <2>3. StartAsked'
    BY <1>1, <1>5, <1>6, <2>2 DEF AdapterTurnedOn, StartAsked, Holds
  <2> QED
    BY <1>1, <1>3, <2>1, <2>2, <2>3 DEF OneCommand, EnableInProgress
<1>7. CASE AdapterTurnedOff
  <2>1. Once(gapQ') /\ Carried(gapQ') = {}
    BY <1>2, <1>5, <1>7, TakesMessage DEF AdapterTurnedOff
  <2>2. mainQ' = <<Disabling(FALSE)>> /\ state' = "OFF"
    BY <1>5, <1>7, OneMessage DEF AdapterTurnedOff, TellMain, Disabling
  <2>3. EnableFailed' /\ DisableDone'
    BY <1>1, <1>5, <2>1, <2>2 DEF EnableFailed, DisableDone, Holds, Disabling
  <2> QED
    BY <1>1, <1>3, <1>4, <2>1, <2>3 DEF OneCommand, EnableInProgress, DisableInProgress
<1> QED
  BY <1>6, <1>7

LEMMA EnableHandled ==
    ASSUME QueuesOK, Scalars, OneCommand, Alive, HandleEnable \/ IgnoreEnable
    PROVE  OneCommand'
<1> USE DEF gapVars, profVars, mainVars
<1>0. UNCHANGED <<config, profVars, mainVars, startStatus, inbox>>
  BY DEF Alive, HandleEnable, IgnoreEnable
<1>1. UNCHANGED <<Enabled, EnableCommand, Low, ThreadsReady>>
  BY <1>0, SameParts
<1>2. Handling("GAP_API_ENABLE") /\ "GAP_API_ENABLE" \in GapIds \ Noise
  BY DEF HandleEnable, IgnoreEnable, GapIds, Noise
<1>3. Now \in Carried(gapQ) /\ Now.id = "GAP_API_ENABLE" /\ ThreadsReady'
  BY <1>1, <1>2, TakesMessage DEF OneCommand
<1>4. EnableCommand /\ Low /\ EnableAsked /\ Carried(gapQ) = {Now} /\ mainQ = <<>>
  BY <1>3, PlaceOfKind DEF Holds
<1>5. HandleEnable
  BY <1>4 DEF IgnoreEnable, EnableAsked
<1>6. Once(gapQ') /\ Carried(gapQ') = {}
  BY <1>2, <1>4, <1>5, TakesMessage DEF HandleEnable
<1>7. CASE mainQ' = mainQ /\ state' = "TURNING_ON" /\ stack' = "enabling"
  <2>1. StackEnables'
    BY <1>4, <1>6, <1>7 DEF StackEnables, Holds
  <2> QED
    BY <1>1, <1>3, <1>4, <1>6, <2>1 DEF OneCommand, EnableInProgress
<1>8. CASE UNCHANGED <<state, stack>> /\ TellMain("MAIN_EVENT_ENABLED", FALSE)
  <2>1. mainQ' = <<Enabling(FALSE)>>
    BY <1>4, <1>8, OneMessage DEF TellMain, Enabling
  <2>2. EnableFailed'
    BY <1>4, <1>6, <1>8, <2>1 DEF EnableFailed, EnableAsked, Still, Enabling
  <2> QED
    BY <1>1, <1>3, <1>4, <1>6, <2>2 DEF OneCommand, EnableInProgress
<1> QED
  BY <1>5, <1>7, <1>8 DEF HandleEnable

LEMMA StartHandled ==
    ASSUME QueuesOK, Scalars, OneCommand, Alive, StartProfiles
    PROVE  OneCommand'
<1> USE DEF gapVars, profVars, mainVars
<1>1. /\ UNCHANGED <<config, state, profVars, mainVars, mainQ, stack>> /\ Enabled' = Enabled
      /\ UNCHANGED <<EnableCommand, Still, ThreadsReady>>
  BY DEF Alive, StartProfiles, Enabled, EnableCommand, Still, ThreadsReady, Idle
<1>2. Handling("PROFILE_API_START") /\ "PROFILE_API_START" \in GapIds \ Noise
  BY DEF StartProfiles, GapIds, Noise
<1>3. Now \in Carried(gapQ) /\ Now.id = "PROFILE_API_START" /\ ThreadsReady'
  BY <1>1, <1>2, TakesMessage DEF OneCommand
<1>4. EnableCommand /\ Low /\ StartAsked /\ Carried(gapQ) = {Now} /\ mainQ = <<>>
  BY <1>3, PlaceOfKind DEF Holds
<1>5. Once(gapQ') /\ Carried(gapQ') = {}
  BY <1>2, <1>4, TakesMessage DEF StartProfiles
<1>6. \A p \in Enabled : inbox'[p] = <<"PROFILE_API_START">> /\ ~startStatus'[p] /\ profile[p] = "idle"
  <2>1. ~Idle /\ Empty /\ AllIdle
    BY <1>4 DEF EnableCommand, Idle, Low
  <2>2. PostTo(Enabled, "PROFILE_API_START") /\ startStatus' = [p \in Enabled |-> FALSE]
    BY DEF StartProfiles
  <2>3. \A p \in Enabled : inbox'[p] = IF p \in Enabled THEN <<"PROFILE_API_START">> ELSE <<>>
    BY <2>1, <2>2, PostsRequest
  <2> QED
    BY <2>1, <2>2, <2>3 DEF AllIdle
<1>7. \A p \in Enabled : Starting(p)'
  BY <1>1, <1>5, <1>6 DEF Starting
<1>8. ~AllStarted'
  <2>1. Enabled # {}
    BY GapAssumption DEF Enabled, Scalars
  <2> QED
    BY <1>1, <1>6, <2>1 DEF AllStarted
<1>9. ProfilesStart'
  BY <1>1, <1>4, <1>5, <1>7, <1>8 DEF ProfilesStart, StartAsked
<1> QED
  BY <1>1, <1>3, <1>4, <1>5, <1>9 DEF OneCommand, EnableInProgress

LEMMA StartDoneHandled ==
    ASSUME QueuesOK, Scalars, OneCommand, Alive, StartDone
    PROVE  OneCommand'
<1> USE DEF gapVars, profVars, mainVars
<1>1. /\ UNCHANGED <<config, state, profVars, mainVars, inbox, stack>> /\ Enabled' = Enabled
      /\ UNCHANGED <<EnableCommand, Still, ThreadsReady>>
  BY DEF Alive, StartDone, Enabled, EnableCommand, Still, ThreadsReady, Idle
<1>2. Handling("PROFILE_EVENT_START_DONE") /\ "PROFILE_EVENT_START_DONE" \in GapIds \ Noise
  BY DEF StartDone, GapIds, Noise
<1>3. Now \in Carried(gapQ) /\ Now.id = "PROFILE_EVENT_START_DONE" /\ ThreadsReady'
  BY <1>1, <1>2, TakesMessage DEF OneCommand
<1>4. EnableCommand /\ ProfilesStart /\ \E p \in Enabled, ok \in BOOLEAN : Now = StartIs(p, ok)
  BY <1>3, PlaceOfKind
<1>5. PICK q \in Enabled, ok \in BOOLEAN : Now = StartIs(q, ok)
  BY <1>4
<1>6. Once(gapQ') /\ Carried(gapQ') = Carried(gapQ) \ {StartIs(q, ok)} /\ StartIs(q, ok) \in Carried(gapQ)
  BY <1>2, <1>3, <1>5, TakesMessage DEF StartDone
<1>7. /\ startStatus' = [startStatus EXCEPT ![q] = ok]
      /\ \A p \in Enabled : startStatus'[p] = IF p = q THEN ok ELSE startStatus[p]
  <2>1. startStatus' = [startStatus EXCEPT ![Now.from] = Now.status]
    BY DEF StartDone
  <2>2. Now.from = q /\ Now.status = ok
    BY <1>5 DEF StartIs, Event
  <2> QED
    BY <2>1, <2>2 DEF Scalars
<1>8. \A p \in Enabled : Starting(p)
  BY <1>4 DEF ProfilesStart
<1>9. inbox[q] = <<>> /\ profile[q] = IF ok THEN "running" ELSE "idle"
  BY <1>6, <1>8 DEF Starting
<1>10. CASE \A p \in Enabled : startStatus'[p]
  <2>1. ok
    BY <1>7, <1>10
  <2>2. \A p \in Enabled : p # q => startStatus[p]
    BY <1>7, <1>10
  <2>3. AllRunning' /\ Empty' /\ AllStarted'
    BY <1>1, <1>8, <1>9, <1>10, <2>1, <2>2 DEF AllRunning, Empty, AllStarted, Starting
  <2>4. Carried(gapQ') = {}
    <3> SUFFICES ASSUME NEW e \in Carried(gapQ), e # StartIs(q, ok) PROVE FALSE
      BY <1>6
    <3>1. PICK p \in Enabled, other \in BOOLEAN : e = StartIs(p, other)
      BY <1>4 DEF ProfilesStart
    <3>2. ~startStatus[p] /\ profile[p] = IF other THEN "running" ELSE "idle"
      BY <1>8, <3>1 DEF Starting
    <3>3. p = q /\ other
      BY <1>9, <2>1, <2>2, <3>2
    <3> QED
      BY <2>1, <3>1, <3>3
  <2>5. mainQ' = <<Enabling(TRUE)>>
    <3>1. mainQ = <<>>
      BY <1>4 DEF ProfilesStart
    <3>2. TellMain("MAIN_EVENT_ENABLED", TRUE)
      BY <1>1, <1>10 DEF StartDone
    <3> QED
      BY <3>1, <3>2, OneMessage DEF TellMain, Enabling
  <2>6. EnableDone'
    BY <1>1, <1>4, <2>3, <2>4, <2>5 DEF EnableDone, ProfilesStart, Holds, Enabling
  <2> QED
    BY <1>1, <1>3, <1>4, <1>6, <2>6 DEF OneCommand, EnableInProgress
<1>11. CASE ~ \A p \in Enabled : startStatus'[p]
  <2>1. mainQ' = mainQ
    BY <1>1, <1>11 DEF StartDone
  <2>2. ASSUME NEW p \in Enabled PROVE Starting(p)'
    <3>1. CASE p = q
      <4>1. StartIs(q, TRUE) \in Carried(gapQ) /\ StartIs(q, FALSE) \in Carried(gapQ) => FALSE
        BY <1>8 DEF Starting
      <4>2. \A other \in BOOLEAN : StartIs(q, other) \notin Carried(gapQ')
        BY <1>6, <4>1
      <4> QED
        BY <1>1, <1>7, <1>9, <3>1, <4>2 DEF Starting, StartIs
    <3>2. CASE p # q
      <4>1. \A other \in BOOLEAN : StartIs(p, other) \in Carried(gapQ') => StartIs(p, other) \in Carried(gapQ)
        BY <1>6
      <4>2. Starting(p) /\ startStatus'[p] = startStatus[p]
        BY <1>7, <1>8, <3>2
      <4> QED
        BY <1>1, <4>1, <4>2 DEF Starting, StartIs
    <3> QED
      BY <3>1, <3>2
  <2>3. \A e \in Carried(gapQ') : \E p \in Enabled, other \in BOOLEAN : e = StartIs(p, other)
    BY <1>4, <1>6 DEF ProfilesStart
  <2>4. ProfilesStart'
    BY <1>1, <1>4, <1>11, <2>1, <2>2, <2>3 DEF ProfilesStart, AllStarted, StartIs
  <2> QED
    BY <1>1, <1>3, <1>4, <1>6, <2>4 DEF OneCommand, EnableInProgress
<1> QED
  BY <1>10, <1>11
LEMMA DisableAskHandled ==
    ASSUME QueuesOK, Scalars, OneCommand, Alive, CleanUpSinkFirst \/ IgnoreDisable
    PROVE  OneCommand'
<1> USE DEF gapVars, profVars, mainVars
<1>1. UNCHANGED <<config, gapVars, profVars, mainVars, stack>>
  BY DEF Alive, CleanUpSinkFirst, IgnoreDisable
<1>2. UNCHANGED <<Enabled, DisableCommand, ThreadsReady, Still>>
  BY <1>1, SameParts
<1>3. Handling("GAP_API_DISABLE") /\ "GAP_API_DISABLE" \in GapIds \ Noise
  BY DEF CleanUpSinkFirst, IgnoreDisable, GapIds, Noise
<1>4. Now \in Carried(gapQ) /\ Now.id = "GAP_API_DISABLE" /\ ThreadsReady'
  BY <1>2, <1>3, TakesMessage DEF OneCommand
<1>5. DisableCommand /\ StillOn /\ (AllRunning \/ AllIdle) /\ Empty /\ Carried(gapQ) = {Now} /\ mainQ = <<>>
  BY <1>4, PlaceOfKind DEF Holds
<1>6. CleanUpSinkFirst
  BY <1>5 DEF IgnoreDisable, StillOn
<1>7. Once(gapQ') /\ Carried(gapQ') = {} /\ mainQ' = <<>>
  BY <1>3, <1>5, <1>6, TakesMessage DEF CleanUpSinkFirst
<1>8. \A p \in Enabled : inbox'[p] = IF p = A2DP_SINK THEN <<"A2DP_SINK_CLEANUP_REQ">> ELSE <<>>
  <2>1. ~Idle /\ PostTo({A2DP_SINK}, "A2DP_SINK_CLEANUP_REQ")
    BY <1>5, <1>6 DEF DisableCommand, Idle, CleanUpSinkFirst
  <2>2. \A p \in Enabled : inbox'[p] = IF p \in {A2DP_SINK} THEN <<"A2DP_SINK_CLEANUP_REQ">> ELSE <<>>
    BY <1>5, <2>1, PostsRequest
  <2> QED
    BY <2>2
<1>9. StillOn' /\ (AllRunning' \/ AllIdle')
  BY <1>1, <1>2, <1>5 DEF StillOn, AllStarted, AllRunning, AllIdle
<1>10. DisableAsked'
  BY <1>2, <1>6, <1>7, <1>8, <1>9 DEF DisableAsked, Holds, CleanUpSinkFirst
<1> QED
  BY <1>2, <1>4, <1>5, <1>7, <1>9, <1>10 DEF OneCommand, DisableInProgress

LEMMA StopHandled ==
    ASSUME QueuesOK, Scalars, OneCommand, Alive, StopProfiles
    PROVE  OneCommand'
<1> USE DEF gapVars, profVars, mainVars
<1>1. UNCHANGED <<config, state, startStatus, profVars, mainVars, mainQ, stack>>
  BY DEF Alive, StopProfiles
<1>2. UNCHANGED <<Enabled, DisableCommand, ThreadsReady, Still>>
  BY <1>1, SameParts
<1>3. PICK id \in {"GAP_API_DISABLE", "A2DP_SINK_CLEANUP_DONE"} : Handling(id) /\ id \in GapIds \ Noise
  BY DEF StopProfiles, GapIds, Noise
<1>4. Now \in Carried(gapQ) /\ Now.id = id /\ ThreadsReady'
  BY <1>2, <1>3, TakesMessage DEF OneCommand
<1>5. DisableCommand /\ StillOn /\ (AllRunning \/ AllIdle) /\ Empty /\ Carried(gapQ) = {Now} /\ mainQ = <<>>
  BY <1>3, <1>4, PlaceOfKind DEF Holds
<1>6. Once(gapQ') /\ Carried(gapQ') = {} /\ mainQ' = <<>>
  BY <1>1, <1>3, <1>5, TakesMessage DEF StopProfiles
<1>7. \A p \in Enabled : /\ inbox'[p] = IF p \in Others THEN <<"PROFILE_API_STOP">> ELSE <<>>
                         /\ ~stopStatus'[p] /\ profile[p] # "stopping"
  <2>1. ~Idle /\ PostTo({p \in Enabled \ {BT_AM} : startStatus[p]}, "PROFILE_API_STOP")
    BY <1>5 DEF DisableCommand, Idle, StopProfiles
  <2>2. {p \in Enabled \ {BT_AM} : startStatus[p]} = Others
    BY <1>5 DEF StillOn, AllStarted, Others
  <2>3. \A p \in Enabled : inbox'[p] = IF p \in Others THEN <<"PROFILE_API_STOP">> ELSE <<>>
    BY <1>5, <2>1, <2>2, PostsRequest
  <2>4. \A p \in Enabled : ~stopStatus'[p]
    BY DEF StopProfiles
  <2> QED
    BY <1>5, <2>3, <2>4 DEF AllRunning, AllIdle
<1>8. StillOn'
  BY <1>1, <1>2, <1>5 DEF StillOn, AllStarted
<1>9. Others' = Others /\ Others \subseteq Enabled /\ \E p \in Others : TRUE
  BY <1>2, GapAssumption DEF Others, Enabled, Scalars
<1>10. \A p \in Others : Stopping(p)'
  BY <1>1, <1>6, <1>7, <1>9 DEF Stopping
<1>11. ProfilesStop'
  <2>1. BT_AM \in Enabled => inbox'[BT_AM] = <<>> /\ profile[BT_AM] # "stopping"
    BY <1>7 DEF Others
  <2> QED
    BY <1>1, <1>2, <1>6, <1>7, <1>9, <1>10, <2>1 DEF ProfilesStop
<1> QED
  BY <1>2, <1>4, <1>5, <1>6, <1>8, <1>11 DEF OneCommand, DisableInProgress

LEMMA StopDoneHandled ==
    ASSUME QueuesOK, Scalars, OneCommand, Alive, StopDone
    PROVE  OneCommand'
<1> USE DEF gapVars, profVars, mainVars
<1>1. UNCHANGED <<config, state, startStatus, profVars, mainVars, mainQ, stack>>
  BY DEF Alive, StopDone
<1>2. UNCHANGED <<Enabled, DisableCommand, ThreadsReady, Still>>
  BY <1>1, SameParts
<1>3. Handling("PROFILE_EVENT_STOP_DONE") /\ "PROFILE_EVENT_STOP_DONE" \in GapIds \ Noise
  BY DEF StopDone, GapIds, Noise
<1>4. Now \in Carried(gapQ) /\ Now.id = "PROFILE_EVENT_STOP_DONE" /\ ThreadsReady'
  BY <1>2, <1>3, TakesMessage DEF OneCommand
<1>5. DisableCommand /\ StillOn /\ ProfilesStop /\ \E p \in Others, ok \in BOOLEAN : Now = StopIs(p, ok)
  BY <1>4, PlaceOfKind
<1>6. PICK q \in Others, ok \in BOOLEAN : Now = StopIs(q, ok)
  BY <1>5
<1>7. /\ \A p \in Enabled : stopStatus'[p] = IF p = q THEN ok ELSE stopStatus[p]
      /\ q \in Enabled /\ Others \subseteq Enabled /\ Others' = Others
  <2>1. stopStatus' = [stopStatus EXCEPT ![Now.from] = Now.status]
    BY DEF StopDone
  <2>2. Now.from = q /\ Now.status = ok
    BY <1>6 DEF StopIs, Event
  <2> QED
    BY <1>2, <2>1, <2>2 DEF Scalars, Others
<1>8. /\ \A p \in Others : Stopping(p)
      /\ BT_AM \in Enabled => inbox[BT_AM] = <<>> /\ profile[BT_AM] # "stopping"
      /\ \A e \in Carried(gapQ) : \E p \in Others, other \in BOOLEAN : e = StopIs(p, other)
      /\ mainQ = <<>>
  BY <1>5 DEF ProfilesStop
<1>9. StopIs(q, ok) \in Carried(gapQ) /\ inbox[q] = <<>> /\ profile[q] = "idle" /\ ~stopStatus[q]
      /\ StopIs(q, ~ok) \notin Carried(gapQ)
  BY <1>4, <1>6, <1>8 DEF Stopping
<1>10. StillOn'
  BY <1>1, <1>2, <1>5 DEF StillOn, AllStarted
<1>11. CASE \E p \in Others : ~stopStatus'[p]
  <2>1. Consume /\ inbox' = inbox
    BY <1>2, <1>11 DEF StopDone, Others
  <2>2. Once(gapQ') /\ Carried(gapQ') = Carried(gapQ) \ {StopIs(q, ok)}
    BY <1>3, <1>6, <2>1, TakesMessage
  <2>3. ASSUME NEW p \in Others PROVE Stopping(p)'
    <3>1. CASE p = q
      <4>1. \A other \in BOOLEAN : other = ok \/ other = ~ok
        OBVIOUS
      <4>2. \A other \in BOOLEAN : StopIs(q, other) \notin Carried(gapQ')
        BY <1>9, <2>2, <4>1
      <4>3. inbox'[q] = <<>> /\ profile'[q] = "idle"
        BY <1>1, <1>9, <2>1
      <4> QED
        BY <3>1, <4>2, <4>3 DEF Stopping, StopIs
    <3>2. CASE p # q
      <4>1. \A other \in BOOLEAN : StopIs(p, other) \in Carried(gapQ') => StopIs(p, other) \in Carried(gapQ)
        BY <2>2
      <4>2. Stopping(p) /\ stopStatus'[p] = stopStatus[p]
        BY <1>7, <1>8, <3>2
      <4> QED
        BY <1>1, <2>1, <4>1, <4>2 DEF Stopping, StopIs
    <3> QED
      BY <3>1, <3>2
  <2>4. \A e \in Carried(gapQ') : \E p \in Others, other \in BOOLEAN : e = StopIs(p, other)
    BY <1>8, <2>2
  <2>5. ProfilesStop'
    BY <1>1, <1>2, <1>7, <1>8, <1>11, <2>1, <2>3, <2>4 DEF ProfilesStop, StopIs
  <2> QED
    BY <1>2, <1>4, <1>5, <1>10, <2>2, <2>5 DEF OneCommand, DisableInProgress
<1>12. CASE \A p \in Others : stopStatus'[p]
  <2>1. ok /\ \A p \in Others : p # q => stopStatus[p]
    BY <1>7, <1>12
  <2>2. \A p \in Others : inbox[p] = <<>> /\ profile[p] = "idle"
    BY <1>8, <1>9, <2>1 DEF Stopping
  <2>3. Carried(gapQ) = {StopIs(q, ok)}
    <3> SUFFICES ASSUME NEW e \in Carried(gapQ) PROVE e = StopIs(q, ok)
      BY <1>9
    <3>1. PICK p \in Others, other \in BOOLEAN : e = StopIs(p, other)
      BY <1>8
    <3>2. ~stopStatus[p]
      BY <1>8, <3>1 DEF Stopping
    <3>3. p = q /\ other = ok
      BY <1>9, <2>1, <3>1, <3>2
    <3> QED
      BY <3>1, <3>3
  <2>4. CASE BT_AM \in Enabled
    <3>1. Consume /\ PostTo({BT_AM}, "BT_AM_DISABLE_REQ")
      BY <1>2, <1>12, <2>4 DEF StopDone, Others
    <3>2. Once(gapQ') /\ Carried(gapQ') = {}
      BY <1>3, <1>6, <2>3, <3>1, TakesMessage
    <3>3. ~Idle /\ Empty
      BY <1>5, <1>8, <2>2 DEF DisableCommand, Idle, Empty, Others
    <3>4. \A p \in Enabled : inbox'[p] = IF p \in {BT_AM} THEN <<"BT_AM_DISABLE_REQ">> ELSE <<>>
      BY <3>1, <3>3, PostsRequest
    <3>5. AudioManagerAsked'
      BY <1>1, <1>2, <1>7, <1>8, <2>2, <2>4, <3>2, <3>4 DEF AudioManagerAsked, Holds, Others
    <3> QED
      BY <1>2, <1>4, <1>5, <1>10, <3>2, <3>5 DEF OneCommand, DisableInProgress
  <2>5. CASE BT_AM \notin Enabled
    <3>1. ConsumeAndPost(<<Msg("BT_AM_DISABLE_DONE")>>) /\ inbox' = inbox
      BY <1>2, <1>12, <2>5 DEF StopDone, Others
    <3>2. Once(gapQ') /\ Carried(gapQ') = {Msg("BT_AM_DISABLE_DONE")}
      <4>1. Msg("BT_AM_DISABLE_DONE") \in GapEvents /\ Msg("BT_AM_DISABLE_DONE").id \notin Noise
        BY MessageTypes DEF GapIds, Noise
      <4> QED
        BY <1>3, <1>6, <2>3, <3>1, <4>1, TakesMessage
    <3>3. Low'
      BY <1>1, <1>2, <2>2, <2>5, <3>1 DEF Low, AllIdle, Empty, Others
    <3>4. AudioManagerDone'
      BY <1>1, <1>8, <3>2, <3>3 DEF AudioManagerDone, Holds
    <3> QED
      BY <1>2, <1>4, <1>5, <1>10, <3>2, <3>4 DEF OneCommand, DisableInProgress
  <2> QED
    BY <2>4, <2>5
<1> QED
  BY <1>11, <1>12

LEMMA AllStoppedHandled ==
    ASSUME QueuesOK, Scalars, OneCommand, Alive, HandleDisable
    PROVE  OneCommand'
<1> USE DEF gapVars, profVars, mainVars
<1>1. UNCHANGED <<config, startStatus, profVars, mainVars, inbox>>
  BY DEF Alive, HandleDisable
<1>2. UNCHANGED <<Enabled, DisableCommand, ThreadsReady, Low>>
  BY <1>1, SameParts
<1>3. Handling("BT_AM_DISABLE_DONE") /\ "BT_AM_DISABLE_DONE" \in GapIds \ Noise
  BY DEF HandleDisable, GapIds, Noise
<1>4. Now \in Carried(gapQ) /\ Now.id = "BT_AM_DISABLE_DONE" /\ ThreadsReady'
  BY <1>2, <1>3, TakesMessage DEF OneCommand
<1>5. DisableCommand /\ StillOn /\ Low /\ Carried(gapQ) = {Now} /\ mainQ = <<>>
  BY <1>4, PlaceOfKind DEF Holds
<1>6. Once(gapQ') /\ Carried(gapQ') = {}
  BY <1>3, <1>5, TakesMessage DEF HandleDisable
<1>7. CASE mainQ' = mainQ /\ state' = "TURNING_OFF" /\ stack' = "disabling"
  <2>1. StackDisables'
    BY <1>5, <1>6, <1>7 DEF StackDisables, Holds
  <2> QED
    BY <1>2, <1>4, <1>5, <1>6, <2>1 DEF OneCommand, DisableInProgress
<1>8. CASE UNCHANGED <<stack, state>> /\ TellMain("MAIN_EVENT_DISABLED", TRUE)
  <2>1. mainQ' = <<Disabling(TRUE)>>
    BY <1>5, <1>8, OneMessage DEF TellMain, Disabling
  <2>2. DisableRefused' /\ StillOn'
    BY <1>1, <1>2, <1>5, <1>6, <1>8, <2>1 DEF DisableRefused, Holds, Disabling, StillOn, Still, AllStarted
  <2> QED
    BY <1>2, <1>4, <1>5, <1>6, <2>2 DEF OneCommand, DisableInProgress
<1> QED
  BY <1>7, <1>8 DEF HandleDisable
-----------------------------------------------------------------------------
(* The profile threads.                                                      *)

LEMMA ProfileStarts ==
    ASSUME QueuesOK, Scalars, OneCommand, Alive, NEW p \in Enabled, Starts(p)
    PROVE  OneCommand'
<1> USE DEF gapVars, profVars, mainVars
<1>1. UNCHANGED <<config, gapVars, mainVars, thread, mainQ, stack>>
  BY DEF Alive, Starts
<1>2. UNCHANGED <<Enabled, EnableCommand, ThreadsReady, Still>> /\ ThreadsReady'
  BY <1>1, SameParts DEF OneCommand
<1>3. EnableCommand /\ ProfilesStart /\ inbox[p] = <<"PROFILE_API_START">>
  <2>1. inbox[p] # <<>> /\ Head(inbox[p]) = "PROFILE_API_START"
    BY DEF Starts, Receives
  <2> QED
    BY <2>1, PlaceOfRequest, OneMessage
<1>4. \A q \in Enabled : inbox'[q] = IF q = p THEN <<>> ELSE inbox[q]
  BY <1>3, TakesRequest DEF Starts
<1>5. /\ \A q \in Enabled : Starting(q)
      /\ \A e \in Carried(gapQ) : \E q \in Enabled, ok \in BOOLEAN : e = StartIs(q, ok)
      /\ profile[p] = "idle" /\ ~startStatus[p]
      /\ \A ok \in BOOLEAN : StartIs(p, ok) \notin Carried(gapQ)
  BY <1>3, OneMessage DEF ProfilesStart, Starting
<1>6. \/ /\ \A q \in Enabled : profile'[q] = IF q = p THEN "running" ELSE profile[q]
         /\ ToGap(StartIs(p, TRUE))
      \/ profile' = profile /\ (ToGap(StartIs(p, FALSE)) \/ UNCHANGED gapQ)
  BY DEF Starts, Scalars, StartIs
<1>7. ASSUME NEW ok \in BOOLEAN, ToGap(StartIs(p, ok))
      PROVE  Once(gapQ') /\ Carried(gapQ') = Carried(gapQ) \cup {StartIs(p, ok)}
  BY <1>5, <1>7, PostsMessage, MessageTypes DEF Noise
<1>8. /\ Once(gapQ')
      /\ \/ Carried(gapQ') = Carried(gapQ) /\ profile'[p] = "idle"
         \/ \E ok \in BOOLEAN : /\ Carried(gapQ') = Carried(gapQ) \cup {StartIs(p, ok)}
                                /\ profile'[p] = IF ok THEN "running" ELSE "idle"
  BY <1>5, <1>6, <1>7 DEF OneCommand
<1>9. \A q, r \in Enabled, ok, other \in BOOLEAN : StartIs(q, ok) = StartIs(r, other) => q = r /\ ok = other
  BY DEF StartIs, Event
<1>10. ASSUME NEW q \in Enabled PROVE Starting(q)'
  <2>1. CASE q = p
    <3>1. inbox'[p] = <<>> /\ ~startStatus'[p] /\ profile'[p] # "stopping"
      BY <1>1, <1>4, <1>5, <1>8
    <3>2. ASSUME NEW ok \in BOOLEAN, StartIs(p, ok) \in Carried(gapQ')
          PROVE  profile'[p] = IF ok THEN "running" ELSE "idle"
      BY <1>5, <1>8, <1>9, <3>2
    <3> QED
      BY <2>1, <3>1, <3>2 DEF Starting, StartIs
  <2>2. CASE q # p
    <3>1. \A ok \in BOOLEAN : StartIs(q, ok) \in Carried(gapQ') => StartIs(q, ok) \in Carried(gapQ)
      BY <1>8, <1>9, <2>2
    <3>2. profile'[q] = profile[q] /\ inbox'[q] = inbox[q] /\ startStatus'[q] = startStatus[q]
      BY <1>1, <1>4, <1>6, <2>2
    <3>3. Starting(q)
      BY <1>5
    <3> QED
      BY <3>1, <3>2, <3>3 DEF Starting, StartIs
  <2> QED
    BY <2>1, <2>2
<1>11. ProfilesStart'
  <2>1. \A e \in Carried(gapQ') : \E q \in Enabled, ok \in BOOLEAN : e = StartIs(q, ok)
    BY <1>5, <1>8
  <2>2. state' = "ON" /\ Still' /\ mainQ' = <<>> /\ ~AllStarted'
    BY <1>1, <1>2, <1>3 DEF ProfilesStart, AllStarted
  <2> QED
    BY <1>2, <1>10, <2>1, <2>2 DEF ProfilesStart, StartIs
<1> QED
  BY <1>2, <1>3, <1>8, <1>11 DEF OneCommand, EnableInProgress

LEMMA ProfileStops ==
    ASSUME QueuesOK, Scalars, OneCommand, Alive, NEW p \in Enabled, Stops(p) \/ StopCompletes(p)
    PROVE  OneCommand'
<1> USE DEF gapVars, profVars, mainVars
<1>1. UNCHANGED <<config, gapVars, mainVars, thread, mainQ, stack>>
  BY DEF Alive, Stops, StopCompletes
<1>2. UNCHANGED <<Enabled, DisableCommand, ThreadsReady, Still>> /\ ThreadsReady'
  BY <1>1, SameParts DEF OneCommand
<1>3. /\ DisableCommand /\ StillOn /\ ProfilesStop /\ p \in Others
      /\ inbox[p] # <<>> \/ profile[p] = "stopping"
      /\ Stops(p) => inbox[p] = <<"PROFILE_API_STOP">>
  <2>1. CASE Stops(p)
    <3>1. inbox[p] # <<>> /\ Head(inbox[p]) = "PROFILE_API_STOP"
      BY <2>1 DEF Stops, Receives
    <3> QED
      BY <3>1, PlaceOfRequest, OneMessage
  <2>2. CASE StopCompletes(p) /\ ~Stops(p)
    BY <2>2, PlaceOfStop DEF StopCompletes
  <2> QED
    BY <2>1, <2>2
<1>4. /\ \A q \in Others : Stopping(q)
      /\ \A e \in Carried(gapQ) : \E q \in Others, ok \in BOOLEAN : e = StopIs(q, ok)
      /\ ~stopStatus[p] /\ \A ok \in BOOLEAN : StopIs(p, ok) \notin Carried(gapQ)
      /\ profile[p] = "stopping" => inbox[p] = <<>>
  BY <1>3 DEF ProfilesStop, Stopping
<1>5. /\ \A q \in Enabled : inbox'[q] = IF q = p THEN <<>> ELSE inbox[q]
  <2>1. CASE Stops(p)
    BY <1>3, <2>1, TakesRequest DEF Stops
  <2>2. CASE StopCompletes(p)
    BY <1>4, <2>2 DEF StopCompletes
  <2> QED
    BY <2>1, <2>2
<1>6. /\ \A q \in Enabled : q # p => profile'[q] = profile[q]
      /\ \/ profile'[p] = "stopping" /\ UNCHANGED gapQ
         \/ profile'[p] = "idle" /\ \E ok \in BOOLEAN : ToGap(StopIs(p, ok))
  <2>1. CASE Stops(p)
    BY <2>1 DEF Stops, Scalars, StopIs
  <2>2. CASE StopCompletes(p)
    BY <2>2 DEF StopCompletes, Scalars, StopIs
  <2> QED
    BY <2>1, <2>2
<1>7. ASSUME NEW ok \in BOOLEAN, ToGap(StopIs(p, ok))
      PROVE  Once(gapQ') /\ Carried(gapQ') = Carried(gapQ) \cup {StopIs(p, ok)}
  BY <1>4, <1>7, PostsMessage, MessageTypes DEF Noise
<1>8. /\ Once(gapQ')
      /\ \/ Carried(gapQ') = Carried(gapQ) /\ profile'[p] = "stopping"
         \/ profile'[p] = "idle" /\ \E ok \in BOOLEAN : Carried(gapQ') = Carried(gapQ) \cup {StopIs(p, ok)}
  BY <1>6, <1>7 DEF OneCommand
<1>9. \A q, r \in Enabled, ok, other \in BOOLEAN : StopIs(q, ok) = StopIs(r, other) => q = r /\ ok = other
  BY DEF StopIs, Event
<1>10. Others' = Others /\ Others \subseteq Enabled
  BY <1>2 DEF Others
<1>11. ASSUME NEW q \in Others PROVE Stopping(q)'
  <2>1. CASE q = p
    <3>1. inbox'[p] = <<>> /\ ~stopStatus'[p]
      BY <1>1, <1>4, <1>5
    <3>2. CASE Carried(gapQ') = Carried(gapQ) /\ profile'[p] = "stopping"
      BY <1>4, <2>1, <3>1, <3>2 DEF Stopping, StopIs
    <3>3. ASSUME profile'[p] = "idle", NEW ok \in BOOLEAN, Carried(gapQ') = Carried(gapQ) \cup {StopIs(p, ok)}
          PROVE  Stopping(p)'
      <4>1. \A other \in BOOLEAN : StopIs(p, other) \in Carried(gapQ') => StopIs(p, ~other) \notin Carried(gapQ')
        <5> SUFFICES ASSUME NEW other \in BOOLEAN, StopIs(p, other) \in Carried(gapQ'), StopIs(p, ~other) \in Carried(gapQ')
                     PROVE  FALSE
          OBVIOUS
        <5>1. (~other) \in BOOLEAN /\ other # (~other)
          OBVIOUS
        <5>2. StopIs(p, other) = StopIs(p, ok) /\ StopIs(p, ~other) = StopIs(p, ok)
          BY <1>4, <3>3, <5>1
        <5> QED
          BY <1>9, <5>1, <5>2
      <4> QED
        BY <3>1, <3>3, <4>1 DEF Stopping, StopIs
    <3> QED
      BY <1>8, <2>1, <3>2, <3>3
  <2>2. CASE q # p
    <3>1. \A ok \in BOOLEAN : StopIs(q, ok) \in Carried(gapQ') <=> StopIs(q, ok) \in Carried(gapQ)
      BY <1>8, <1>9, <1>10, <2>2
    <3>2. profile'[q] = profile[q] /\ inbox'[q] = inbox[q] /\ stopStatus'[q] = stopStatus[q]
      BY <1>1, <1>5, <1>6, <1>10, <2>2
    <3>3. Stopping(q)
      BY <1>4
    <3>4. \A ok \in BOOLEAN : (~ok) \in BOOLEAN
      OBVIOUS
    <3> QED
      BY <3>1, <3>2, <3>3, <3>4 DEF Stopping, StopIs
  <2> QED
    BY <2>1, <2>2
<1>12. ProfilesStop' /\ StillOn'
  <2>1. \A e \in Carried(gapQ') : \E q \in Others, ok \in BOOLEAN : e = StopIs(q, ok)
    BY <1>3, <1>4, <1>8
  <2>2. mainQ' = <<>> /\ (\E q \in Others : ~stopStatus'[q]) /\ StillOn'
    BY <1>1, <1>2, <1>3 DEF ProfilesStop, StillOn, AllStarted
  <2>3. BT_AM \in Enabled => inbox'[BT_AM] = <<>> /\ profile'[BT_AM] # "stopping"
    BY <1>3, <1>5, <1>6 DEF ProfilesStop, Others
  <2> QED
    BY <1>2, <1>10, <1>11, <2>1, <2>2, <2>3 DEF ProfilesStop, StopIs
<1> QED
  BY <1>2, <1>3, <1>8, <1>12 DEF OneCommand, DisableInProgress

LEMMA SinkCleanedUp ==
    ASSUME QueuesOK, Scalars, OneCommand, Alive, NEW p \in Enabled, SinkCleansUp(p)
    PROVE  OneCommand'
<1> USE DEF gapVars, profVars, mainVars
<1>1. UNCHANGED <<config, gapVars, mainVars, profVars, mainQ, stack>>
  BY DEF Alive, SinkCleansUp
<1>2. UNCHANGED <<Enabled, DisableCommand, ThreadsReady, Still>> /\ ThreadsReady'
  BY <1>1, SameParts DEF OneCommand
<1>3. /\ DisableCommand /\ StillOn /\ DisableAsked /\ Carried(gapQ) = {} /\ p = A2DP_SINK
      /\ inbox[p] = <<"A2DP_SINK_CLEANUP_REQ">>
  <2>1. inbox[p] # <<>> /\ Head(inbox[p]) = "A2DP_SINK_CLEANUP_REQ"
    BY DEF SinkCleansUp, Receives
  <2> QED
    BY <2>1, PlaceOfRequest, OneMessage
<1>4. Empty'
  <2>1. \A q \in Enabled : q # p => inbox[q] = <<>>
    BY <1>3, OneMessage DEF DisableAsked, Empty
  <2>2. \A q \in Enabled : inbox'[q] = IF q = p THEN <<>> ELSE inbox[q]
    BY <1>3, TakesRequest DEF SinkCleansUp
  <2> QED
    BY <1>2, <2>1, <2>2 DEF Empty
<1>5. Once(gapQ') /\ Carried(gapQ') = {Msg("A2DP_SINK_CLEANUP_DONE")}
  <2>1. /\ Msg("A2DP_SINK_CLEANUP_DONE") \in GapEvents /\ Msg("A2DP_SINK_CLEANUP_DONE").id \notin Noise
        /\ ToGap(Msg("A2DP_SINK_CLEANUP_DONE"))
    BY MessageTypes DEF GapIds, Noise, SinkCleansUp
  <2> QED
    BY <1>3, <2>1, PostsMessage
<1>6. StillOn' /\ (AllRunning' \/ AllIdle') /\ mainQ' = <<>>
  BY <1>1, <1>2, <1>3 DEF StillOn, AllStarted, AllRunning, AllIdle, DisableAsked, Holds
<1>7. DisableAsked'
  BY <1>4, <1>5, <1>6 DEF DisableAsked, Holds
<1> QED
  BY <1>2, <1>3, <1>5, <1>6, <1>7 DEF OneCommand, DisableInProgress

LEMMA AudioManagerStopped ==
    ASSUME QueuesOK, Scalars, OneCommand, Alive, NEW p \in Enabled, AudioManagerStops(p)
    PROVE  OneCommand'
<1> USE DEF gapVars, profVars, mainVars
<1>1. UNCHANGED <<config, gapVars, mainVars, thread, mainQ, stack>>
  BY DEF Alive, AudioManagerStops
<1>2. UNCHANGED <<Enabled, DisableCommand, ThreadsReady, Still>> /\ ThreadsReady'
  BY <1>1, SameParts DEF OneCommand
<1>3. DisableCommand /\ StillOn /\ AudioManagerAsked /\ p = BT_AM /\ inbox[p] = <<"BT_AM_DISABLE_REQ">>
  <2>1. inbox[p] # <<>> /\ Head(inbox[p]) = "BT_AM_DISABLE_REQ"
    BY DEF AudioManagerStops, Receives
  <2> QED
    BY <2>1, PlaceOfRequest, OneMessage
<1>4. Low'
  <2>1. \A q \in Enabled : inbox'[q] = IF q = p THEN <<>> ELSE inbox[q]
    BY <1>3, TakesRequest DEF AudioManagerStops
  <2>2. \A q \in Enabled : profile'[q] = IF q = p THEN "idle" ELSE profile[q]
    BY DEF AudioManagerStops, Scalars
  <2> QED
    BY <1>2, <1>3, <2>1, <2>2 DEF AudioManagerAsked, Others, Low, Empty, AllIdle
<1>5. Once(gapQ') /\ Carried(gapQ') = {Msg("BT_AM_DISABLE_DONE")}
  <2>1. /\ Msg("BT_AM_DISABLE_DONE") \in GapEvents /\ Msg("BT_AM_DISABLE_DONE").id \notin Noise
        /\ ToGap(Msg("BT_AM_DISABLE_DONE"))
    BY MessageTypes DEF GapIds, Noise, AudioManagerStops
  <2> QED
    BY <1>3, <2>1, PostsMessage DEF AudioManagerAsked, Holds
<1>6. StillOn' /\ mainQ' = <<>>
  BY <1>1, <1>2, <1>3 DEF StillOn, AllStarted, AudioManagerAsked, Holds
<1>7. AudioManagerDone'
  BY <1>4, <1>5, <1>6 DEF AudioManagerDone, Holds
<1> QED
  BY <1>2, <1>3, <1>5, <1>6, <1>7 DEF OneCommand, DisableInProgress

(* A request is never dropped: when there is one, the profile's object exists. *)
LEMMA NothingDropped ==
    ASSUME OneCommand, NEW p \in Enabled
    PROVE  ~DropsMessage(p)
<1> SUFFICES ASSUME inbox[p] # <<>> PROVE thread[p] = "ready"
  BY DEF DropsMessage, Receives
<1>1. ~Idle
  BY PlaceOfRequest DEF EnableCommand, DisableCommand, Idle
<1> QED
  BY <1>1 DEF OneCommand, ThreadsReady
-----------------------------------------------------------------------------
(* The inductive invariant.                                                  *)

LEMMA InitHolds == ASSUME Init PROVE IInv
<1> Enabled # {}
  BY GapAssumption DEF Init, Enabled
<1>1. Scalars
  <2>1. /\ startStatus \in [Enabled -> BOOLEAN] /\ stopStatus \in [Enabled -> BOOLEAN]
        /\ thread \in [Enabled -> {"none", "thread", "ready"}]
        /\ profile \in [Enabled -> {"idle", "running", "stopping"}]
    BY DEF Init
  <2>2. commands \in 0 .. MaxCommands
    BY GapAssumption DEF Init
  <2> QED
    BY <2>1, <2>2 DEF Init, Scalars
<1>2. QueuesOK
  BY DEF Init, QueuesOK
<1>3. OneCommand
  <2>1. Idle /\ ThreadsReady
    BY DEF Init, Idle, ThreadsReady
  <2>2. Resting
    BY NothingCarried DEF Init, Resting, Holds, Empty, Still, AllIdle
  <2> QED
    BY <2>1, <2>2, NothingCarried DEF Init, OneCommand
<1> QED
  BY <1>1, <1>2, <1>3, TypesMeet DEF IInv

LEMMA NextKeepsOneCommand ==
    ASSUME TypeOK, QueuesOK, OneCommand, ~DefaultEnable, Next
    PROVE  OneCommand'
<1>1. Scalars /\ Alive
  BY TypesMeet DEF Next
<1>2. CASE MainStep
  BY <1>1, <1>2, MainKeeps, AnswerHandled DEF MainStep
<1>3. CASE User
  BY <1>1, <1>3, EnableSent, DisableSent DEF User
<1>4. CASE GapStep /\ ~Kill
  BY <1>1, <1>4, AdapterAnswerHandled, EnableHandled, StartHandled, StartDoneHandled, DisableAskHandled,
     StopHandled, StopDoneHandled, AllStoppedHandled DEF GapStep
<1>5. CASE Kill \/ SsrCleanupCb \/ \E t \in Timers : TimerExpires(t)
  BY <1>1, <1>5, NoiseKeeps
<1>6. CASE StackCallback
  BY <1>1, <1>6, StackAnswered
<1>7. ASSUME NEW p \in Enabled, ProfileStep(p) \/ StopCompletes(p) PROVE OneCommand'
  BY <1>1, <1>7, ProfileStarts, ProfileStops, SinkCleanedUp, AudioManagerStopped, NothingDropped DEF ProfileStep
<1> QED
  BY <1>2, <1>3, <1>4, <1>5, <1>6, <1>7 DEF Next

LEMMA NextKeepsInv == ASSUME IInv, [Next]_vars PROVE IInv'
<1>1. CASE Next
  <2>1. TypeOK' /\ QueuesOK'
    BY <1>1, NextTyped DEF IInv
  <2>2. DefaultEnable' = DefaultEnable
    BY <1>1 DEF Next, Alive, DefaultEnable
  <2>3. ~DefaultEnable => OneCommand'
    BY <1>1, NextKeepsOneCommand DEF IInv
  <2> QED
    BY <2>1, <2>2, <2>3 DEF IInv
<1>2. CASE UNCHANGED vars
  <2> USE DEF vars, gapVars, mainVars, profVars
  <2>1. UNCHANGED config /\ Enabled' = Enabled /\ GapEvents' = GapEvents /\ DefaultEnable' = DefaultEnable
    BY <1>2 DEF Enabled, GapEvents, DefaultEnable
  <2>2. QueuesOK'
    BY <1>2, <2>1 DEF IInv, QueuesOK
  <2>3. Scalars'
    BY <1>2, <2>1, TypesMeet DEF IInv, Scalars
  <2>4. (TypeOK /\ QueuesOK <=> Scalars /\ QueuesOK)'
    BY TypesMeet, PTL
  <2>5. ASSUME OneCommand PROVE OneCommand'
    <3>1. ThreadsReady' /\ Once(gapQ')
      BY <1>2, <2>5, StaysReady DEF OneCommand
    <3> QED
      BY <1>2, <2>5, <3>1, KeepsPlace
  <2> QED
    BY <2>1, <2>2, <2>3, <2>4, <2>5 DEF IInv
<1> QED
  BY <1>1, <1>2

(* A command of the main thread is in one place, and the adapter and the       *)
(* profiles are as that place says: the protocol between MainCb, Gap's          *)
(* ProcessEvent and the profiles' START_DONE and STOP_DONE.                      *)
THEOREM SpecIInv == Spec => []IInv
<1>1. Init => IInv
  BY InitHolds
<1>2. IInv /\ [Next]_vars => IInv'
  BY NextKeepsInv
<1> QED
  BY <1>1, <1>2, PTL DEF Spec

-----------------------------------------------------------------------------
(* What the inductive invariant says.                                        *)

LEMMA AnswersHeld ==
    ASSUME QueuesOK, OneCommand, NEW e \in Events(mainQ)
    PROVE  /\ mainQ = <<e>>
           /\ \/ EnableCommand /\ EnableFailed /\ ~e.status
              \/ EnableCommand /\ EnableDone
              \/ DisableCommand /\ e.id = "MAIN_EVENT_DISABLED"
<1>1. PICK k \in DOMAIN mainQ : e = mainQ[k]
  BY DEF Events
<1>2. mainQ # <<>>
  BY <1>1 DEF QueuesOK
<1>3. \E a \in {Enabling(FALSE), Disabling(FALSE), Enabling(TRUE), Disabling(TRUE)} : mainQ = <<a>>
  BY <1>2, PlaceOfAnswer DEF EnableFailed, EnableDone, DisableRefused, DisableDone, Holds
<1>4. mainQ = <<e>>
  BY <1>1, <1>3
<1>5. \A x, y : <<x>> = <<y>> => x = y
  OBVIOUS
<1>6. CASE EnableCommand /\ Low /\ EnableFailed
  BY <1>2, <1>4, <1>5, <1>6 DEF EnableFailed, Enabling, Disabling, Event
<1>7. CASE EnableCommand /\ EnableDone
  BY <1>4, <1>7
<1>8. CASE DisableCommand /\ StillOn /\ DisableRefused
  BY <1>4, <1>5, <1>8 DEF DisableRefused, Holds, Disabling, Event
<1>9. CASE DisableCommand /\ Low /\ DisableDone
  BY <1>4, <1>5, <1>9 DEF DisableDone, Holds, Disabling, Event
<1> QED
  BY <1>2, <1>4, <1>6, <1>7, <1>8, <1>9, PlaceOfAnswer

(* "all profiles started now, now send BT ENABLED event" (Gap.cpp): while the    *)
(* main thread is being told that Bluetooth is on, the adapter is on and every   *)
(* enabled profile runs.                                                         *)
THEOREM SpecAnnouncedIsTrue == Spec => []AnnouncedIsTrue
<1>1. IInv => AnnouncedIsTrue
  <2> SUFFICES ASSUME IInv, ~DefaultEnable, NEW e \in Events(mainQ), e.id = "MAIN_EVENT_ENABLED", e.status
               PROVE  state = "ON" /\ Running = Enabled
    BY DEF IInv, AnnouncedIsTrue, AnnouncedMeansRunning
  <2>1. EnableDone
    BY AnswersHeld DEF IInv
  <2> QED
    BY <2>1 DEF EnableDone, AllRunning, Running
<1> QED
  BY <1>1, SpecIInv, PTL

(* A MAIN_EVENT_ENABLED in the main thread's queue is the answer to the one      *)
(* enable command that BluetoothApp has given: there is never a second one, nor  *)
(* one without a command.                                                        *)
THEOREM SpecAnswersAreAsked == Spec => []AnswersAreAsked
<1>1. IInv => AnswersAreAsked
  <2> SUFFICES ASSUME IInv, ~DefaultEnable
               PROVE  Cardinality(Messages(mainQ, "MAIN_EVENT_ENABLED")) <= (IF enableCmd THEN 1 ELSE 0)
    BY DEF AnswersAreAsked
  <2> DEFINE told == Messages(mainQ, "MAIN_EVENT_ENABLED")
  <2>1. CASE told = {}
    BY <2>1, FS_EmptySet
  <2>2. ASSUME NEW k \in told PROVE told = {k} /\ enableCmd
    <3>1. k \in DOMAIN mainQ /\ mainQ[k].id = "MAIN_EVENT_ENABLED" /\ mainQ[k] \in Events(mainQ)
      BY <2>2 DEF Messages, Events
    <3>2. mainQ = <<mainQ[k]>> /\ EnableCommand
      BY <3>1, AnswersHeld DEF IInv
    <3>3. \A x : DOMAIN <<x>> = {1}
      OBVIOUS
    <3>4. DOMAIN mainQ = {1}
      BY <3>2, <3>3
    <3> QED
      BY <2>2, <3>1, <3>2, <3>4 DEF Messages, EnableCommand
  <2>3. ASSUME NEW k \in told PROVE Cardinality(told) = 1 /\ enableCmd
    BY <2>2, <2>3, FS_Singleton
  <2> QED
    BY <2>1, <2>3
<1> QED
  BY <1>1, SpecIInv, PTL

(* While the main thread believes that Bluetooth is on and waits for nothing,    *)
(* every enabled profile runs or, after a disable that the stack refused, none.  *)
THEOREM SpecNeverHalfUp == Spec => []NeverHalfUp
<1>1. IInv => NeverHalfUp
  <2> SUFFICES ASSUME IInv, ~DefaultEnable, btState = "ON", Idle
               PROVE  Running \in {Enabled, {}}
    BY DEF NeverHalfUp
  <2>1. Resting
    BY DEF IInv, OneCommand, EnableCommand, DisableCommand, Idle
  <2> QED
    BY <2>1 DEF Resting, AllRunning, AllIdle, Running
<1> QED
  BY <1>1, SpecIInv, PTL

(* BluetoothApp::bt_state and AdapterProperties::state_ agree whenever no         *)
(* command is outstanding.                                                       *)
THEOREM SpecBeliefAgrees == Spec => []BeliefAgrees
<1>1. IInv => BeliefAgrees
  <2> SUFFICES ASSUME IInv, ~DefaultEnable, Idle PROVE btState = state
    BY DEF BeliefAgrees
  <2>1. Resting
    BY DEF IInv, OneCommand, EnableCommand, DisableCommand, Idle
  <2> QED
    BY <2>1 DEF Resting
<1> QED
  BY <1>1, SpecIInv, PTL

-----------------------------------------------------------------------------
(* Two commands.                                                             *)
(*                                                                           *)
(* With a default enable the main thread may give an enable of its own while  *)
(* the first is still on its way, and takes the answer to one for the answer   *)
(* to the other.  There are never more than two, nor a disable under way while *)
(* another waits; the second invariant holds in every configuration.           *)

Asking == {"GAP_API_ENABLE", "GAP_API_DISABLE"}
Skipped == Noise \cup Asking
Rest == Kept(gapQ, Skipped)

(* The commands in a queue, in their order, and a message with only noise behind it. *)
AsksNone(q) == \A i \in 1 .. Len(q) : q[i].id \notin Asking
AsksOne(q, a) ==
    \E i \in 1 .. Len(q) : q[i].id = a /\ \A k \in 1 .. Len(q) : k # i => q[k].id \notin Asking
AsksTwo(q, a, b) ==
    \E i, j \in 1 .. Len(q) :
        /\ i < j /\ q[i].id = a /\ q[j].id = b
        /\ \A k \in 1 .. Len(q) : k # i /\ k # j => q[k].id \notin Asking
LastIs(q, a) == \A i, j \in 1 .. Len(q) : i < j /\ q[i].id = a => q[j].id \in Noise

Nothing == AsksNone(gapQ)
AnEnable == AsksOne(gapQ, "GAP_API_ENABLE")
ADisable == AsksOne(gapQ, "GAP_API_DISABLE")
EnableTwice == AsksTwo(gapQ, "GAP_API_ENABLE", "GAP_API_ENABLE")
EnableDisable == AsksTwo(gapQ, "GAP_API_ENABLE", "GAP_API_DISABLE")
DisableEnable == AsksTwo(gapQ, "GAP_API_DISABLE", "GAP_API_ENABLE")

One(x) == <<x>>
Two(x, y) == <<x, y>>

Up == Enabling(TRUE)
NotUp == Enabling(FALSE)
NotDown == Disabling(TRUE)
Down == Disabling(FALSE)
IdleOff == Idle /\ btState = "OFF"
IdleOn == Idle /\ btState = "ON"

(* What the main thread has asked and been told while the adapter is off, on   *)
(* its way up or on.  In the strict forms there is no second command.           *)
OffMain ==
    \/ /\ IdleOff
       /\ \/ (AnEnable \/ ADisable) /\ mainQ = <<>>
          \/ Nothing /\ mainQ \in {<<>>, One(NotUp), One(Down)}
    \/ IdleOn /\ Nothing /\ mainQ = One(Down)
    \/ /\ EnableCommand
       /\ \/ (AnEnable \/ Nothing) /\ mainQ \in {<<>>, One(NotUp), One(Down)}
          \/ (EnableTwice \/ DisableEnable) /\ mainQ = <<>>
          \/ /\ Nothing
             /\ mainQ \in {Two(NotUp, NotUp), Two(NotUp, Down), Two(Down, NotUp), Two(Down, Down), Two(Up, Down)}
    \/ /\ DisableCommand
       /\ \/ ADisable /\ mainQ = One(Down)
          \/ Nothing /\ mainQ \in {One(Down), Two(Down, Down), Two(Up, Down)}
StrictOff ==
    \/ IdleOff /\ Nothing /\ mainQ = <<>>
    \/ /\ EnableCommand
       /\ \/ AnEnable /\ mainQ = <<>>
          \/ Nothing /\ mainQ \in {<<>>, One(NotUp), One(Down)}
    \/ DisableCommand /\ Nothing /\ mainQ \in {One(Down), Two(Up, Down)}

OnMain ==
    \/ Idle /\ Nothing /\ mainQ = <<>>
    \/ /\ EnableCommand
       /\ \/ AnEnable /\ mainQ = <<>>
          \/ Nothing /\ mainQ \in {<<>>, One(NotUp), One(Up), One(Down)}
    \/ /\ DisableCommand
       /\ \/ ADisable /\ mainQ = <<>>
          \/ Nothing /\ mainQ = One(Down)
StrictOn == EnableCommand /\ Nothing /\ mainQ = <<>>
OnMainAll ==
    \/ Idle /\ Nothing /\ mainQ \in {<<>>, One(Up)}
    \/ IdleOn /\ AnEnable /\ mainQ = <<>>
    \/ /\ EnableCommand
       /\ \/ AnEnable /\ mainQ \in {<<>>, One(Up)}
          \/ Nothing /\ mainQ \in {One(Up), Two(Up, Up), Two(NotUp, Up), Two(Down, Up)}
    \/ /\ DisableCommand
       /\ \/ ADisable /\ mainQ \in {<<>>, One(Up)}
          \/ EnableDisable /\ mainQ = <<>>
          \/ Nothing /\ mainQ \in {Two(Down, Up), One(NotDown), Two(Up, NotDown)}
Refused == DisableCommand /\ Nothing /\ mainQ = One(NotDown)

(* While a disable is carried out.                                           *)
DisMain == DisableCommand /\ Nothing /\ (mainQ = <<>> \/ (AllStarted /\ mainQ = One(Up)))
GoingMain == DisableCommand /\ Nothing /\ mainQ \in {<<>>, One(Up)}

-----------------------------------------------------------------------------
(* The parts of the second invariant.                                        *)

StartAll == Msg("PROFILE_API_START")
SinkDone == Msg("A2DP_SINK_CLEANUP_DONE")
ManagerDone == Msg("BT_AM_DISABLE_DONE")
StartMsgs == {StartAll} \cup {StartIs(p, ok) : p \in Enabled, ok \in BOOLEAN}
StopMsgs == {StopIs(p, ok) : p \in Others, ok \in BOOLEAN}

(* A profile is started at most once at a time, and is not counted before it   *)
(* has answered.                                                              *)
NoneStarted == \A p \in Enabled : ~startStatus[p]
StartAnswered(p) == \E ok \in BOOLEAN : StartIs(p, ok) \in Rest
StartPending(p) ==
    inbox[p] \in {One("PROFILE_API_START"), Two("PROFILE_API_START", "A2DP_SINK_CLEANUP_REQ"),
                  Two("A2DP_SINK_CLEANUP_REQ", "PROFILE_API_START"),
                  Two("PROFILE_API_START", "BT_AM_DISABLE_REQ")}
Begun(p) ==
    /\ StartPending(p) \/ StartAnswered(p) => ~startStatus[p] /\ StartAll \notin Rest
    /\ StartPending(p) => ~StartAnswered(p)
    /\ ~(StartIs(p, TRUE) \in Rest /\ StartIs(p, FALSE) \in Rest)

Plain(p) == inbox[p] \in {<<>>, One("PROFILE_API_START")}
Steady == \A p \in Enabled : Plain(p) /\ profile[p] # "stopping"

(* No disable has reached the adapter, or the stack has refused it.           *)
CalmMain ==
    \/ AllStarted /\ OnMainAll
    \/ ~AllStarted /\ OnMain
    \/ ~AllStarted /\ Rest = {} /\ Empty /\ Refused
NoDisable == Rest \subseteq StartMsgs /\ Steady /\ CalmMain

(* A disable: the sink cleans up, the profiles stop, then the audio manager.  *)
SinkCleaning ==
    /\ Rest \subseteq StartMsgs
    /\ \A p \in Enabled :
          /\ profile[p] # "stopping"
          /\ \/ Plain(p)
             \/ /\ p = A2DP_SINK
                /\ inbox[p] \in {One("A2DP_SINK_CLEANUP_REQ"),
                                 Two("PROFILE_API_START", "A2DP_SINK_CLEANUP_REQ"),
                                 Two("A2DP_SINK_CLEANUP_REQ", "PROFILE_API_START")}
SinkCleaned == SinkDone \in Rest /\ Rest \subseteq StartMsgs \cup {SinkDone} /\ Steady

StopAnswered(p) == \E ok \in BOOLEAN : StopIs(p, ok) \in Rest
StopAsked(p) == inbox[p] = One("PROFILE_API_STOP")
StoppingOf(p) ==
    /\ Plain(p) \/ StopAsked(p)
    /\ StopAsked(p) => profile[p] # "stopping"
    /\ StopAsked(p) \/ profile[p] = "stopping" => startStatus[p] /\ ~stopStatus[p] /\ ~StopAnswered(p)
    /\ StopAnswered(p) => ~stopStatus[p]
    /\ StopAnswered(p) \/ stopStatus[p] => startStatus[p] /\ profile[p] = "idle"
    /\ ~(StopIs(p, TRUE) \in Rest /\ StopIs(p, FALSE) \in Rest)
StopsRun ==
    /\ Rest \subseteq StartMsgs \cup StopMsgs
    /\ \E p \in Others : ~stopStatus[p]
    /\ \A p \in Others : StoppingOf(p)
    /\ BT_AM \in Enabled => Plain(BT_AM) /\ profile[BT_AM] # "stopping"

OthersDown == \A p \in Others : inbox[p] = <<>> /\ profile[p] = "idle" /\ startStatus[p]
ManagerAsked ==
    /\ Rest \subseteq StartMsgs /\ OthersDown
    /\ BT_AM \in Enabled /\ profile[BT_AM] # "stopping"
    /\ \/ Plain(BT_AM)
       \/ inbox[BT_AM] \in {One("BT_AM_DISABLE_REQ"), Two("PROFILE_API_START", "BT_AM_DISABLE_REQ")}
ManagerOff ==
    /\ ManagerDone \in Rest /\ Rest \subseteq StartMsgs \cup {ManagerDone}
    /\ LastIs(gapQ, "BT_AM_DISABLE_DONE")
    /\ Low /\ OthersDown

OnPhase ==
    /\ state = "ON" /\ Still
    /\ \A p \in Enabled : Begun(p)
    /\ StartAll \in Rest => NoneStarted
    /\ \/ NoDisable
       \/ DisMain /\ (SinkCleaning \/ SinkCleaned \/ StopsRun \/ ManagerAsked \/ ManagerOff)

(* The adapter is on for a second time: what start_status says is old.        *)
StartAgain == state = "ON" /\ Still /\ Low /\ Rest = {StartAll} /\ StrictOn

ComingPhase ==
    /\ state = "TURNING_ON" /\ Low
    /\ \/ stack \in {"enabling", "lost"} /\ Rest = {}
       \/ Still /\ \E on \in BOOLEAN : Rest = {AdapterIs(on)}
    /\ (NoneStarted /\ OnMain) \/ StrictOn
OffPhase == state = "OFF" /\ Still /\ Low /\ Rest = {} /\ ((NoneStarted /\ OffMain) \/ StrictOff)
GoingPhase ==
    /\ state = "TURNING_OFF" /\ Low
    /\ \/ stack \in {"disabling", "lost"} /\ Rest = {}
       \/ Still /\ Rest = {AdapterIs(FALSE)}
    /\ GoingMain

(* InitHandler has posted nothing yet.                                       *)
AtFirst ==
    mainPc = "enabling" =>
        /\ state = "OFF" /\ stack = "off" /\ armed = {} /\ NoneStarted
        /\ gapQ = <<>> /\ mainQ = <<>> /\ IdleOff

TwoCommands ==
    /\ Distinct(gapQ, Skipped)
    /\ OnPhase \/ StartAgain \/ ComingPhase \/ OffPhase \/ GoingPhase

-----------------------------------------------------------------------------
(* Lemmas about the commands in a queue.                                     *)

LEMMA AskAppend ==
    ASSUME NEW q \in Seq(GapEvents), NEW e \in GapEvents, NEW a, NEW b
    PROVE  /\ e.id \notin Asking =>
                 /\ AsksNone(q) => AsksNone(Append(q, e))
                 /\ AsksOne(q, a) => AsksOne(Append(q, e), a)
                 /\ AsksTwo(q, a, b) => AsksTwo(Append(q, e), a, b)
           /\ AsksNone(q) /\ e.id = b => AsksOne(Append(q, e), b)
           /\ AsksOne(q, a) /\ e.id = b => AsksTwo(Append(q, e), a, b)
<1> DEFINE more == Append(q, e)
           n == Len(q)
<1>1. /\ n \in Nat /\ Len(more) = n + 1
      /\ \A i \in 1 .. n : more[i] = q[i] /\ i \in 1 .. n + 1 /\ i < n + 1 /\ i # n + 1
      /\ more[n + 1] = e /\ n + 1 \in 1 .. n + 1
      /\ \A i \in 1 .. n + 1 : i \in 1 .. n \/ i = n + 1
  BY AppendProperties
<1> HIDE DEF more, n
<1>2. ASSUME AsksNone(q) PROVE /\ e.id \notin Asking => AsksNone(more)
                               /\ e.id = b => AsksOne(more, b)
  <2>1. \A i \in 1 .. n : more[i].id \notin Asking
    BY <1>1, <1>2 DEF AsksNone, n
  <2>2. e.id \notin Asking => AsksNone(more)
    BY <1>1, <2>1 DEF AsksNone
  <2>3. e.id = b => AsksOne(more, b)
    BY <1>1, <2>1 DEF AsksOne
  <2> QED
    BY <2>2, <2>3
<1>3. ASSUME AsksOne(q, a) PROVE /\ e.id \notin Asking => AsksOne(more, a)
                                 /\ e.id = b => AsksTwo(more, a, b)
  <2>1. PICK i \in 1 .. n : q[i].id = a /\ \A k \in 1 .. n : k # i => q[k].id \notin Asking
    BY <1>3 DEF AsksOne, n
  <2>2. more[i].id = a /\ \A k \in 1 .. n : k # i => more[k].id \notin Asking
    BY <1>1, <2>1
  <2>3. e.id \notin Asking => AsksOne(more, a)
    BY <1>1, <2>1, <2>2 DEF AsksOne
  <2>4. e.id = b => AsksTwo(more, a, b)
    BY <1>1, <2>1, <2>2 DEF AsksTwo
  <2> QED
    BY <2>3, <2>4
<1>4. ASSUME AsksTwo(q, a, b), e.id \notin Asking PROVE AsksTwo(more, a, b)
  <2>1. PICK i \in 1 .. n, j \in 1 .. n :
           /\ i < j /\ q[i].id = a /\ q[j].id = b
           /\ \A k \in 1 .. n : k # i /\ k # j => q[k].id \notin Asking
    BY <1>4 DEF AsksTwo, n
  <2>2. \A k \in 1 .. n + 1 : k # i /\ k # j => more[k].id \notin Asking
    BY <1>1, <1>4, <2>1
  <2>3. more[i].id = a /\ more[j].id = b /\ i \in 1 .. n + 1 /\ j \in 1 .. n + 1
    BY <1>1, <2>1
  <2> QED
    BY <1>1, <2>1, <2>2, <2>3 DEF AsksTwo
<1> QED
  BY <1>2, <1>3, <1>4 DEF more

LEMMA AskTail ==
    ASSUME NEW q \in Seq(GapEvents), q # <<>>, NEW a \in Asking, NEW b \in Asking
    PROVE  /\ Head(q).id \notin Asking =>
                 /\ AsksNone(q) => AsksNone(Tail(q))
                 /\ AsksOne(q, a) => AsksOne(Tail(q), a)
                 /\ AsksTwo(q, a, b) => AsksTwo(Tail(q), a, b)
           /\ Head(q).id \in Asking =>
                 /\ ~AsksNone(q)
                 /\ AsksOne(q, a) => Head(q).id = a /\ AsksNone(Tail(q))
                 /\ AsksTwo(q, a, b) => Head(q).id = a /\ AsksOne(Tail(q), b)
<1> DEFINE rest == Tail(q)
           n == Len(q)
<1>1. /\ Head(q) = q[1] /\ n \in Nat \ {0} /\ Len(rest) = n - 1
      /\ \A i \in 1 .. Len(rest) : rest[i] = q[i + 1]
  BY HeadTailProperties
<1> HIDE DEF rest, n
<1>2. /\ 1 \in 1 .. n
      /\ \A i \in 1 .. Len(rest) : i + 1 \in 1 .. n /\ i + 1 # 1
      /\ \A i \in 1 .. n : i # 1 => i - 1 \in 1 .. Len(rest) /\ rest[i - 1] = q[i]
  BY <1>1
<1>3. ASSUME AsksNone(q) PROVE AsksNone(rest) /\ Head(q).id \notin Asking
  BY <1>1, <1>2, <1>3 DEF AsksNone, n
<1>4. ASSUME AsksOne(q, a)
      PROVE  /\ Head(q).id \notin Asking => AsksOne(rest, a)
             /\ Head(q).id \in Asking => Head(q).id = a /\ AsksNone(rest)
  <2>1. PICK i \in 1 .. n : q[i].id = a /\ \A k \in 1 .. n : k # i => q[k].id \notin Asking
    BY <1>4 DEF AsksOne, n
  <2>2. \A k \in 1 .. Len(rest) : k + 1 # i => rest[k].id \notin Asking
    BY <1>1, <1>2, <2>1
  <2>3. CASE i = 1
    <3>1. AsksNone(rest)
      BY <1>2, <2>2, <2>3 DEF AsksNone
    <3> QED
      BY <1>1, <2>1, <2>3, <3>1
  <2>4. CASE i # 1
    <3>1. Head(q).id \notin Asking
      BY <1>1, <1>2, <2>1, <2>4
    <3>2. i - 1 \in 1 .. Len(rest) /\ rest[i - 1].id = a
      BY <1>2, <2>1, <2>4
    <3>3. \A k \in 1 .. Len(rest) : k # i - 1 => rest[k].id \notin Asking
      BY <2>2
    <3> QED
      BY <3>1, <3>2, <3>3 DEF AsksOne
  <2> QED
    BY <2>3, <2>4
<1>5. ASSUME AsksTwo(q, a, b)
      PROVE  /\ Head(q).id \notin Asking => AsksTwo(rest, a, b)
             /\ Head(q).id \in Asking => Head(q).id = a /\ AsksOne(rest, b)
  <2>1. PICK i \in 1 .. n, j \in 1 .. n :
           /\ i < j /\ q[i].id = a /\ q[j].id = b
           /\ \A k \in 1 .. n : k # i /\ k # j => q[k].id \notin Asking
    BY <1>5 DEF AsksTwo, n
  <2>2. j # 1 /\ j - 1 \in 1 .. Len(rest) /\ rest[j - 1].id = b
    <3>1. j # 1
      BY <1>1, <2>1
    <3> QED
      BY <1>2, <2>1, <3>1
  <2>3. \A k \in 1 .. Len(rest) : k + 1 # i /\ k # j - 1 => rest[k].id \notin Asking
    <3> SUFFICES ASSUME NEW k \in 1 .. Len(rest), k + 1 # i, k # j - 1 PROVE rest[k].id \notin Asking
      OBVIOUS
    <3>1. rest[k] = q[k + 1] /\ k + 1 \in 1 .. n
      BY <1>1, <1>2
    <3>2. k + 1 # j
      BY <1>1
    <3> QED
      BY <2>1, <3>1, <3>2
  <2>4. CASE i = 1
    <3>1. \A k \in 1 .. Len(rest) : k # j - 1 => rest[k].id \notin Asking
      BY <1>2, <2>3, <2>4
    <3>2. AsksOne(rest, b)
      BY <2>2, <3>1 DEF AsksOne
    <3> QED
      BY <1>1, <2>1, <2>4, <3>2
  <2>5. CASE i # 1
    <3>1. Head(q).id \notin Asking
      BY <1>1, <1>2, <2>1, <2>2, <2>5
    <3>2. i - 1 \in 1 .. Len(rest) /\ rest[i - 1].id = a /\ i - 1 < j - 1
      BY <1>2, <2>1, <2>5
    <3>3. \A k \in 1 .. Len(rest) : k # i - 1 /\ k # j - 1 => rest[k].id \notin Asking
      BY <2>3
    <3> QED
      BY <2>2, <3>1, <3>2, <3>3 DEF AsksTwo
  <2> QED
    BY <2>4, <2>5
<1> QED
  BY <1>3, <1>4, <1>5 DEF rest

LEMMA LastAppend ==
    ASSUME NEW q \in Seq(GapEvents), NEW e \in GapEvents, NEW a, NEW skip
    PROVE  /\ LastIs(q, a) /\ e.id \in Noise => LastIs(Append(q, e), a)
           /\ e.id = a /\ a \notin skip /\ (\A x \in Kept(q, skip) : x.id # a) => LastIs(Append(q, e), a)
<1> DEFINE more == Append(q, e)
           n == Len(q)
<1>1. /\ n \in Nat /\ Len(more) = n + 1
      /\ \A i \in 1 .. n : more[i] = q[i]
      /\ more[n + 1] = e
      /\ \A i, j \in 1 .. n + 1 : i < j => i \in 1 .. n /\ (j \in 1 .. n \/ j = n + 1)
  BY AppendProperties
<1> HIDE DEF more, n
<1>2. ASSUME LastIs(q, a), e.id \in Noise PROVE LastIs(more, a)
  BY <1>1, <1>2 DEF LastIs, n
<1>3. ASSUME a \notin skip, \A x \in Kept(q, skip) : x.id # a PROVE LastIs(more, a)
  <2>1. \A i \in 1 .. n : q[i].id # a
    BY <1>3 DEF Kept, n
  <2> QED
    BY <1>1, <2>1 DEF LastIs
<1> QED
  BY <1>2, <1>3 DEF more

LEMMA LastTail ==
    ASSUME NEW q \in Seq(GapEvents), q # <<>>, NEW a, LastIs(q, a)
    PROVE  /\ LastIs(Tail(q), a)
           /\ Head(q).id = a => Kept(Tail(q), Skipped) = {}
<1> DEFINE rest == Tail(q)
           n == Len(q)
<1>1. /\ Head(q) = q[1] /\ n \in Nat \ {0} /\ Len(rest) = n - 1
      /\ \A i \in 1 .. Len(rest) : rest[i] = q[i + 1]
  BY HeadTailProperties
<1> HIDE DEF rest, n
<1>2. 1 \in 1 .. n /\ \A i \in 1 .. Len(rest) : i + 1 \in 1 .. n /\ 1 < i + 1
  BY <1>1
<1>3. LastIs(rest, a)
  <2> SUFFICES ASSUME NEW i \in 1 .. Len(rest), NEW j \in 1 .. Len(rest), i < j, rest[i].id = a
               PROVE  rest[j].id \in Noise
    BY DEF LastIs
  <2>1. i + 1 < j + 1 /\ q[i + 1].id = a
    BY <1>1
  <2> QED
    BY <1>1, <1>2, <2>1 DEF LastIs, n
<1>4. ASSUME Head(q).id = a PROVE \A j \in 1 .. Len(rest) : rest[j].id \in Noise
  BY <1>1, <1>2, <1>4 DEF LastIs, n
<1> QED
  BY <1>3, <1>4 DEF Kept, Skipped, rest

LEMMA ShortQueues ==
    ASSUME NEW x, NEW y
    PROVE  /\ Append(<<>>, x) = One(x) /\ Append(One(x), y) = Two(x, y)
           /\ Head(One(x)) = x /\ Tail(One(x)) = <<>>
           /\ Head(Two(x, y)) = x /\ Tail(Two(x, y)) = One(y)
           /\ One(x) # <<>> /\ Two(x, y) # <<>>
<1>1. One(x) # <<>> /\ Head(One(x)) = x /\ Tail(One(x)) = <<>> /\ Append(<<>>, x) = One(x)
  BY DEF One
<1>2. Two(x, y) # <<>> /\ Head(Two(x, y)) = x
  BY DEF Two
<1> DEFINE T == {x, y}
<1>3. /\ Two(x, y) \in Seq(T) /\ Len(Two(x, y)) = 2 /\ Two(x, y)[1] = x /\ Two(x, y)[2] = y
      /\ One(x) \in Seq(T) /\ Len(One(x)) = 1 /\ One(x)[1] = x
      /\ One(y) \in Seq(T) /\ Len(One(y)) = 1 /\ One(y)[1] = y
      /\ x \in T /\ y \in T
  BY DEF One, Two
<1> HIDE DEF T
<1>4. Append(One(x), y) = Two(x, y)
  <2>1. /\ Append(One(x), y) \in Seq(T) /\ Len(Append(One(x), y)) = 2
        /\ Append(One(x), y)[1] = x /\ Append(One(x), y)[2] = y
    <3> DEFINE s == One(x)
               t == Append(s, y)
    <3>1. s \in Seq(T) /\ y \in T /\ Len(s) = 1 /\ s[1] = x
      BY <1>3
    <3> HIDE DEF s
    <3>2. t \in Seq(T) /\ Len(t) = Len(s) + 1
      BY <3>1, AppendProperties
    <3>3. t[Len(s) + 1] = y
      BY <3>1, AppendProperties
    <3>4. t[1] = s[1]
      BY <3>1, AppendProperties
    <3> QED
      BY <3>1, <3>2, <3>3, <3>4 DEF s
  <2>2. \A i \in 1 .. 2 : i = 1 \/ i = 2
    OBVIOUS
  <2> QED
    BY <1>3, <2>1, <2>2, SeqEqual
<1>5. Tail(Two(x, y)) = One(y)
  <2>1. Tail(Two(x, y)) \in Seq(T) /\ Len(Tail(Two(x, y))) = 1 /\ Tail(Two(x, y))[1] = y
    <3> DEFINE s == Two(x, y)
               t == Tail(s)
    <3>1. s \in Seq(T) /\ s # <<>> /\ Len(s) = 2 /\ s[2] = y
      BY <1>2, <1>3
    <3> HIDE DEF s
    <3>2. t \in Seq(T) /\ Len(t) = Len(s) - 1
      BY <3>1, HeadTailProperties
    <3>3. \A i \in 1 .. Len(t) : t[i] = s[i + 1]
      BY <3>1, HeadTailProperties
    <3> HIDE DEF t
    <3>4. Len(t) = 1 /\ t[1] = s[2]
      BY <3>1, <3>2, <3>3
    <3> QED
      BY <3>1, <3>2, <3>4 DEF s, t
  <2>2. \A i \in 1 .. 1 : i = 1
    OBVIOUS
  <2> QED
    BY <1>3, <2>1, <2>2, SeqEqual
<1> QED
  BY <1>1, <1>2, <1>4, <1>5

LEMMA ShortAnswers ==
    /\ Up.id = "MAIN_EVENT_ENABLED" /\ Up.status
    /\ NotUp.id = "MAIN_EVENT_ENABLED" /\ ~NotUp.status
    /\ Down.id = "MAIN_EVENT_DISABLED" /\ ~Down.status
    /\ NotDown.id = "MAIN_EVENT_DISABLED" /\ NotDown.status
  BY DEF Up, NotUp, Down, NotDown, Enabling, Disabling, Event

-----------------------------------------------------------------------------
(* How a step changes the GAP thread's queue.                                 *)

AsksKept ==
    /\ Nothing => Nothing'
    /\ AnEnable => AnEnable'
    /\ ADisable => ADisable'
    /\ EnableTwice => EnableTwice'
    /\ EnableDisable => EnableDisable'
    /\ DisableEnable => DisableEnable'

LEMMA SkippedIds == Noise \subseteq Skipped /\ Asking \subseteq Skipped /\ Noise \cap Asking = {} /\ Asking \subseteq GapIds
  BY DEF Skipped, Noise, Asking, GapIds

LEMMA PostsRest ==
    ASSUME gapQ \in Seq(GapEvents), Distinct(gapQ, Skipped), NEW e \in GapEvents, e.id \notin Asking,
           e.id \in Noise \/ e \notin Rest, ToGap(e)
    PROVE  /\ Distinct(gapQ', Skipped) /\ AsksKept
           /\ Rest' = Rest \cup (IF e.id \in Noise THEN {} ELSE {e})
           /\ \A a : e.id \in Noise /\ LastIs(gapQ, a) => LastIs(gapQ', a)
<1>1. gapQ' = Append(gapQ, e)
  BY DEF ToGap
<1>2. e.id \in Skipped <=> e.id \in Noise
  BY DEF Skipped
<1>3. Distinct(gapQ', Skipped) /\ Rest' = Rest \cup (IF e.id \in Noise THEN {} ELSE {e})
  BY <1>1, <1>2, KeptAppend DEF Rest
<1>4. AsksKept
  BY <1>1, AskAppend DEF AsksKept, Nothing, AnEnable, ADisable, EnableTwice, EnableDisable, DisableEnable
<1>5. \A a : e.id \in Noise /\ LastIs(gapQ, a) => LastIs(gapQ', a)
  BY <1>1, LastAppend
<1> QED
  BY <1>3, <1>4, <1>5

LEMMA TakesRest ==
    ASSUME gapQ \in Seq(GapEvents), Distinct(gapQ, Skipped), NEW id \in GapIds \ Skipped, Handling(id)
    PROVE  /\ Now \in Rest /\ Now.id = id /\ Now \in GapEvents
           /\ Consume => /\ Distinct(gapQ', Skipped) /\ AsksKept /\ Rest' = Rest \ {Now}
                         /\ \A a : LastIs(gapQ, a) => LastIs(gapQ', a) /\ (id = a => Rest' = {})
           /\ \A e \in GapEvents :
                 e.id \notin Skipped /\ e \notin Rest /\ ConsumeAndPost(<<e>>) =>
                     /\ Distinct(gapQ', Skipped) /\ AsksKept /\ Rest' = (Rest \ {Now}) \cup {e}
                     /\ \A a : (\A x \in Rest : x.id # a) /\ e.id = a => LastIs(gapQ', a)
<1> DEFINE rest == Tail(gapQ)
<1>1. gapQ # <<>> /\ Now = Head(gapQ) /\ Now.id = id /\ id \notin Asking /\ id \notin Skipped
  BY SkippedIds DEF Handling, Now
<1>2. rest \in Seq(GapEvents) /\ Now \in GapEvents
  BY <1>1, QueueTake
<1>3. Distinct(rest, Skipped) /\ Now \in Rest /\ Kept(rest, Skipped) = Rest \ {Now}
  BY <1>1, KeptTail DEF Rest
<1>4. /\ Nothing => AsksNone(rest)
      /\ AnEnable => AsksOne(rest, "GAP_API_ENABLE")
      /\ ADisable => AsksOne(rest, "GAP_API_DISABLE")
      /\ EnableTwice => AsksTwo(rest, "GAP_API_ENABLE", "GAP_API_ENABLE")
      /\ EnableDisable => AsksTwo(rest, "GAP_API_ENABLE", "GAP_API_DISABLE")
      /\ DisableEnable => AsksTwo(rest, "GAP_API_DISABLE", "GAP_API_ENABLE")
  <2>1. "GAP_API_ENABLE" \in Asking /\ "GAP_API_DISABLE" \in Asking
    BY DEF Asking
  <2> QED
    BY <1>1, <2>1, AskTail DEF Nothing, AnEnable, ADisable, EnableTwice, EnableDisable, DisableEnable
<1>5. \A a : LastIs(gapQ, a) => LastIs(rest, a) /\ (id = a => Kept(rest, Skipped) = {})
  BY <1>1, LastTail
<1>6. ASSUME Consume
      PROVE  /\ Distinct(gapQ', Skipped) /\ AsksKept /\ Rest' = Rest \ {Now}
             /\ \A a : LastIs(gapQ, a) => LastIs(gapQ', a) /\ (id = a => Rest' = {})
  <2>1. gapQ' = rest
    BY <1>1, <1>6, GapQueueTyped DEF Consume, ConsumeAndPost
  <2>2. AsksKept
    BY <1>4, <2>1 DEF AsksKept, Nothing, AnEnable, ADisable, EnableTwice, EnableDisable, DisableEnable
  <2> QED
    BY <1>3, <1>5, <2>1, <2>2 DEF Rest
<1>7. ASSUME NEW e \in GapEvents, e.id \notin Skipped, e \notin Rest, ConsumeAndPost(<<e>>)
      PROVE  /\ Distinct(gapQ', Skipped) /\ AsksKept /\ Rest' = (Rest \ {Now}) \cup {e}
             /\ \A a : (\A x \in Rest : x.id # a) /\ e.id = a => LastIs(gapQ', a)
  <2>1. gapQ' = Append(rest, e)
    BY <1>1, <1>7, GapQueueTyped DEF ConsumeAndPost
  <2>2. e.id \notin Asking
    BY <1>7, SkippedIds
  <2>3. AsksKept
    BY <1>2, <1>4, <2>1, <2>2, AskAppend
       DEF AsksKept, Nothing, AnEnable, ADisable, EnableTwice, EnableDisable, DisableEnable
  <2>4. Distinct(gapQ', Skipped) /\ Rest' = (Rest \ {Now}) \cup {e}
    <3>1. e \notin Kept(rest, Skipped)
      BY <1>3, <1>7
    <3>2. Distinct(Append(rest, e), Skipped) /\ Kept(Append(rest, e), Skipped) = Kept(rest, Skipped) \cup {e}
      BY <1>2, <1>3, <1>7, <3>1, KeptAppend
    <3> QED
      BY <1>3, <2>1, <3>2 DEF Rest
  <2>5. ASSUME NEW a, \A x \in Rest : x.id # a, e.id = a PROVE LastIs(gapQ', a)
    <3>1. \A x \in Kept(rest, Skipped) : x.id # a
      BY <1>3, <2>5
    <3> QED
      BY <1>2, <1>7, <2>1, <2>5, <3>1, LastAppend
  <2> QED
    BY <2>3, <2>4, <2>5
<1> QED
  BY <1>1, <1>2, <1>3, <1>6, <1>7

LEMMA TakesAsk ==
    ASSUME gapQ \in Seq(GapEvents), Distinct(gapQ, Skipped), NEW id \in Asking, Handling(id), Consume
    PROVE  /\ Distinct(gapQ', Skipped) /\ Rest' = Rest /\ ~Nothing
           /\ id = "GAP_API_ENABLE" =>
                 /\ ~ADisable /\ ~DisableEnable
                 /\ AnEnable => Nothing'
                 /\ EnableTwice => AnEnable'
                 /\ EnableDisable => ADisable'
           /\ id = "GAP_API_DISABLE" =>
                 /\ ~AnEnable /\ ~EnableTwice /\ ~EnableDisable
                 /\ ADisable => Nothing'
                 /\ DisableEnable => AnEnable'
<1> DEFINE rest == Tail(gapQ)
<1>1. gapQ # <<>> /\ Head(gapQ).id = id /\ id \in Skipped /\ gapQ' = rest
  BY SkippedIds, GapQueueTyped DEF Handling, Consume, ConsumeAndPost
<1>2. Distinct(gapQ', Skipped) /\ Rest' = Rest
  BY <1>1, KeptTail DEF Rest
<1>3. /\ ~AsksNone(gapQ)
      /\ \A a, b \in Asking : /\ AsksOne(gapQ, a) => id = a /\ AsksNone(gapQ')
                              /\ AsksTwo(gapQ, a, b) => id = a /\ AsksOne(gapQ', b)
  BY <1>1, AskTail
<1>4. "GAP_API_ENABLE" \in Asking /\ "GAP_API_DISABLE" \in Asking
  BY DEF Asking
<1> QED
  BY <1>2, <1>3, <1>4 DEF Nothing, AnEnable, ADisable, EnableTwice, EnableDisable, DisableEnable

LEMMA PostsAsk ==
    ASSUME gapQ \in Seq(GapEvents), Distinct(gapQ, Skipped), NEW id \in Asking, ToGap(Msg(id))
    PROVE  /\ Distinct(gapQ', Skipped) /\ Rest' = Rest
           /\ id = "GAP_API_ENABLE" =>
                 /\ Nothing => AnEnable'
                 /\ AnEnable => EnableTwice'
                 /\ ADisable => DisableEnable'
           /\ id = "GAP_API_DISABLE" =>
                 /\ Nothing => ADisable'
                 /\ AnEnable => EnableDisable'
<1>1. Msg(id) \in GapEvents /\ Msg(id).id = id /\ id \in Skipped /\ gapQ' = Append(gapQ, Msg(id))
  BY SkippedIds, MessageTypes DEF ToGap
<1>2. Distinct(gapQ', Skipped) /\ Rest' = Rest
  <2>1. Distinct(gapQ', Skipped) /\ Kept(gapQ', Skipped) = Kept(gapQ, Skipped) \cup {}
    <3> DEFINE e == Msg(id)
    <3>1. e \in GapEvents /\ e.id \in Skipped /\ gapQ' = Append(gapQ, e)
      BY <1>1
    <3> HIDE DEF e
    <3>2. Distinct(Append(gapQ, e), Skipped)
      BY <3>1, KeptAppend
    <3>3. Kept(Append(gapQ, e), Skipped) = Kept(gapQ, Skipped) \cup {}
      BY <3>1, KeptAppend
    <3> QED
      BY <3>1, <3>2, <3>3
  <2> QED
    BY <2>1 DEF Rest
<1>3. /\ AsksNone(gapQ) => AsksOne(gapQ', id)
      /\ \A a : AsksOne(gapQ, a) => AsksTwo(gapQ', a, id)
  BY <1>1, AskAppend
<1> QED
  BY <1>2, <1>3 DEF Nothing, AnEnable, ADisable, EnableTwice, EnableDisable, DisableEnable

-----------------------------------------------------------------------------
(* What the main thread has asked and been told, through a step.              *)

LEMMA SameFlags ==
    /\ UNCHANGED <<enableCmd, disableCmd, btState>> =>
          UNCHANGED <<EnableCommand, DisableCommand, Idle, IdleOff, IdleOn>>
    /\ EnableCommand => ~DisableCommand /\ ~Idle
    /\ DisableCommand => ~Idle
    /\ IdleOff => Idle /\ btState = "OFF"
    /\ IdleOn => Idle /\ btState = "ON"
    /\ ~(IdleOff /\ IdleOn)
  BY DEF EnableCommand, DisableCommand, Idle, IdleOff, IdleOn

(* The adapter stays as it is, and so does what its phase needs.               *)
MainKept ==
    /\ state = "OFF" => (OffMain => OffMain') /\ (StrictOff => StrictOff')
    /\ state \in {"ON", "TURNING_ON"} => (OnMain => OnMain') /\ (StrictOn => StrictOn')
    /\ state = "ON" => /\ OnMainAll => OnMainAll'
                       /\ DisMain => DisMain'
                       /\ Refused => Refused' \/ OnMain'
    /\ state = "TURNING_OFF" => (GoingMain => GoingMain')

LEMMA MainSame ==
    ASSUME AsksKept, UNCHANGED <<mainQ, enableCmd, disableCmd, btState>>
    PROVE  /\ OffMain => OffMain'
           /\ StrictOff => StrictOff'
           /\ OnMain => OnMain'
           /\ StrictOn => StrictOn'
           /\ OnMainAll => OnMainAll'
           /\ (AllStarted => AllStarted') => (DisMain => DisMain')
           /\ Refused => Refused'
           /\ GoingMain => GoingMain'
<1>1. UNCHANGED <<EnableCommand, DisableCommand, Idle, IdleOff, IdleOn, mainQ>>
  BY SameFlags
<1> USE DEF AsksKept
<1>2. OffMain => OffMain'
  BY <1>1 DEF OffMain
<1>3. StrictOff => StrictOff'
  BY <1>1 DEF StrictOff
<1>4. OnMain => OnMain'
  BY <1>1 DEF OnMain
<1>5. OnMainAll => OnMainAll'
  BY <1>1 DEF OnMainAll
<1>6. /\ StrictOn => StrictOn'
      /\ (AllStarted => AllStarted') => (DisMain => DisMain')
      /\ Refused => Refused'
      /\ GoingMain => GoingMain'
  BY <1>1 DEF StrictOn, DisMain, Refused, GoingMain
<1> QED
  BY <1>2, <1>3, <1>4, <1>5, <1>6

LEMMA MainSameKept ==
    ASSUME AsksKept, UNCHANGED <<mainQ, enableCmd, disableCmd, btState>>, AllStarted => AllStarted'
    PROVE  MainKept
  BY MainSame DEF MainKept

(* The main thread takes the next answer.                                     *)
LEMMA AnswerRead ==
    ASSUME MainHandles
    PROVE  /\ mainQ # <<>>
           /\ \A b : mainQ = One(b) => mainQ' = <<>>
           /\ \A a, b : mainQ = Two(a, b) => mainQ' = One(b)
           /\ \A b : mainQ \in {One(Up), Two(Up, b)} =>
                 /\ EnableCommand \/ Idle => IdleOn'
                 /\ DisableCommand => DisableCommand'
           /\ \A b : mainQ \in {One(NotUp), Two(NotUp, b)} /\ (EnableCommand \/ Idle) => IdleOff'
           /\ \A b : mainQ \in {One(Down), Two(Down, b)} =>
                 /\ EnableCommand => EnableCommand'
                 /\ DisableCommand \/ Idle => IdleOff'
           /\ mainQ = One(NotDown) /\ DisableCommand => IdleOn'
<1>1. mainQ # <<>> /\ mainQ' = Tail(mainQ)
  BY DEF MainHandles
<1>2. /\ \A b : mainQ = One(b) => mainQ' = <<>>
      /\ \A a, b : mainQ = Two(a, b) => mainQ' = One(b)
  <2>1. ASSUME NEW b, mainQ = One(b) PROVE mainQ' = <<>>
    <3>1. Tail(One(b)) = <<>>
      BY ShortQueues
    <3> QED
      BY <1>1, <2>1, <3>1
  <2>2. ASSUME NEW a, NEW b, mainQ = Two(a, b) PROVE mainQ' = One(b)
    <3>1. Tail(Two(a, b)) = One(b)
      BY ShortQueues
    <3> QED
      BY <1>1, <2>2, <3>1
  <2> QED
    BY <2>1, <2>2
<1> USE DEF EnableCommand, DisableCommand, Idle, IdleOn, IdleOff
<1>4. ASSUME NEW b, mainQ \in {One(Up), Two(Up, b)}
      PROVE  /\ EnableCommand \/ Idle => IdleOn'
             /\ DisableCommand => DisableCommand'
  <2>1. Head(mainQ) = Up
    BY <1>4, ShortQueues
  <2>2. btState' = "ON" /\ ~enableCmd' /\ UNCHANGED disableCmd
    BY <2>1, ShortAnswers DEF MainHandles
  <2> QED
    BY <2>2
<1>5. ASSUME NEW b, mainQ \in {One(NotUp), Two(NotUp, b)}
      PROVE  EnableCommand \/ Idle => IdleOff'
  <2>1. Head(mainQ) = NotUp
    BY <1>5, ShortQueues
  <2>2. btState' = "OFF" /\ ~enableCmd' /\ UNCHANGED disableCmd
    BY <2>1, ShortAnswers DEF MainHandles
  <2> QED
    BY <2>2
<1>6. ASSUME NEW b, mainQ \in {One(Down), Two(Down, b)}
      PROVE  /\ EnableCommand => EnableCommand'
             /\ DisableCommand \/ Idle => IdleOff'
  <2>1. Head(mainQ) = Down
    BY <1>6, ShortQueues
  <2>2. btState' = "OFF" /\ ~disableCmd' /\ UNCHANGED enableCmd
    BY <2>1, ShortAnswers DEF MainHandles
  <2> QED
    BY <2>2
<1>7. ASSUME mainQ = One(NotDown), DisableCommand PROVE IdleOn'
  <2>1. Head(mainQ) = NotDown
    BY <1>7, ShortQueues
  <2> QED
    BY <1>7, <2>1, ShortAnswers DEF MainHandles
<1> QED
  BY <1>1, <1>2, <1>4, <1>5, <1>6, <1>7

LEMMA MainReads ==
    ASSUME Alive, MainHandles
    PROVE  MainKept
<1>1. UNCHANGED <<config, gapQ, startStatus>>
  BY DEF Alive, MainHandles, gapVars
<1>2. UNCHANGED <<Nothing, AnEnable, ADisable, EnableTwice, EnableDisable, DisableEnable, AllStarted>>
  BY <1>1 DEF Nothing, AnEnable, ADisable, EnableTwice, EnableDisable, DisableEnable, AllStarted, Enabled
<1>3. IdleOff => Idle
  BY SameFlags
<1>4. IdleOn => Idle
  BY SameFlags
<1>5. IdleOn' \/ IdleOff' => Idle'
  BY DEF IdleOn, IdleOff, Idle
<1>6. OffMain => OffMain'
  BY <1>2, <1>3, <1>4, AnswerRead DEF OffMain
<1>7. StrictOff => StrictOff'
  BY <1>2, <1>3, AnswerRead DEF StrictOff
<1>8. OnMain => OnMain'
  BY <1>2, <1>5, AnswerRead DEF OnMain
<1>9. OnMainAll => OnMainAll'
  BY <1>2, <1>4, <1>5, AnswerRead DEF OnMainAll
<1>10. DisMain => DisMain'
  BY <1>2, AnswerRead DEF DisMain
<1>11. Refused => OnMain'
  BY <1>2, <1>5, AnswerRead DEF Refused, OnMain
<1>12. (GoingMain => GoingMain') /\ ~StrictOn
  BY <1>2, AnswerRead DEF GoingMain, StrictOn
<1> QED
  BY <1>6, <1>7, <1>8, <1>9, <1>10, <1>11, <1>12 DEF MainKept

LEMMA EnableAdds ==
    ASSUME gapQ \in Seq(GapEvents), Distinct(gapQ, Skipped), Alive, SendEnableCmdToGap
    PROVE  MainKept /\ Distinct(gapQ', Skipped) /\ Rest' = Rest /\ ~DisMain
<1>1. IdleOff /\ EnableCommand' /\ mainQ' = mainQ
  BY DEF SendEnableCmdToGap, IdleOff, EnableCommand, Idle
<1>2. ToGap(Msg("GAP_API_ENABLE")) /\ "GAP_API_ENABLE" \in Asking
  BY DEF SendEnableCmdToGap, ToGap, Asking
<1>3. /\ Distinct(gapQ', Skipped) /\ Rest' = Rest
      /\ Nothing => AnEnable'
      /\ AnEnable => EnableTwice'
      /\ ADisable => DisableEnable'
  BY <1>2, PostsAsk
<1>4. ~EnableCommand /\ ~DisableCommand /\ ~IdleOn
  BY <1>1, SameFlags
<1>5. OffMain => OffMain'
  BY <1>1, <1>3, <1>4 DEF OffMain
<1>6. StrictOff => StrictOff'
  BY <1>1, <1>3, <1>4 DEF StrictOff
<1>7. OnMain => OnMain'
  BY <1>1, <1>3, <1>4 DEF OnMain
<1>8. OnMainAll => OnMainAll'
  BY <1>1, <1>3, <1>4 DEF OnMainAll
<1>9. ~StrictOn /\ ~DisMain /\ ~Refused /\ ~GoingMain
  BY <1>4 DEF StrictOn, DisMain, Refused, GoingMain
<1> QED
  BY <1>3, <1>5, <1>6, <1>7, <1>8, <1>9 DEF MainKept

LEMMA DisableAdds ==
    ASSUME gapQ \in Seq(GapEvents), Distinct(gapQ, Skipped), Alive, SendDisableCmdToGap
    PROVE  MainKept /\ Distinct(gapQ', Skipped) /\ Rest' = Rest /\ ~DisMain
<1>1. IdleOn /\ Idle /\ DisableCommand' /\ mainQ' = mainQ
  BY DEF SendDisableCmdToGap, IdleOn, DisableCommand, Idle
<1>2. ToGap(Msg("GAP_API_DISABLE")) /\ "GAP_API_DISABLE" \in Asking
  BY DEF SendDisableCmdToGap, ToGap, Asking
<1>3. /\ Distinct(gapQ', Skipped) /\ Rest' = Rest
      /\ Nothing => ADisable'
      /\ AnEnable => EnableDisable'
  BY <1>2, PostsAsk
<1>4. ~EnableCommand /\ ~DisableCommand /\ ~IdleOff
  BY <1>1, SameFlags
<1>5. OffMain => OffMain'
  BY <1>1, <1>3, <1>4 DEF OffMain
<1>6. ~StrictOff
  BY <1>4 DEF StrictOff
<1>7. OnMain => OnMain'
  BY <1>1, <1>3, <1>4 DEF OnMain
<1>8. OnMainAll => OnMainAll'
  BY <1>1, <1>3, <1>4 DEF OnMainAll
<1>9. ~StrictOn /\ ~DisMain /\ ~Refused /\ ~GoingMain
  BY <1>4 DEF StrictOn, DisMain, Refused, GoingMain
<1> QED
  BY <1>3, <1>5, <1>6, <1>7, <1>8, <1>9 DEF MainKept

(* A command is answered at once.                                            *)
LEMMA Told ==
    /\ \A on : TellMain("MAIN_EVENT_ENABLED", on) => mainQ' = Append(mainQ, Enabling(on))
    /\ \A on : TellMain("MAIN_EVENT_DISABLED", on) => mainQ' = Append(mainQ, Disabling(on))
    /\ \A e : /\ mainQ = <<>> => Append(mainQ, e) = One(e)
              /\ \A a : mainQ = One(a) => Append(mainQ, e) = Two(a, e)
<1>1. \A e : /\ mainQ = <<>> => Append(mainQ, e) = One(e)
             /\ \A a : mainQ = One(a) => Append(mainQ, e) = Two(a, e)
  BY ShortQueues
<1> QED
  BY <1>1 DEF TellMain, Enabling, Disabling

LEMMA AskHandled ==
    ASSUME gapQ \in Seq(GapEvents), Distinct(gapQ, Skipped), Alive, IgnoreEnable \/ IgnoreDisable \/ HandleEnable
    PROVE  /\ UNCHANGED <<EnableCommand, DisableCommand, Idle, IdleOff, IdleOn>>
           /\ Distinct(gapQ', Skipped) /\ Rest' = Rest /\ ~Nothing
           /\ IgnoreEnable \/ HandleEnable =>
                 /\ ~ADisable /\ ~DisableEnable
                 /\ AnEnable => Nothing'
                 /\ EnableTwice => AnEnable'
                 /\ EnableDisable => ADisable'
           /\ IgnoreDisable =>
                 /\ ~AnEnable /\ ~EnableTwice /\ ~EnableDisable
                 /\ ADisable => Nothing'
                 /\ DisableEnable => AnEnable'
<1>1. UNCHANGED <<EnableCommand, DisableCommand, Idle, IdleOff, IdleOn>>
  BY SameFlags DEF IgnoreEnable, IgnoreDisable, HandleEnable, mainVars
<1>2. Consume /\ "GAP_API_ENABLE" \in Asking /\ "GAP_API_DISABLE" \in Asking
  BY DEF IgnoreEnable, IgnoreDisable, HandleEnable, Asking
<1>3. CASE IgnoreEnable \/ HandleEnable
  <2>1. Handling("GAP_API_ENABLE") /\ ~Handling("GAP_API_DISABLE")
    BY <1>3 DEF IgnoreEnable, HandleEnable, Handling
  <2> QED
    BY <1>1, <1>2, <2>1, TakesAsk DEF IgnoreDisable
<1>4. CASE IgnoreDisable
  <2>1. Handling("GAP_API_DISABLE") /\ ~Handling("GAP_API_ENABLE")
    BY <1>4 DEF IgnoreDisable, Handling
  <2> QED
    BY <1>1, <1>2, <2>1, TakesAsk DEF IgnoreEnable, HandleEnable
<1> QED
  BY <1>3, <1>4

LEMMA EnableIgnored ==
    ASSUME gapQ \in Seq(GapEvents), Distinct(gapQ, Skipped), Alive, IgnoreEnable
    PROVE  MainKept /\ ~DisMain
<1>1. mainQ' = Append(mainQ, Up) /\ state # "OFF"
  BY Told DEF IgnoreEnable, Up
<1>2. OnMain => OnMain'
  BY <1>1, AskHandled, Told DEF OnMain
<1>3. OnMainAll => OnMainAll'
  BY <1>1, AskHandled, Told, SameFlags DEF OnMainAll
<1>4. ~StrictOn /\ ~DisMain /\ ~Refused /\ ~GoingMain
  BY AskHandled DEF StrictOn, DisMain, Refused, GoingMain
<1> QED
  BY <1>1, <1>2, <1>3, <1>4 DEF MainKept

LEMMA DisableIgnored ==
    ASSUME gapQ \in Seq(GapEvents), Distinct(gapQ, Skipped), Alive, IgnoreDisable
    PROVE  MainKept /\ ~DisMain
<1>1. mainQ' = Append(mainQ, Down) /\ state # "ON"
  BY Told DEF IgnoreDisable, Down
<1>2. OnMain => OnMain'
  BY <1>1, AskHandled, Told DEF OnMain
<1>3. OffMain => OffMain'
  BY <1>1, AskHandled, Told DEF OffMain
<1>4. ~StrictOff
  BY AskHandled DEF StrictOff
<1>5. ~StrictOn /\ ~DisMain /\ ~Refused /\ ~GoingMain
  BY AskHandled DEF StrictOn, DisMain, Refused, GoingMain
<1> QED
  BY <1>1, <1>2, <1>3, <1>4, <1>5 DEF MainKept

LEMMA EnableTaken ==
    ASSUME gapQ \in Seq(GapEvents), Distinct(gapQ, Skipped), Alive, HandleEnable
    PROVE  \/ /\ stack' = "enabling" /\ state' = "TURNING_ON"
              /\ OffMain => OnMain'
              /\ StrictOff => StrictOn'
           \/ UNCHANGED <<stack, state>> /\ MainKept
<1>1. CASE UNCHANGED mainQ /\ stack' = "enabling" /\ state' = "TURNING_ON"
  <2>1. OffMain => OnMain'
    BY <1>1, AskHandled, SameFlags DEF OffMain, OnMain
  <2>2. StrictOff => StrictOn'
    BY <1>1, AskHandled, SameFlags DEF StrictOff, StrictOn
  <2> QED
    BY <1>1, <2>1, <2>2
<1>2. CASE TellMain("MAIN_EVENT_ENABLED", FALSE) /\ UNCHANGED <<stack, state>>
  <2>1. mainQ' = Append(mainQ, NotUp) /\ state = "OFF"
    BY <1>2, Told DEF HandleEnable, NotUp
  <2>2. OffMain => OffMain'
    BY <2>1, AskHandled, Told DEF OffMain
  <2>3. StrictOff => StrictOff'
    BY <2>1, AskHandled, Told DEF StrictOff
  <2> QED
    BY <1>2, <2>1, <2>2, <2>3 DEF MainKept
<1> QED
  BY <1>1, <1>2 DEF HandleEnable

(* A disable begins when the adapter is on.                                   *)
LEMMA DisableTaken ==
    ASSUME gapQ \in Seq(GapEvents), Distinct(gapQ, Skipped), Alive, Handling("GAP_API_DISABLE"), Consume,
           UNCHANGED <<mainVars, mainQ, startStatus>>
    PROVE  /\ Distinct(gapQ', Skipped) /\ Rest' = Rest /\ ~Nothing
           /\ CalmMain => DisMain'
<1>1. UNCHANGED <<EnableCommand, DisableCommand, Idle, IdleOff, IdleOn>> /\ mainQ' = mainQ
  BY SameFlags DEF mainVars
<1>2. UNCHANGED AllStarted
  BY DEF Alive, AllStarted, Enabled
<1>3. "GAP_API_DISABLE" \in Asking
  BY DEF Asking
<1>4. /\ Distinct(gapQ', Skipped) /\ Rest' = Rest /\ ~Nothing
      /\ ~AnEnable /\ ~EnableTwice /\ ~EnableDisable
      /\ ADisable => Nothing'
  BY <1>3, TakesAsk
<1>5. OnMain => DisMain'
  BY <1>1, <1>4 DEF OnMain, DisMain
<1>6. AllStarted /\ OnMainAll => DisMain'
  BY <1>1, <1>2, <1>4 DEF OnMainAll, DisMain
<1>7. ~Refused
  BY <1>4 DEF Refused
<1> QED
  BY <1>4, <1>5, <1>6, <1>7 DEF CalmMain

(* The adapter is off again, the profiles have started, a disable is refused. *)
LEMMA ToldDown ==
    ASSUME AsksKept, UNCHANGED <<enableCmd, disableCmd, btState>>, btState \in {"OFF", "ON"},
           TellMain("MAIN_EVENT_DISABLED", FALSE)
    PROVE  /\ OnMain => OffMain'
           /\ StrictOn \/ GoingMain => StrictOff'
<1>1. UNCHANGED <<EnableCommand, DisableCommand, Idle, IdleOff, IdleOn>> /\ mainQ' = Append(mainQ, Down)
  BY SameFlags, Told DEF Down
<1>2. Idle => IdleOff \/ IdleOn
  BY DEF IdleOff, IdleOn
<1> USE DEF AsksKept
<1>3. OnMain => OffMain'
  BY <1>1, <1>2, Told DEF OnMain, OffMain
<1>4. StrictOn \/ GoingMain => StrictOff'
  BY <1>1, Told DEF StrictOn, GoingMain, StrictOff
<1> QED
  BY <1>3, <1>4

LEMMA ToldUp ==
    ASSUME AsksKept, UNCHANGED <<enableCmd, disableCmd, btState>>, TellMain("MAIN_EVENT_ENABLED", TRUE)
    PROVE  /\ OnMain => OnMainAll'
           /\ DisMain /\ ~AllStarted /\ AllStarted' => DisMain'
<1>1. UNCHANGED <<EnableCommand, DisableCommand, Idle, IdleOff, IdleOn>> /\ mainQ' = Append(mainQ, Up)
  BY SameFlags, Told DEF Up
<1> USE DEF AsksKept
<1>2. OnMain => OnMainAll'
  BY <1>1, Told DEF OnMain, OnMainAll
<1>3. DisMain /\ ~AllStarted /\ AllStarted' => DisMain'
  BY <1>1, Told DEF DisMain
<1> QED
  BY <1>2, <1>3

LEMMA ToldNotDown ==
    ASSUME AsksKept, UNCHANGED <<enableCmd, disableCmd, btState>>, AllStarted' = AllStarted, DisMain,
           TellMain("MAIN_EVENT_DISABLED", TRUE)
    PROVE  (AllStarted' /\ OnMainAll') \/ (~AllStarted' /\ Refused')
<1>1. UNCHANGED <<EnableCommand, DisableCommand, Idle, IdleOff, IdleOn>> /\ mainQ' = Append(mainQ, NotDown)
  BY SameFlags, Told DEF NotDown
<1>2. Nothing' /\ DisableCommand'
  BY <1>1 DEF AsksKept, DisMain
<1>3. CASE mainQ = <<>>
  BY <1>1, <1>2, <1>3, Told DEF OnMainAll, Refused
<1>4. CASE AllStarted /\ mainQ = One(Up)
  BY <1>1, <1>2, <1>4, Told DEF OnMainAll
<1> QED
  BY <1>3, <1>4 DEF DisMain

-----------------------------------------------------------------------------
(* A step that leaves the adapter and the profiles alone.                     *)

LEMMA SameSets ==
    ASSUME UNCHANGED config
    PROVE  UNCHANGED <<Enabled, Others, StartMsgs, StopMsgs, StartAll, SinkDone, ManagerDone>>
<1>1. UNCHANGED <<Enabled, Others>>
  BY DEF Enabled, Others
<1>2. UNCHANGED <<StartAll, SinkDone, ManagerDone>>
  BY DEF StartAll, SinkDone, ManagerDone
<1>3. UNCHANGED StartMsgs
  BY <1>1, <1>2 DEF StartMsgs
<1>4. UNCHANGED StopMsgs
  BY <1>1 DEF StopMsgs
<1> QED
  BY <1>1, <1>2, <1>3, <1>4

LEMMA PlacesSame ==
    ASSUME UNCHANGED <<config, startStatus, stopStatus, profile, inbox>>, Rest' = Rest
    PROVE  /\ UNCHANGED <<Low, Empty, AllStarted, NoneStarted, Steady, SinkCleaning, SinkCleaned, StopsRun, ManagerAsked>>
           /\ \A p : Begun(p) => Begun(p)'
           /\ LastIs(gapQ', "BT_AM_DISABLE_DONE") => (ManagerOff => ManagerOff')
<1>1. UNCHANGED <<Enabled, Others, StartMsgs, StopMsgs, StartAll, SinkDone, ManagerDone>>
  BY SameSets
<1>2. UNCHANGED <<Low, Empty, AllStarted, NoneStarted, OthersDown>>
  BY <1>1 DEF Low, Empty, AllIdle, AllStarted, NoneStarted, OthersDown
<1>3. \A p : /\ StartAnswered(p) <=> StartAnswered(p)'
             /\ StopAnswered(p) <=> StopAnswered(p)'
             /\ StartPending(p) <=> StartPending(p)'
             /\ StopAsked(p) <=> StopAsked(p)'
             /\ Plain(p) <=> Plain(p)'
  BY DEF StartAnswered, StopAnswered, StartPending, StopAsked, Plain
<1>4. \A p : Begun(p) <=> Begun(p)'
  BY <1>1, <1>3 DEF Begun
<1>5. UNCHANGED Steady
  BY <1>1, <1>3 DEF Steady
<1>6. UNCHANGED <<SinkCleaning, SinkCleaned>>
  BY <1>1, <1>3, <1>5 DEF SinkCleaning, SinkCleaned
<1>7. \A p : StoppingOf(p) <=> StoppingOf(p)'
  BY <1>3 DEF StoppingOf
<1>8. UNCHANGED StopsRun
  BY <1>1, <1>3, <1>7 DEF StopsRun
<1>9. UNCHANGED ManagerAsked
  BY <1>1, <1>2, <1>3 DEF ManagerAsked
<1>10. LastIs(gapQ', "BT_AM_DISABLE_DONE") /\ ManagerOff => ManagerOff'
  BY <1>1, <1>2 DEF ManagerOff
<1> QED
  BY <1>2, <1>4, <1>5, <1>6, <1>8, <1>9, <1>10 DEF ManagerOff

LEMMA PhasesSame ==
    ASSUME TwoCommands, UNCHANGED <<config, gapVars, profile, inbox>>, stack' = stack \/ stack' = "lost",
           Distinct(gapQ', Skipped), Rest' = Rest, MainKept,
           DisMain => \A a : LastIs(gapQ, a) => LastIs(gapQ', a)
    PROVE  TwoCommands'
<1>1. UNCHANGED <<state, startStatus, stopStatus>> /\ UNCHANGED <<Enabled, StartMsgs, StartAll>>
  BY SameSets DEF gapVars
<1>2. /\ UNCHANGED <<Low, Empty, AllStarted, NoneStarted, Steady, SinkCleaning, SinkCleaned, StopsRun, ManagerAsked>>
      /\ \A p : Begun(p) => Begun(p)'
      /\ DisMain => (ManagerOff => ManagerOff')
  BY <1>1, PlacesSame DEF ManagerOff
<1>3. Still => Still'
  BY DEF Still
<1>4. \A on : AdapterIs(on)' = AdapterIs(on)
  BY DEF AdapterIs
<1>5. ASSUME OnPhase PROVE OnPhase'
  <2>1. state = "ON" /\ Still /\ (\A p \in Enabled : Begun(p)) /\ (StartAll \in Rest => NoneStarted)
    BY <1>5 DEF OnPhase
  <2>2. state' = "ON" /\ Still' /\ (\A p \in Enabled' : Begun(p)') /\ (StartAll' \in Rest' => NoneStarted')
    BY <1>1, <1>2, <1>3, <2>1
  <2>3. CASE NoDisable
    <3>1. CalmMain'
      BY <1>2, <2>1, <2>3 DEF NoDisable, CalmMain, MainKept
    <3> QED
      BY <1>1, <1>2, <2>2, <2>3, <3>1 DEF OnPhase, NoDisable
  <2>4. CASE DisMain /\ (SinkCleaning \/ SinkCleaned \/ StopsRun \/ ManagerAsked \/ ManagerOff)
    <3>1. DisMain'
      BY <2>1, <2>4 DEF MainKept
    <3> QED
      BY <1>2, <2>2, <2>4, <3>1 DEF OnPhase
  <2> QED
    BY <1>5, <2>3, <2>4 DEF OnPhase
<1>6. ASSUME StartAgain PROVE StartAgain'
  BY <1>1, <1>2, <1>3, <1>6 DEF StartAgain, MainKept
<1>7. ASSUME ComingPhase PROVE ComingPhase'
  <2>1. \/ stack' \in {"enabling", "lost"} /\ Rest' = {}
        \/ Still' /\ \E on \in BOOLEAN : Rest' = {AdapterIs(on)}
    BY <1>3, <1>7 DEF ComingPhase
  <2> QED
    BY <1>1, <1>2, <1>4, <1>7, <2>1 DEF ComingPhase, MainKept
<1>8. ASSUME OffPhase PROVE OffPhase'
  BY <1>1, <1>2, <1>3, <1>8 DEF OffPhase, MainKept
<1>9. ASSUME GoingPhase PROVE GoingPhase'
  <2>1. \/ stack' \in {"disabling", "lost"} /\ Rest' = {}
        \/ Still' /\ Rest' = {AdapterIs(FALSE)}
    BY <1>3, <1>9 DEF GoingPhase
  <2> QED
    BY <1>1, <1>2, <1>4, <1>9, <2>1 DEF GoingPhase, MainKept
<1> QED
  BY <1>5, <1>6, <1>7, <1>8, <1>9 DEF TwoCommands

-----------------------------------------------------------------------------
(* Where the protocol is.                                                    *)

LEMMA RestKinds ==
    /\ StartAll \in GapEvents /\ StartAll.id = "PROFILE_API_START" /\ StartAll \in StartMsgs
    /\ SinkDone \in GapEvents /\ SinkDone.id = "A2DP_SINK_CLEANUP_DONE"
    /\ ManagerDone \in GapEvents /\ ManagerDone.id = "BT_AM_DISABLE_DONE"
    /\ \A on \in BOOLEAN : /\ AdapterIs(on) \in GapEvents /\ AdapterIs(on).id = "GAP_EVENT_ADAPTER_STATE"
                           /\ AdapterIs(on).status = on
    /\ \A p \in Enabled, ok \in BOOLEAN :
          /\ StartIs(p, ok) \in GapEvents /\ StartIs(p, ok).id = "PROFILE_EVENT_START_DONE"
          /\ StartIs(p, ok) \in StartMsgs
    /\ \A p \in Others, ok \in BOOLEAN :
          /\ StopIs(p, ok) \in GapEvents /\ StopIs(p, ok).id = "PROFILE_EVENT_STOP_DONE"
          /\ StopIs(p, ok) \in StopMsgs
    /\ \A e \in StartMsgs : \/ e = StartAll
                            \/ \E p \in Enabled, ok \in BOOLEAN : e = StartIs(p, ok)
    /\ \A e \in StopMsgs : \E p \in Others, ok \in BOOLEAN : e = StopIs(p, ok)
<1>1. Others \subseteq Enabled
  BY DEF Others
<1>2. {"PROFILE_API_START", "A2DP_SINK_CLEANUP_DONE", "BT_AM_DISABLE_DONE"} \subseteq GapIds
  BY DEF GapIds
<1> QED
  BY <1>1, <1>2, MessageTypes DEF StartAll, SinkDone, ManagerDone, StartMsgs, StopMsgs

(* Messages that say different things are different.                          *)
LEMMA MessagesApart ==
    /\ \A p, q, ok, on : StartIs(p, ok) = StartIs(q, on) => p = q /\ (ok <=> on)
    /\ \A p, q, ok, on : StopIs(p, ok) = StopIs(q, on) => p = q /\ (ok <=> on)
    /\ \A p, ok : StartIs(p, ok).id = "PROFILE_EVENT_START_DONE" /\ StopIs(p, ok).id = "PROFILE_EVENT_STOP_DONE"
    /\ \A p, ok : StartIs(p, ok).from = p /\ StopIs(p, ok).from = p
    /\ \A p, ok : StartIs(p, ok).status = ok /\ StopIs(p, ok).status = ok
  BY DEF StartIs, StopIs, Event

LEMMA PhaseOfRest ==
    ASSUME TwoCommands, NEW e \in Rest
    PROVE  /\ e.id = "GAP_EVENT_ADAPTER_STATE" =>
                 /\ ComingPhase \/ GoingPhase
                 /\ Still /\ Rest = {e} /\ (GoingPhase => ~e.status)
           /\ e.id = "PROFILE_API_START" => e = StartAll /\ (OnPhase \/ StartAgain)
           /\ e.id = "PROFILE_EVENT_START_DONE" =>
                 OnPhase /\ \E p \in Enabled, ok \in BOOLEAN : e = StartIs(p, ok)
           /\ e.id = "PROFILE_EVENT_STOP_DONE" =>
                 OnPhase /\ DisMain /\ StopsRun /\ \E p \in Others, ok \in BOOLEAN : e = StopIs(p, ok)
           /\ e.id = "A2DP_SINK_CLEANUP_DONE" => e = SinkDone /\ OnPhase /\ DisMain /\ SinkCleaned
           /\ e.id = "BT_AM_DISABLE_DONE" => e = ManagerDone /\ OnPhase /\ DisMain /\ ManagerOff
<1>1. CASE OnPhase
  <2>1. \/ e \in StartMsgs
        \/ e \in StopMsgs /\ DisMain /\ StopsRun
        \/ e = SinkDone /\ DisMain /\ SinkCleaned
        \/ e = ManagerDone /\ DisMain /\ ManagerOff
    BY <1>1 DEF OnPhase, NoDisable, SinkCleaning, SinkCleaned, StopsRun, ManagerAsked, ManagerOff
  <2>2. CASE e \in StartMsgs
    BY <1>1, <2>2, RestKinds
  <2>3. CASE e \in StopMsgs /\ DisMain /\ StopsRun
    BY <1>1, <2>3, RestKinds
  <2> QED
    BY <1>1, <2>1, <2>2, <2>3, RestKinds
<1>2. CASE StartAgain
  BY <1>2, RestKinds DEF StartAgain
<1>3. CASE ComingPhase
  <2>1. Still /\ \E on \in BOOLEAN : Rest = {AdapterIs(on)}
    BY <1>3 DEF ComingPhase
  <2>2. e.id = "GAP_EVENT_ADAPTER_STATE" /\ Rest = {e} /\ ~GoingPhase
    BY <1>3, <2>1, RestKinds DEF ComingPhase, GoingPhase
  <2> QED
    BY <1>3, <2>1, <2>2
<1>4. CASE OffPhase
  BY <1>4 DEF OffPhase
<1>5. CASE GoingPhase
  <2>1. Still /\ e = AdapterIs(FALSE) /\ Rest = {e}
    BY <1>5 DEF GoingPhase
  <2> QED
    BY <1>5, <2>1, RestKinds
<1> QED
  BY <1>1, <1>2, <1>3, <1>4, <1>5 DEF TwoCommands

-----------------------------------------------------------------------------
(* The main thread, the alarms, and commands that are answered at once.        *)

LEMMA NothingChanges ==
    ASSUME Distinct(gapQ, Skipped), UNCHANGED gapQ
    PROVE  AsksKept /\ Distinct(gapQ', Skipped) /\ Rest' = Rest /\ \A a : LastIs(gapQ, a) => LastIs(gapQ', a)
  BY DEF AsksKept, Nothing, AnEnable, ADisable, EnableTwice, EnableDisable, DisableEnable, Rest

LEMMA MainStepTwo ==
    ASSUME QueuesOK, Scalars, AtFirst, TwoCommands, Alive, MainStep
    PROVE  TwoCommands'
<1> USE DEF gapVars, mainVars, profVars
<1>1. UNCHANGED <<config, gapVars, profile, inbox, stack>>
  BY DEF Alive, MainStep, PostDefaultEnable, InitHandlerReturns, MainHandles, StartThread
<1>2. Distinct(gapQ, Skipped) /\ gapQ \in Seq(GapEvents) /\ UNCHANGED <<AllStarted, Enabled>>
  BY <1>1, SameSets DEF TwoCommands, QueuesOK, AllStarted
<1>3. CASE PostDefaultEnable /\ gapQ' # gapQ
  <2>1. /\ state = "OFF" /\ NoneStarted /\ gapQ = <<>> /\ mainQ = <<>> /\ IdleOff
        /\ UNCHANGED <<mainQ, enableCmd, disableCmd, btState>> /\ ToGap(Msg("GAP_API_ENABLE"))
    BY <1>3 DEF AtFirst, PostDefaultEnable, ToGap
  <2>2. OffPhase
    BY <2>1 DEF TwoCommands, OnPhase, StartAgain, ComingPhase, GoingPhase
  <2>3. Distinct(gapQ', Skipped) /\ Rest' = Rest /\ (Nothing => AnEnable')
    <3>1. "GAP_API_ENABLE" \in Asking
      BY DEF Asking
    <3> QED
      BY <1>2, <2>1, <3>1, PostsAsk
  <2>4. Nothing
    BY <2>1 DEF Nothing, AsksNone
  <2>5. OffMain'
    <3>1. IdleOff'
      BY <2>1, SameFlags
    <3> QED
      BY <2>1, <2>3, <2>4, <3>1 DEF OffMain
  <2>6. Low' /\ NoneStarted' /\ Still'
    BY <1>1, <1>2, <2>1, <2>2, <2>3, PlacesSame DEF OffPhase, Still
  <2> QED
    BY <1>1, <2>1, <2>2, <2>3, <2>5, <2>6 DEF OffPhase, TwoCommands
<1>4. CASE gapQ' = gapQ
  <2>1. AsksKept /\ Distinct(gapQ', Skipped) /\ Rest' = Rest /\ \A a : LastIs(gapQ, a) => LastIs(gapQ', a)
    BY <1>2, <1>4, NothingChanges
  <2>2. MainKept
    <3>1. CASE MainHandles
      BY <3>1, MainReads
    <3>2. CASE ~MainHandles
      <4>1. UNCHANGED <<mainQ, enableCmd, disableCmd, btState>>
        BY <3>2 DEF MainStep, PostDefaultEnable, InitHandlerReturns, StartThread
      <4> QED
        BY <1>2, <2>1, <4>1, MainSameKept
    <3> QED
      BY <3>1, <3>2
  <2> QED
    BY <1>1, <2>1, <2>2, PhasesSame
<1>5. gapQ' = gapQ \/ PostDefaultEnable
  BY DEF MainStep, InitHandlerReturns, StartThread, MainHandles
<1> QED
  BY <1>3, <1>4, <1>5

LEMMA UserTwo ==
    ASSUME QueuesOK, Scalars, TwoCommands, Alive, User
    PROVE  TwoCommands'
<1>1. UNCHANGED <<config, gapVars, profile, inbox, stack>>
  BY DEF Alive, User, SendEnableCmdToGap, SendDisableCmdToGap, profVars
<1>2. Distinct(gapQ, Skipped) /\ gapQ \in Seq(GapEvents)
  BY DEF TwoCommands, QueuesOK
<1>3. MainKept /\ Distinct(gapQ', Skipped) /\ Rest' = Rest /\ ~DisMain
  BY <1>2, EnableAdds, DisableAdds DEF User
<1> QED
  BY <1>1, <1>3, PhasesSame

LEMMA NoiseTwo ==
    ASSUME QueuesOK, Scalars, TwoCommands, Alive, Kill \/ SsrCleanupCb \/ \E t \in Timers : TimerExpires(t)
    PROVE  TwoCommands'
<1> USE DEF gapVars, mainVars, profVars
<1>1. /\ UNCHANGED <<config, gapVars, profile, inbox, mainQ, enableCmd, disableCmd, btState>>
      /\ stack' = stack \/ stack' = "lost"
  BY DEF Alive, Kill, SsrCleanupCb, TimerExpires
<1>2. Distinct(gapQ, Skipped) /\ gapQ \in Seq(GapEvents) /\ UNCHANGED AllStarted
  BY <1>1, SameSets DEF TwoCommands, QueuesOK, AllStarted
<1>3. gapQ' = gapQ \/ \E e \in GapEvents : e.id \in Noise /\ ToGap(e)
  <2>1. "GAP_EVENT_SSR_CLEANUP" \in Noise /\ "TIMEOUT" \in Noise /\ "GAP_EVENT_SSR_CLEANUP" \in GapIds
    BY DEF Noise, GapIds
  <2> QED
    BY <2>1, MessageTypes DEF Kill, SsrCleanupCb, TimerExpires
<1>4. AsksKept /\ Distinct(gapQ', Skipped) /\ Rest' = Rest /\ \A a : LastIs(gapQ, a) => LastIs(gapQ', a)
  <2>1. CASE gapQ' = gapQ
    BY <1>2, <2>1, NothingChanges
  <2>2. ASSUME NEW e \in GapEvents, e.id \in Noise, ToGap(e)
        PROVE  AsksKept /\ Distinct(gapQ', Skipped) /\ Rest' = Rest /\ \A a : LastIs(gapQ, a) => LastIs(gapQ', a)
    <3>1. e.id \notin Asking
      BY <2>2, SkippedIds
    <3>2. /\ Distinct(gapQ', Skipped) /\ AsksKept /\ Rest' = Rest \cup {}
          /\ \A a : LastIs(gapQ, a) => LastIs(gapQ', a)
      BY <1>2, <2>2, <3>1, PostsRest
    <3> QED
      BY <3>2
  <2> QED
    BY <1>3, <2>1, <2>2
<1>5. MainKept
  BY <1>1, <1>2, <1>4, MainSameKept
<1> QED
  BY <1>1, <1>4, <1>5, PhasesSame

LEMMA AskTwo ==
    ASSUME QueuesOK, Scalars, TwoCommands, Alive, IgnoreEnable \/ IgnoreDisable \/ HandleEnable
    PROVE  TwoCommands'
<1>1. UNCHANGED <<config, startStatus, stopStatus, profile, inbox>>
  BY DEF Alive, IgnoreEnable, IgnoreDisable, HandleEnable, gapVars, profVars
<1>2. Distinct(gapQ, Skipped) /\ gapQ \in Seq(GapEvents)
  BY DEF TwoCommands, QueuesOK
<1>3. Distinct(gapQ', Skipped) /\ Rest' = Rest /\ ~DisMain
  BY <1>2, AskHandled DEF DisMain
<1>4. CASE UNCHANGED <<stack, state>> /\ MainKept
  BY <1>1, <1>3, <1>4, PhasesSame DEF gapVars
<1>5. CASE /\ HandleEnable /\ stack' = "enabling" /\ state' = "TURNING_ON"
           /\ OffMain => OnMain'
           /\ StrictOff => StrictOn'
  <2>1. OffPhase
    BY <1>5 DEF HandleEnable, TwoCommands, OnPhase, StartAgain, ComingPhase, GoingPhase
  <2>2. Low' /\ (NoneStarted => NoneStarted') /\ Rest' = {}
    BY <1>1, <1>3, <2>1, PlacesSame DEF OffPhase
  <2> QED
    BY <1>3, <1>5, <2>1, <2>2 DEF OffPhase, ComingPhase, TwoCommands
<1> QED
  <2>1. IgnoreEnable \/ IgnoreDisable => UNCHANGED <<stack, state>> /\ MainKept
    BY <1>2, EnableIgnored, DisableIgnored DEF IgnoreEnable, IgnoreDisable, gapVars
  <2> QED
    BY <1>2, <1>4, <1>5, <2>1, EnableTaken

-----------------------------------------------------------------------------
(* The adapter's answers.                                                    *)

LEMMA ProfilesThere == ASSUME Scalars PROVE Others # {} /\ Others \subseteq Enabled /\ (NoneStarted => ~AllStarted)
  BY GapAssumption DEF Scalars, Others, Enabled, NoneStarted, AllStarted

LEMMA TurnedOnTwo ==
    ASSUME QueuesOK, Scalars, TwoCommands, Alive, AdapterTurnedOn
    PROVE  TwoCommands'
<1>1. /\ UNCHANGED <<config, startStatus, stopStatus, profile, inbox, stack>>
      /\ UNCHANGED <<mainQ, enableCmd, disableCmd, btState>> /\ state' = "ON"
      /\ Handling("GAP_EVENT_ADAPTER_STATE") /\ Now.status /\ ConsumeAndPost(<<StartAll>>)
  BY DEF Alive, AdapterTurnedOn, profVars, mainVars, StartAll
<1>2. Distinct(gapQ, Skipped) /\ gapQ \in Seq(GapEvents) /\ UNCHANGED <<Enabled, StartMsgs, StartAll>>
  BY <1>1, SameSets DEF TwoCommands, QueuesOK
<1>3. "GAP_EVENT_ADAPTER_STATE" \in GapIds \ Skipped /\ StartAll.id \notin Skipped
  BY RestKinds DEF GapIds, Skipped, Noise, Asking
<1>4. Now \in Rest /\ Now.id = "GAP_EVENT_ADAPTER_STATE"
  BY <1>1, <1>2, <1>3, TakesRest
<1>5. ComingPhase /\ Still /\ Rest = {Now} /\ StartAll \notin Rest
  BY <1>1, <1>4, PhaseOfRest, RestKinds
<1>6. Distinct(gapQ', Skipped) /\ AsksKept /\ Rest' = {StartAll}
  <2>1. Distinct(gapQ', Skipped) /\ AsksKept /\ Rest' = (Rest \ {Now}) \cup {StartAll}
    BY <1>1, <1>2, <1>3, <1>5, TakesRest, RestKinds
  <2> QED
    BY <1>5, <2>1
<1>7. UNCHANGED <<Low, Empty, NoneStarted, AllStarted>> /\ Still'
  BY <1>1, <1>2, <1>5 DEF Low, Empty, AllIdle, NoneStarted, AllStarted, Still
<1>8. CASE StrictOn
  <2>1. StrictOn'
    BY <1>1, <1>6, <1>8, MainSame
  <2> QED
    BY <1>1, <1>2, <1>5, <1>6, <1>7, <2>1 DEF ComingPhase, StartAgain, TwoCommands
<1>9. CASE NoneStarted /\ OnMain
  <2>1. OnMain' /\ NoneStarted' /\ ~AllStarted' /\ Low'
    BY <1>1, <1>5, <1>6, <1>7, <1>9, MainSame, ProfilesThere DEF ComingPhase
  <2>2. \A p \in Enabled : inbox'[p] = <<>> /\ profile'[p] = "idle" /\ ~startStatus'[p]
    BY <1>2, <2>1 DEF Low, Empty, AllIdle, NoneStarted
  <2>3. \A p \in Enabled : Begun(p)'
    <3>1. \A p, ok : StartIs(p, ok) # StartAll
      BY RestKinds, MessagesApart
    <3>2. \A p \in Enabled : ~StartPending(p)'
      BY <2>2, ShortQueues DEF StartPending
    <3> QED
      BY <1>6, <3>1, <3>2 DEF Begun, StartAnswered
  <2>4. NoDisable'
    <3>1. Steady'
      BY <1>2, <2>2 DEF Steady, Plain
    <3> QED
      BY <1>2, <1>6, <2>1, <3>1, RestKinds DEF NoDisable, CalmMain
  <2>5. \A p \in Enabled' : Begun(p)'
    BY <1>2, <2>3
  <2> QED
    BY <1>1, <1>6, <1>7, <2>1, <2>4, <2>5 DEF OnPhase, TwoCommands
<1> QED
  BY <1>5, <1>8, <1>9 DEF ComingPhase

LEMMA TurnedOffTwo ==
    ASSUME QueuesOK, Scalars, TwoCommands, Alive, AdapterTurnedOff
    PROVE  TwoCommands'
<1>1. /\ UNCHANGED <<config, startStatus, stopStatus, profile, inbox, stack>>
      /\ UNCHANGED <<enableCmd, disableCmd, btState>> /\ state' = "OFF"
      /\ Handling("GAP_EVENT_ADAPTER_STATE") /\ Consume /\ TellMain("MAIN_EVENT_DISABLED", FALSE)
  BY DEF Alive, AdapterTurnedOff, profVars, mainVars
<1>2. Distinct(gapQ, Skipped) /\ gapQ \in Seq(GapEvents)
  BY DEF TwoCommands, QueuesOK
<1>3. "GAP_EVENT_ADAPTER_STATE" \in GapIds \ Skipped
  BY DEF GapIds, Skipped, Noise, Asking
<1>4. Now \in Rest /\ Now.id = "GAP_EVENT_ADAPTER_STATE" /\ Distinct(gapQ', Skipped) /\ AsksKept /\ Rest' = Rest \ {Now}
  BY <1>1, <1>2, <1>3, TakesRest
<1>5. (ComingPhase \/ GoingPhase) /\ Still /\ Rest' = {}
  BY <1>4, PhaseOfRest
<1>6. UNCHANGED <<Low, NoneStarted>> /\ Still'
  BY <1>1, <1>5, SameSets DEF Low, Empty, AllIdle, NoneStarted, Still
<1>7. /\ OnMain => OffMain'
      /\ StrictOn \/ GoingMain => StrictOff'
  BY <1>1, <1>4, ToldDown DEF Scalars
<1> QED
  BY <1>1, <1>4, <1>5, <1>6, <1>7 DEF ComingPhase, GoingPhase, OffPhase, TwoCommands

LEMMA StackTwo ==
    ASSUME QueuesOK, Scalars, TwoCommands, Alive, StackCallback
    PROVE  TwoCommands'
<1>1. /\ UNCHANGED <<config, gapVars, profile, inbox>> /\ stack \in {"enabling", "disabling"} /\ Still'
      /\ UNCHANGED <<mainQ, enableCmd, disableCmd, btState>>
      /\ \E on \in BOOLEAN : ToGap(AdapterIs(on)) /\ (on => stack = "enabling")
  BY DEF Alive, StackCallback, AdapterState, AdapterIs, profVars, mainVars, Still
<1>2. Distinct(gapQ, Skipped) /\ gapQ \in Seq(GapEvents) /\ state' = state
  BY <1>1 DEF TwoCommands, QueuesOK, gapVars
<1>3. (ComingPhase \/ (GoingPhase /\ stack = "disabling")) /\ Rest = {}
  BY <1>1 DEF TwoCommands, OnPhase, StartAgain, OffPhase, ComingPhase, GoingPhase, Still
<1>4. PICK on \in BOOLEAN : ToGap(AdapterIs(on)) /\ (on => stack = "enabling")
  BY <1>1
<1>5. AdapterIs(on) \in GapEvents /\ AdapterIs(on).id \notin Asking /\ AdapterIs(on).id \notin Noise
  BY RestKinds DEF Noise, Asking
<1>6. Distinct(gapQ', Skipped) /\ AsksKept /\ Rest' = {AdapterIs(on)}
  BY <1>2, <1>3, <1>4, <1>5, PostsRest
<1>7. UNCHANGED <<Low, NoneStarted>>
  BY <1>1, SameSets DEF Low, Empty, AllIdle, NoneStarted, gapVars
<1>8. /\ OnMain => OnMain'
      /\ StrictOn => StrictOn'
      /\ GoingMain => GoingMain'
  BY <1>1, <1>6, MainSame
<1>9. \A b : AdapterIs(b)' = AdapterIs(b)
  BY DEF AdapterIs
<1>10. CASE ComingPhase
  BY <1>1, <1>2, <1>6, <1>7, <1>8, <1>9, <1>10 DEF ComingPhase, TwoCommands
<1>11. CASE GoingPhase /\ stack = "disabling"
  <2>1. on = FALSE
    BY <1>4, <1>11
  <2> QED
    BY <1>1, <1>2, <1>6, <1>7, <1>8, <1>9, <1>11, <2>1 DEF GoingPhase, TwoCommands
<1> QED
  BY <1>3, <1>10, <1>11

-----------------------------------------------------------------------------
(* The requests to the profiles.                                             *)

LEMMA ShortApart ==
    ASSUME NEW x, NEW y, NEW z, NEW w
    PROVE  /\ One(x) = One(y) => x = y
           /\ One(x) # Two(y, z)
           /\ Two(x, y) = Two(z, w) => x = z /\ y = w
<1>1. One(x) = One(y) => x = y
  BY ShortQueues
<1>2. One(x) # Two(y, z)
  BY ShortQueues
<1>3. Two(x, y) = Two(z, w) => x = z /\ y = w
  BY <1>1, ShortQueues
<1> QED
  BY <1>1, <1>2, <1>3

LEMMA Posted ==
    ASSUME UNCHANGED config, NEW P, NEW id, PostTo(P, id), NEW p \in Enabled
    PROVE  /\ inbox'[p] = inbox[p] \/ (p \in P /\ inbox'[p] = Append(inbox[p], id))
           /\ inbox[p] = <<>> => inbox'[p] \in {<<>>, One(id)} /\ (p \notin P => inbox'[p] = <<>>)
           /\ \A a : inbox[p] = One(a) => inbox'[p] \in {One(a), Two(a, id)} /\ (p \notin P => inbox'[p] = One(a))
<1>1. inbox'[p] = inbox[p] \/ (p \in P /\ inbox'[p] = Append(inbox[p], id))
  BY DEF PostTo
<1> QED
  BY <1>1, ShortQueues

(* An adapter without a disable and the places of one keep, when starts are    *)
(* answered, what they say of the profiles.                                    *)
LEMMA PlacesShrink ==
    ASSUME UNCHANGED <<config, stopStatus, profile, inbox>>, Rest' \subseteq Rest, Rest \ Rest' \subseteq StartMsgs,
           \A p \in Enabled : startStatus[p] => startStatus'[p],
           LastIs(gapQ, "BT_AM_DISABLE_DONE") => LastIs(gapQ', "BT_AM_DISABLE_DONE")
    PROVE  /\ Rest \subseteq StartMsgs /\ Steady => Rest' \subseteq StartMsgs' /\ Steady'
           /\ SinkCleaning => SinkCleaning'
           /\ SinkCleaned => SinkCleaned'
           /\ StopsRun => StopsRun'
           /\ ManagerAsked => ManagerAsked'
           /\ ManagerOff => ManagerOff'
<1>1. UNCHANGED <<Enabled, Others, StartMsgs, StopMsgs, StartAll, SinkDone, ManagerDone>>
  BY SameSets
<1>2. \A p : UNCHANGED <<Plain(p), StopAsked(p)>>
  BY DEF Plain, StopAsked
<1>3. UNCHANGED <<Steady, Low>> /\ (OthersDown => OthersDown')
  BY <1>1, <1>2 DEF Steady, Low, Empty, AllIdle, OthersDown, Others
<1>4. SinkDone \notin StartMsgs /\ ManagerDone \notin StartMsgs
  BY RestKinds
<1>5. SinkCleaning => SinkCleaning'
  BY <1>1, <1>2 DEF SinkCleaning
<1>6. SinkCleaned => SinkCleaned'
  BY <1>1, <1>3, <1>4 DEF SinkCleaned
<1>7. ManagerAsked => ManagerAsked'
  BY <1>1, <1>2, <1>3 DEF ManagerAsked
<1>8. ManagerOff => ManagerOff'
  BY <1>1, <1>3, <1>4 DEF ManagerOff
<1>9. \A p \in Others : StoppingOf(p) => StoppingOf(p)'
  <2>1. \A p : StopAnswered(p)' => StopAnswered(p)
    BY DEF StopAnswered, StopIs
  <2>2. \A p, ok : StopIs(p, ok)' = StopIs(p, ok)
    BY DEF StopIs
  <2>3. \A p : /\ StopAnswered(p) => StopAnswered(p)'
               /\ \A ok \in BOOLEAN : StopIs(p, ok)' \in Rest' => StopIs(p, ok) \in Rest
    BY <2>2, RestKinds, MessagesApart DEF StopAnswered
  <2> QED
    BY <1>1, <1>2, <2>1, <2>2, <2>3 DEF StoppingOf, Others
<1>10. StopsRun => StopsRun'
  BY <1>1, <1>2, <1>9 DEF StopsRun
<1> QED
  BY <1>1, <1>3, <1>5, <1>6, <1>7, <1>8, <1>10

LEMMA StartTwo ==
    ASSUME QueuesOK, Scalars, TwoCommands, Alive, StartProfiles
    PROVE  TwoCommands'
<1>1. /\ UNCHANGED <<config, state, stopStatus, profile, stack, mainQ, enableCmd, disableCmd, btState>>
      /\ Handling("PROFILE_API_START") /\ Consume /\ PostTo(Enabled, "PROFILE_API_START")
      /\ startStatus' = [p \in Enabled |-> FALSE]
  BY DEF Alive, StartProfiles, profVars, mainVars
<1>2. /\ Distinct(gapQ, Skipped) /\ gapQ \in Seq(GapEvents)
      /\ UNCHANGED <<Enabled, Others, StartMsgs, StopMsgs, StartAll, SinkDone, ManagerDone>>
  BY <1>1, SameSets DEF TwoCommands, QueuesOK
<1>3. "PROFILE_API_START" \in GapIds \ Skipped
  BY DEF GapIds, Skipped, Noise, Asking
<1>4. Now \in Rest /\ Now.id = "PROFILE_API_START" /\ Distinct(gapQ', Skipped) /\ AsksKept /\ Rest' = Rest \ {Now}
  BY <1>1, <1>2, <1>3, TakesRest
<1>5. Now = StartAll /\ (OnPhase \/ StartAgain) /\ Rest' = Rest \ {StartAll} /\ state' = "ON" /\ Still'
  BY <1>1, <1>4, PhaseOfRest DEF OnPhase, StartAgain, Still
<1>6. /\ \A p \in Enabled : ~startStatus'[p]
      /\ NoneStarted' /\ ~AllStarted'
  <2>1. \A p \in Enabled : ~startStatus'[p]
    BY <1>1
  <2> QED
    BY <1>2, <2>1, ProfilesThere DEF NoneStarted, AllStarted
<1>7. \A p \in Enabled : ~StartAnswered(p)
  BY <1>4, <1>5, MessagesApart, RestKinds DEF OnPhase, StartAgain, Begun, StartAnswered
<1>8. \A p : StartAnswered(p)' => StartAnswered(p)
  BY <1>5 DEF StartAnswered, StartIs
<1>9. (\A p \in Enabled' : Begun(p)') /\ StartAll' \notin Rest'
  <2>1. \A p, ok : StartIs(p, ok)' = StartIs(p, ok)
    BY DEF StartIs
  <2>2. StartAll' \notin Rest'
    BY <1>2, <1>5
  <2>3. ASSUME NEW p \in Enabled PROVE Begun(p)'
    <3>1. ~StartAnswered(p)' /\ ~startStatus'[p]
      BY <1>6, <1>7, <1>8
    <3>2. ~(StartIs(p, TRUE)' \in Rest' /\ StartIs(p, FALSE)' \in Rest')
      BY <3>1 DEF StartAnswered
    <3> QED
      BY <2>2, <3>1, <3>2 DEF Begun
  <2> QED
    BY <1>2, <2>2, <2>3
<1>10. CASE StartAgain
  <2>1. OnMain'
    BY <1>1, <1>4, <1>10, MainSame DEF StartAgain, StrictOn, OnMain
  <2>2. Rest' = {}
    BY <1>5, <1>10 DEF StartAgain
  <2>3. \A p \in Enabled : inbox'[p] \in {<<>>, One("PROFILE_API_START")} /\ profile'[p] # "stopping"
    BY <1>1, <1>10, Posted DEF StartAgain, Low, Empty, AllIdle
  <2>4. NoDisable'
    BY <1>2, <1>6, <2>1, <2>2, <2>3 DEF NoDisable, CalmMain, Steady, Plain
  <2> QED
    BY <1>4, <1>5, <1>9, <2>4 DEF OnPhase, TwoCommands
<1>11. CASE OnPhase
  <2>1. NoneStarted /\ ~AllStarted /\ \A p \in Enabled : ~StartPending(p)
    BY <1>4, <1>5, <1>11, ProfilesThere DEF OnPhase, Begun
  <2>2. \A p \in Enabled : Plain(p) => inbox[p] = <<>> /\ inbox'[p] \in {<<>>, One("PROFILE_API_START")} /\ Plain(p)'
    <3>1. \A p \in Enabled : Plain(p) => inbox[p] = <<>>
      BY <2>1 DEF Plain, StartPending
    <3> QED
      BY <1>1, <3>1, Posted DEF Plain
  <2>3. Steady => Steady'
    BY <1>1, <1>2, <2>2 DEF Steady
  <2>4. CASE NoDisable
    <3>1. OnMain'
      BY <1>1, <1>4, <1>5, <2>1, <2>4, MainSame DEF NoDisable, CalmMain
    <3>2. NoDisable'
      BY <1>2, <1>5, <1>6, <2>3, <2>4, <3>1 DEF NoDisable, CalmMain
    <3> QED
      BY <1>4, <1>5, <1>9, <3>2 DEF OnPhase, TwoCommands
  <2>5. CASE DisMain /\ (SinkCleaning \/ SinkCleaned \/ StopsRun \/ ManagerAsked \/ ManagerOff)
    <3>1. DisMain'
      BY <1>1, <1>4, <2>1, <2>5, MainSame
    <3>2. ~ManagerAsked /\ ~ManagerOff
      BY <2>1, ProfilesThere DEF ManagerAsked, ManagerOff, OthersDown, NoneStarted
    <3>3. SinkCleaning => SinkCleaning'
      <4>1. ASSUME SinkCleaning, NEW p \in Enabled
            PROVE  /\ profile'[p] # "stopping"
                   /\ \/ Plain(p)'
                      \/ /\ p = A2DP_SINK
                         /\ inbox'[p] \in {One("A2DP_SINK_CLEANUP_REQ"), Two("A2DP_SINK_CLEANUP_REQ", "PROFILE_API_START")}
        <5>1. Plain(p) \/ (p = A2DP_SINK /\ inbox[p] = One("A2DP_SINK_CLEANUP_REQ"))
          BY <2>1, <4>1 DEF SinkCleaning, StartPending
        <5>2. profile'[p] # "stopping"
          BY <1>1, <4>1 DEF SinkCleaning
        <5> QED
          BY <1>1, <2>2, <5>1, <5>2, Posted
      <4> QED
        BY <1>2, <1>5, <4>1 DEF SinkCleaning
    <3>4. SinkCleaned => SinkCleaned'
      BY <1>2, <1>5, <2>3, RestKinds DEF SinkCleaned
    <3>5. StopsRun => StopsRun'
      <4>1. ASSUME StopsRun, NEW p \in Others PROVE StoppingOf(p)'
        <5>1. p \in Enabled /\ ~startStatus[p]
          BY <2>1, ProfilesThere DEF NoneStarted, Others
        <5>2. Plain(p) /\ profile[p] # "stopping" /\ ~StopAnswered(p) /\ ~stopStatus[p]
          BY <4>1, <5>1 DEF StopsRun, StoppingOf
        <5>3. Plain(p)' /\ ~StopAsked(p)' /\ profile'[p] # "stopping" /\ ~stopStatus'[p]
          BY <1>1, <2>2, <5>1, <5>2, ShortApart, ShortQueues DEF StopAsked
        <5>4. ~StopAnswered(p)'
          BY <1>5, <5>2 DEF StopAnswered, StopIs
        <5> QED
          BY <5>3, <5>4 DEF StoppingOf, StopAnswered
      <4>2. ASSUME StopsRun, BT_AM \in Enabled PROVE Plain(BT_AM)' /\ profile'[BT_AM] # "stopping"
        BY <1>1, <2>2, <4>2 DEF StopsRun
      <4> QED
        BY <1>1, <1>2, <1>5, <4>1, <4>2 DEF StopsRun
    <3> QED
      BY <1>4, <1>5, <1>9, <2>5, <3>1, <3>2, <3>3, <3>4, <3>5 DEF OnPhase, TwoCommands
  <2> QED
    BY <1>11, <2>4, <2>5 DEF OnPhase
<1> QED
  BY <1>5, <1>10, <1>11

-----------------------------------------------------------------------------
(* The profiles' answers.                                                    *)

LEMMA StartDoneTwo ==
    ASSUME QueuesOK, Scalars, TwoCommands, Alive, StartDone
    PROVE  TwoCommands'
<1>1. /\ UNCHANGED <<config, state, stopStatus, profile, inbox, stack, enableCmd, disableCmd, btState>>
      /\ Handling("PROFILE_EVENT_START_DONE") /\ Consume
      /\ startStatus' = [startStatus EXCEPT ![Now.from] = Now.status]
      /\ IF \A p \in Enabled : startStatus'[p] THEN TellMain("MAIN_EVENT_ENABLED", TRUE) ELSE UNCHANGED mainQ
  BY DEF Alive, StartDone, profVars, mainVars
<1>2. /\ Distinct(gapQ, Skipped) /\ gapQ \in Seq(GapEvents)
      /\ UNCHANGED <<Enabled, Others, StartMsgs, StopMsgs, StartAll, SinkDone, ManagerDone>>
  BY <1>1, SameSets DEF TwoCommands, QueuesOK
<1>3. "PROFILE_EVENT_START_DONE" \in GapIds \ Skipped
  BY DEF GapIds, Skipped, Noise, Asking
<1>4. /\ Now \in Rest /\ Now.id = "PROFILE_EVENT_START_DONE" /\ Distinct(gapQ', Skipped) /\ AsksKept
      /\ Rest' = Rest \ {Now} /\ \A a : LastIs(gapQ, a) => LastIs(gapQ', a)
  BY <1>1, <1>2, <1>3, TakesRest
<1>5. PICK p \in Enabled, ok \in BOOLEAN : Now = StartIs(p, ok)
  BY <1>4, PhaseOfRest
<1>6. OnPhase /\ state' = "ON" /\ Still'
  BY <1>1, <1>4, PhaseOfRest DEF OnPhase, Still
<1>7. /\ ~startStatus[p] /\ StartAll \notin Rest /\ ~StartPending(p)
      /\ \A other \in BOOLEAN : StartIs(p, other) \notin Rest'
  <2>1. Begun(p) /\ StartAnswered(p)
    BY <1>4, <1>5, <1>6 DEF OnPhase, StartAnswered
  <2>2. \A other \in BOOLEAN : other # ok => StartIs(p, other) \notin Rest
    <3>1. StartIs(p, ok) \in Rest /\ ~(StartIs(p, TRUE) \in Rest /\ StartIs(p, FALSE) \in Rest)
      BY <1>4, <1>5, <2>1 DEF Begun
    <3>2. CASE ok = TRUE
      BY <3>1, <3>2
    <3>3. CASE ok = FALSE
      BY <3>1, <3>3
    <3> QED
      BY <3>2, <3>3
  <2> QED
    BY <1>4, <1>5, <2>1, <2>2 DEF Begun
<1>8. /\ startStatus'[p] = ok
      /\ \A q \in Enabled : q # p => startStatus'[q] = startStatus[q]
  <2>1. Now.from = p /\ Now.status = ok
    BY <1>5, MessagesApart
  <2> QED
    BY <1>1, <2>1 DEF Scalars
<1>9. ~AllStarted /\ (AllStarted' => TellMain("MAIN_EVENT_ENABLED", TRUE)) /\ (~AllStarted' => UNCHANGED mainQ)
  BY <1>1, <1>2, <1>7 DEF AllStarted
<1>10. (\A q \in Enabled' : Begun(q)') /\ StartAll' \notin Rest'
  <2>1. \A q, on : StartIs(q, on)' = StartIs(q, on)
    BY DEF StartIs
  <2>2. \A q : StartPending(q)' <=> StartPending(q)
    BY <1>1 DEF StartPending
  <2>3. StartAll' \notin Rest'
    BY <1>2, <1>4, <1>7
  <2>4. ASSUME NEW q \in Enabled, q # p PROVE Begun(q)'
    <3>1. Begun(q)
      BY <1>6 DEF OnPhase
    <3>2. (StartAnswered(q)' => StartAnswered(q)) /\ startStatus'[q] = startStatus[q]
      BY <1>4, <1>8, <2>1, <2>4 DEF StartAnswered
    <3>3. ~(StartIs(q, TRUE)' \in Rest' /\ StartIs(q, FALSE)' \in Rest')
      BY <1>4, <2>1, <3>1 DEF Begun
    <3> QED
      BY <2>2, <2>3, <3>1, <3>2, <3>3 DEF Begun
  <2>5. Begun(p)'
    <3>1. ~StartAnswered(p)' /\ ~StartPending(p)'
      BY <1>7, <2>1, <2>2 DEF StartAnswered
    <3>2. ~(StartIs(p, TRUE)' \in Rest')
      BY <1>7, <2>1
    <3> QED
      BY <3>1, <3>2 DEF Begun
  <2> QED
    BY <1>2, <2>3, <2>4, <2>5
<1>11. /\ Rest \subseteq StartMsgs /\ Steady => Rest' \subseteq StartMsgs' /\ Steady'
       /\ SinkCleaning => SinkCleaning'
       /\ SinkCleaned => SinkCleaned'
       /\ StopsRun => StopsRun'
       /\ ManagerAsked => ManagerAsked'
       /\ ManagerOff => ManagerOff'
  <2>1. Rest' \subseteq Rest /\ Rest \ Rest' \subseteq StartMsgs
    BY <1>4, <1>5, RestKinds
  <2>2. \A q \in Enabled : startStatus[q] => startStatus'[q]
    BY <1>7, <1>8
  <2> QED
    BY <1>1, <1>4, <2>1, <2>2, PlacesShrink
<1>12. CASE NoDisable
  <2>1. OnMain
    BY <1>4, <1>9, <1>12 DEF NoDisable, CalmMain
  <2>2. CASE AllStarted'
    <3>1. OnMainAll'
      BY <1>1, <1>4, <1>9, <2>1, <2>2, ToldUp
    <3> QED
      BY <1>4, <1>6, <1>10, <1>11, <1>12, <2>2, <3>1 DEF NoDisable, CalmMain, OnPhase, TwoCommands
  <2>3. CASE ~AllStarted'
    <3>1. OnMain'
      BY <1>1, <1>4, <1>9, <2>1, <2>3, MainSame
    <3> QED
      BY <1>4, <1>6, <1>10, <1>11, <1>12, <2>3, <3>1 DEF NoDisable, CalmMain, OnPhase, TwoCommands
  <2> QED
    BY <2>2, <2>3
<1>13. CASE DisMain /\ (SinkCleaning \/ SinkCleaned \/ StopsRun \/ ManagerAsked \/ ManagerOff)
  <2>1. DisMain'
    <3>1. CASE AllStarted'
      BY <1>1, <1>4, <1>9, <1>13, <3>1, ToldUp
    <3>2. CASE ~AllStarted'
      BY <1>1, <1>4, <1>9, <1>13, <3>2, MainSame
    <3> QED
      BY <3>1, <3>2
  <2> QED
    BY <1>4, <1>6, <1>10, <1>11, <1>13, <2>1 DEF OnPhase, TwoCommands
<1> QED
  BY <1>6, <1>12, <1>13 DEF OnPhase

(* A step with which no profile begins to start.                              *)
LEMMA StartsKept ==
    ASSUME UNCHANGED <<config, startStatus>>, OnPhase,
           \A p \in Enabled : StartPending(p)' => StartPending(p),
           \A e \in Rest' : e \in Rest \/ e.id \notin {"PROFILE_EVENT_START_DONE", "PROFILE_API_START"}
    PROVE  /\ \A p \in Enabled' : Begun(p)'
           /\ StartAll' \in Rest' => NoneStarted'
<1>1. UNCHANGED <<Enabled, StartAll>> /\ UNCHANGED NoneStarted
  BY SameSets DEF NoneStarted
<1>2. StartAll' \in Rest' => StartAll \in Rest
  BY <1>1, RestKinds
<1>3. \A p, ok : StartIs(p, ok)' = StartIs(p, ok) /\ (StartIs(p, ok)' \in Rest' => StartIs(p, ok) \in Rest)
  BY MessagesApart DEF StartIs
<1>4. ASSUME NEW p \in Enabled PROVE Begun(p)'
  <2>1. Begun(p)
    BY DEF OnPhase
  <2>2. (StartAnswered(p)' => StartAnswered(p)) /\ (StartPending(p)' => StartPending(p))
    BY <1>3 DEF StartAnswered
  <2>3. ~(StartIs(p, TRUE)' \in Rest' /\ StartIs(p, FALSE)' \in Rest')
    BY <1>3, <2>1 DEF Begun
  <2> QED
    BY <1>1, <1>2, <2>1, <2>2, <2>3 DEF Begun
<1> QED
  BY <1>1, <1>2, <1>4 DEF OnPhase

(* Requests that start nothing.                                               *)
HasStart(q) == q \in {One("PROFILE_API_START"), Two("PROFILE_API_START", "A2DP_SINK_CLEANUP_REQ"),
                     Two("A2DP_SINK_CLEANUP_REQ", "PROFILE_API_START"),
                     Two("PROFILE_API_START", "BT_AM_DISABLE_REQ")}
LEMMA NotStarting ==
    /\ ~HasStart(<<>>)
    /\ \A id : id # "PROFILE_API_START" => ~HasStart(One(id))
<1>1. ~HasStart(<<>>)
  BY ShortQueues DEF HasStart
<1>2. ASSUME NEW id, id # "PROFILE_API_START" PROVE ~HasStart(One(id))
  <2>1. One(id) # One("PROFILE_API_START")
    BY <1>2, ShortApart
  <2>2. \A x, y : One(id) # Two(x, y)
    BY ShortApart
  <2> QED
    BY <2>1, <2>2 DEF HasStart
<1> QED
  BY <1>1, <1>2

LEMMA NotPending ==
    ASSUME NEW p
    PROVE  /\ inbox[p] \in {<<>>, One("PROFILE_API_STOP"), One("A2DP_SINK_CLEANUP_REQ"), One("BT_AM_DISABLE_REQ")}
                 => ~StartPending(p)
           /\ inbox'[p] \in {<<>>, One("PROFILE_API_STOP"), One("A2DP_SINK_CLEANUP_REQ"), One("BT_AM_DISABLE_REQ")}
                 => ~StartPending(p)'
<1>1. \A q \in {<<>>, One("PROFILE_API_STOP"), One("A2DP_SINK_CLEANUP_REQ"), One("BT_AM_DISABLE_REQ")} : ~HasStart(q)
  BY NotStarting
<1>2. (StartPending(p) <=> HasStart(inbox[p])) /\ (StartPending(p)' <=> HasStart(inbox'[p]))
  BY DEF StartPending, HasStart
<1> QED
  BY <1>1, <1>2

LEMMA StopDoneTwo ==
    ASSUME QueuesOK, Scalars, TwoCommands, Alive, StopDone
    PROVE  TwoCommands'
<1>1. /\ UNCHANGED <<config, state, startStatus, profile, stack, mainQ, enableCmd, disableCmd, btState>>
      /\ Handling("PROFILE_EVENT_STOP_DONE")
      /\ stopStatus' = [stopStatus EXCEPT ![Now.from] = Now.status]
  BY DEF Alive, StopDone, profVars, mainVars
<1>2. /\ Distinct(gapQ, Skipped) /\ gapQ \in Seq(GapEvents)
      /\ UNCHANGED <<Enabled, Others, StartMsgs, StopMsgs, StartAll, SinkDone, ManagerDone>>
  BY <1>1, SameSets DEF TwoCommands, QueuesOK
<1>3. "PROFILE_EVENT_STOP_DONE" \in GapIds \ Skipped
  BY DEF GapIds, Skipped, Noise, Asking
<1>4. Now \in Rest /\ Now.id = "PROFILE_EVENT_STOP_DONE"
  BY <1>1, <1>2, <1>3, TakesRest
<1>5. OnPhase /\ DisMain /\ StopsRun /\ \E p \in Others, ok \in BOOLEAN : Now = StopIs(p, ok)
  BY <1>4, PhaseOfRest
<1>6. PICK p \in Others, ok \in BOOLEAN : Now = StopIs(p, ok)
  BY <1>5
<1>7. /\ stopStatus'[p] = ok /\ p \in Enabled /\ Others \subseteq Enabled
      /\ \A q \in Enabled : q # p => stopStatus'[q] = stopStatus[q]
  <2>1. Now.from = p /\ Now.status = ok
    BY <1>6, MessagesApart
  <2> QED
    BY <1>1, <2>1, ProfilesThere DEF Scalars
<1>8. /\ Plain(p) /\ profile[p] = "idle" /\ startStatus[p] /\ ~StopAsked(p)
      /\ \A other \in BOOLEAN : StopIs(p, other) \notin Rest \ {Now}
  <2>1. StoppingOf(p) /\ StopAnswered(p)
    BY <1>4, <1>5, <1>6 DEF StopsRun, StopAnswered
  <2>2. \A other \in BOOLEAN : StopIs(p, other) \notin Rest \ {Now}
    <3>1. StopIs(p, ok) \in Rest /\ ~(StopIs(p, TRUE) \in Rest /\ StopIs(p, FALSE) \in Rest)
      BY <1>4, <1>6, <2>1 DEF StoppingOf
    <3>2. CASE ok = TRUE
      BY <1>6, <3>1, <3>2
    <3>3. CASE ok = FALSE
      BY <1>6, <3>1, <3>3
    <3> QED
      BY <3>2, <3>3
  <2> QED
    BY <2>1, <2>2 DEF StoppingOf
<1>9. \A e : (e \in Rest \ {Now} \/ e = ManagerDone)
                => e \in Rest \/ e.id \notin {"PROFILE_EVENT_START_DONE", "PROFILE_API_START"}
  BY RestKinds
<1>10. CASE \E q \in Others : ~stopStatus'[q]
  <2>1. Consume /\ UNCHANGED inbox
    BY <1>2, <1>10 DEF StopDone, Others
  <2>2. Distinct(gapQ', Skipped) /\ AsksKept /\ Rest' = Rest \ {Now}
    BY <1>1, <1>2, <1>3, <2>1, TakesRest
  <2>3. DisMain'
    BY <1>1, <1>2, <1>5, <2>2, MainSame DEF AllStarted
  <2>4. (\A q \in Enabled' : Begun(q)') /\ (StartAll' \in Rest' => NoneStarted')
    <3>1. \A q \in Enabled : StartPending(q)' => StartPending(q)
      BY <2>1 DEF StartPending
    <3> QED
      BY <1>1, <1>5, <1>9, <2>2, <3>1, StartsKept
  <2>5. ASSUME NEW q \in Others PROVE StoppingOf(q)'
    <3>1. /\ \A on : StopIs(q, on)' = StopIs(q, on)
          /\ StopAnswered(q)' => StopAnswered(q)
          /\ ~(StopIs(q, TRUE)' \in Rest' /\ StopIs(q, FALSE)' \in Rest')
      <4>1. \A on : StopIs(q, on)' = StopIs(q, on)
        BY DEF StopIs
      <4> QED
        BY <1>5, <2>2, <4>1 DEF StopAnswered, StopsRun, StoppingOf
    <3>2. UNCHANGED <<Plain(q), StopAsked(q), profile[q], startStatus[q]>>
      BY <1>1, <2>1 DEF Plain, StopAsked
    <3>3. CASE q # p
      <4>1. stopStatus'[q] = stopStatus[q] /\ StoppingOf(q)
        BY <1>5, <1>7, <3>3 DEF StopsRun
      <4> QED
        BY <3>1, <3>2, <4>1 DEF StoppingOf
    <3>4. CASE q = p
      <4>1. ~StopAnswered(p)'
        BY <1>8, <2>2, <3>1, <3>4 DEF StopAnswered
      <4> QED
        BY <1>8, <3>1, <3>2, <3>4, <4>1 DEF StoppingOf
    <3> QED
      BY <3>3, <3>4
  <2>6. StopsRun'
    <3>1. BT_AM \in Enabled => Plain(BT_AM)' /\ profile'[BT_AM] # "stopping"
      BY <1>1, <1>5, <2>1 DEF StopsRun, Plain
    <3> QED
      BY <1>2, <1>5, <1>10, <2>2, <2>5, <3>1 DEF StopsRun
  <2>7. state' = "ON" /\ Still'
    BY <1>1, <1>5 DEF OnPhase, Still
  <2> QED
    BY <2>2, <2>3, <2>4, <2>6, <2>7 DEF OnPhase, TwoCommands
<1>11. CASE \A q \in Others : stopStatus'[q]
  <2>1. OthersDown
    <3>1. ASSUME NEW q \in Others PROVE Plain(q) /\ profile[q] = "idle" /\ startStatus[q]
      <4>1. CASE q = p
        BY <1>8, <4>1
      <4>2. CASE q # p
        <5>1. stopStatus[q] /\ StoppingOf(q)
          BY <1>5, <1>7, <1>11, <4>2 DEF StopsRun
        <5> QED
          BY <5>1 DEF StoppingOf
      <4> QED
        BY <4>1, <4>2
    <3>2. ASSUME NEW q \in Others PROVE inbox[q] = <<>>
      <4>1. ~StartPending(q)
        BY <1>5, <1>7, <3>1 DEF OnPhase, Begun
      <4> QED
        BY <3>1, <4>1 DEF Plain, StartPending
    <3> QED
      BY <3>1, <3>2 DEF OthersDown
  <2>2. Rest \ {Now} \subseteq StartMsgs
    <3> SUFFICES ASSUME NEW e \in Rest \ {Now}, e \notin StartMsgs PROVE FALSE
      OBVIOUS
    <3>1. PICK q \in Others, on \in BOOLEAN : e = StopIs(q, on)
      BY <1>5, RestKinds DEF StopsRun
    <3>2. q # p
      BY <1>8, <3>1
    <3>3. stopStatus[q] /\ StopAnswered(q) /\ StoppingOf(q)
      BY <1>5, <1>7, <1>11, <3>1, <3>2 DEF StopsRun, StopAnswered
    <3> QED
      BY <3>3 DEF StoppingOf
  <2>3. CASE BT_AM \in Enabled
    <3>1. Consume /\ PostTo({BT_AM}, "BT_AM_DISABLE_REQ")
      BY <1>2, <1>11, <2>3 DEF StopDone, Others
    <3>2. Distinct(gapQ', Skipped) /\ AsksKept /\ Rest' = Rest \ {Now}
      BY <1>1, <1>2, <1>3, <3>1, TakesRest
    <3>3. DisMain'
      BY <1>1, <1>2, <1>5, <3>2, MainSame DEF AllStarted
    <3>4. \A q \in Others : inbox'[q] = <<>>
      BY <1>1, <1>7, <2>1, <3>1, Posted DEF Others, OthersDown
    <3>5. /\ inbox'[BT_AM] \in {<<>>, One("PROFILE_API_START"), One("BT_AM_DISABLE_REQ"),
                                Two("PROFILE_API_START", "BT_AM_DISABLE_REQ")}
          /\ StartPending(BT_AM)' => StartPending(BT_AM)
          /\ profile[BT_AM] # "stopping"
      <4>1. Plain(BT_AM) /\ profile[BT_AM] # "stopping"
        BY <1>5, <2>3 DEF StopsRun
      <4>2. CASE inbox[BT_AM] = <<>>
        <5>1. inbox'[BT_AM] \in {<<>>, One("BT_AM_DISABLE_REQ")}
          BY <1>1, <2>3, <3>1, <4>2, Posted
        <5>2. ~StartPending(BT_AM)'
          BY <5>1, NotPending
        <5> QED
          BY <4>1, <5>1, <5>2
      <4>3. CASE inbox[BT_AM] = One("PROFILE_API_START")
        <5>1. inbox'[BT_AM] \in {One("PROFILE_API_START"), Two("PROFILE_API_START", "BT_AM_DISABLE_REQ")}
          BY <1>1, <2>3, <3>1, <4>3, Posted
        <5>2. StartPending(BT_AM)
          BY <4>3 DEF StartPending
        <5> QED
          BY <4>1, <5>1, <5>2
      <4> QED
        BY <4>1, <4>2, <4>3 DEF Plain
    <3>6. (\A q \in Enabled' : Begun(q)') /\ (StartAll' \in Rest' => NoneStarted')
      <4>1. \A q \in Enabled : StartPending(q)' => StartPending(q)
        BY <3>4, <3>5, ShortQueues DEF StartPending, Others
      <4> QED
        BY <1>1, <1>5, <1>9, <3>2, <4>1, StartsKept
    <3>7. ManagerAsked'
      <4>1. OthersDown'
        BY <1>1, <1>2, <2>1, <3>4 DEF OthersDown
      <4> QED
        BY <1>1, <1>2, <2>2, <2>3, <3>2, <3>5, <4>1 DEF ManagerAsked, Plain
    <3>8. state' = "ON" /\ Still'
      BY <1>1, <1>5 DEF OnPhase, Still
    <3> QED
      BY <3>2, <3>3, <3>6, <3>7, <3>8 DEF OnPhase, TwoCommands
  <2>4. CASE BT_AM \notin Enabled
    <3>1. ConsumeAndPost(<<ManagerDone>>) /\ UNCHANGED inbox
      BY <1>2, <1>11, <2>4 DEF StopDone, Others, ManagerDone
    <3>2. \A x \in Rest : x.id # "BT_AM_DISABLE_DONE"
      <4>1. \A x \in StartMsgs : x.id # "BT_AM_DISABLE_DONE"
        BY RestKinds
      <4>2. \A x \in StopMsgs : x.id # "BT_AM_DISABLE_DONE"
        BY RestKinds
      <4> QED
        BY <1>5, <4>1, <4>2 DEF StopsRun
    <3>3. /\ Distinct(gapQ', Skipped) /\ AsksKept /\ Rest' = (Rest \ {Now}) \cup {ManagerDone}
          /\ LastIs(gapQ', "BT_AM_DISABLE_DONE")
      <4>1. ManagerDone \notin Rest /\ ManagerDone \in GapEvents /\ ManagerDone.id = "BT_AM_DISABLE_DONE"
            /\ "BT_AM_DISABLE_DONE" \notin Skipped
        BY <3>2, RestKinds DEF Skipped, Noise, Asking
      <4> QED
        BY <1>1, <1>2, <1>3, <3>1, <3>2, <4>1, TakesRest
    <3>4. DisMain'
      BY <1>1, <1>2, <1>5, <3>3, MainSame DEF AllStarted
    <3>5. (\A q \in Enabled' : Begun(q)') /\ (StartAll' \in Rest' => NoneStarted')
      <4>1. \A q \in Enabled : StartPending(q)' => StartPending(q)
        BY <3>1 DEF StartPending
      <4> QED
        BY <1>1, <1>5, <1>9, <3>3, <4>1, StartsKept
    <3>6. ManagerOff'
      <4>1. OthersDown' /\ Enabled = Others
        BY <1>1, <1>2, <2>1, <2>4, <3>1 DEF OthersDown, Others
      <4>2. Low'
        BY <1>2, <4>1 DEF Low, AllIdle, Empty, OthersDown
      <4> QED
        BY <1>2, <2>2, <3>3, <4>1, <4>2 DEF ManagerOff
    <3>7. state' = "ON" /\ Still'
      BY <1>1, <1>5 DEF OnPhase, Still
    <3> QED
      BY <3>3, <3>4, <3>5, <3>6, <3>7 DEF OnPhase, TwoCommands
  <2> QED
    BY <2>3, <2>4
<1> QED
  BY <1>10, <1>11

-----------------------------------------------------------------------------
(* The way down.                                                             *)

LEMMA HandleDisableTwo ==
    ASSUME QueuesOK, Scalars, TwoCommands, Alive, HandleDisable
    PROVE  TwoCommands'
<1>1. /\ UNCHANGED <<config, startStatus, stopStatus, profile, inbox, enableCmd, disableCmd, btState>>
      /\ Handling("BT_AM_DISABLE_DONE") /\ Consume
      /\ \/ stack' = "disabling" /\ state' = "TURNING_OFF" /\ UNCHANGED mainQ
         \/ TellMain("MAIN_EVENT_DISABLED", TRUE) /\ UNCHANGED <<stack, state>>
  BY DEF Alive, HandleDisable, profVars, mainVars
<1>2. /\ Distinct(gapQ, Skipped) /\ gapQ \in Seq(GapEvents)
      /\ UNCHANGED <<Enabled, Others, StartMsgs, StopMsgs, StartAll, SinkDone, ManagerDone>>
  BY <1>1, SameSets DEF TwoCommands, QueuesOK
<1>3. "BT_AM_DISABLE_DONE" \in GapIds \ Skipped
  BY DEF GapIds, Skipped, Noise, Asking
<1>4. Now \in Rest /\ Now.id = "BT_AM_DISABLE_DONE"
  BY <1>1, <1>2, <1>3, TakesRest
<1>5. OnPhase /\ DisMain /\ ManagerOff
  BY <1>4, PhaseOfRest
<1>6. Distinct(gapQ', Skipped) /\ AsksKept /\ Rest' = {}
  <2>1. LastIs(gapQ, "BT_AM_DISABLE_DONE")
    BY <1>5 DEF ManagerOff
  <2> QED
    BY <1>1, <1>2, <1>3, <2>1, TakesRest
<1>7. UNCHANGED <<Low, Empty, AllStarted>> /\ Low'
  BY <1>1, <1>2, <1>5 DEF ManagerOff, Low, Empty, AllIdle, AllStarted
<1>8. CASE stack' = "disabling" /\ state' = "TURNING_OFF" /\ UNCHANGED mainQ
  <2>1. GoingMain
    BY <1>5 DEF DisMain, GoingMain
  <2>2. GoingMain'
    BY <1>1, <1>6, <1>8, <2>1, MainSame
  <2> QED
    BY <1>6, <1>7, <1>8, <2>2 DEF GoingPhase, TwoCommands
<1>9. CASE TellMain("MAIN_EVENT_DISABLED", TRUE) /\ UNCHANGED <<stack, state>>
  <2>1. (AllStarted' /\ OnMainAll') \/ (~AllStarted' /\ Refused')
    BY <1>1, <1>5, <1>6, <1>7, <1>9, ToldNotDown
  <2>2. NoDisable'
    <3>1. Steady'
      BY <1>7 DEF Steady, Plain, Low, Empty, AllIdle
    <3>2. CalmMain'
      BY <1>6, <1>7, <2>1 DEF CalmMain, Low
    <3> QED
      BY <1>6, <3>1, <3>2 DEF NoDisable
  <2>3. (\A q \in Enabled' : Begun(q)') /\ (StartAll' \in Rest' => NoneStarted')
    <3>1. \A q \in Enabled : StartPending(q)' => StartPending(q)
      BY <1>1 DEF StartPending
    <3> QED
      BY <1>1, <1>5, <1>6, <3>1, StartsKept
  <2>4. state' = "ON" /\ Still'
    BY <1>5, <1>9 DEF OnPhase, Still
  <2> QED
    BY <1>6, <2>2, <2>3, <2>4 DEF OnPhase, TwoCommands
<1> QED
  BY <1>1, <1>8, <1>9

(* The adapter is on and the next message is a command to disable.            *)
LEMMA DisableBegins ==
    ASSUME QueuesOK, TwoCommands, Alive, Handling("GAP_API_DISABLE"), Consume, state = "ON",
           UNCHANGED <<gapVars, mainVars, mainQ>> \/ UNCHANGED <<state, startStatus, mainVars, mainQ>>
    PROVE  /\ Distinct(gapQ', Skipped) /\ Rest' = Rest
           /\ OnPhase /\ Rest \subseteq StartMsgs /\ Steady /\ DisMain'
<1>1. Distinct(gapQ, Skipped) /\ gapQ \in Seq(GapEvents)
  BY DEF TwoCommands, QueuesOK
<1>2. /\ Distinct(gapQ', Skipped) /\ Rest' = Rest /\ ~Nothing
      /\ CalmMain => DisMain'
  BY <1>1, DisableTaken DEF gapVars
<1>3. OnPhase /\ NoDisable
  BY <1>2 DEF TwoCommands, OnPhase, StartAgain, ComingPhase, OffPhase, GoingPhase, StrictOn, DisMain
<1> QED
  BY <1>2, <1>3 DEF NoDisable

LEMMA CleanUpSinkTwo ==
    ASSUME QueuesOK, Scalars, TwoCommands, Alive, CleanUpSinkFirst
    PROVE  TwoCommands'
<1>1. /\ UNCHANGED <<config, gapVars, mainVars, profile, mainQ, stack>> /\ state = "ON" /\ A2DP_SINK \in Enabled
      /\ Handling("GAP_API_DISABLE") /\ Consume /\ PostTo({A2DP_SINK}, "A2DP_SINK_CLEANUP_REQ")
  BY DEF Alive, CleanUpSinkFirst, profVars
<1>2. UNCHANGED <<Enabled, Others, StartMsgs, StopMsgs, StartAll, SinkDone, ManagerDone, state, startStatus>>
  BY <1>1, SameSets DEF gapVars
<1>3. /\ Distinct(gapQ', Skipped) /\ Rest' = Rest
      /\ OnPhase /\ Rest \subseteq StartMsgs /\ Steady /\ DisMain'
  BY <1>1, DisableBegins
<1>4. ASSUME NEW p \in Enabled
      PROVE  /\ StartPending(p)' => StartPending(p)
             /\ \/ Plain(p)'
                \/ /\ p = A2DP_SINK
                   /\ inbox'[p] \in {One("A2DP_SINK_CLEANUP_REQ"), Two("PROFILE_API_START", "A2DP_SINK_CLEANUP_REQ")}
  <2>1. Plain(p)
    BY <1>3 DEF Steady
  <2>2. CASE p # A2DP_SINK
    <3>1. inbox'[p] = inbox[p]
      BY <1>1, <2>2, Posted
    <3> QED
      BY <2>1, <3>1 DEF Plain, StartPending
  <2>3. CASE p = A2DP_SINK /\ inbox[p] = <<>>
    <3>1. inbox'[p] \in {<<>>, One("A2DP_SINK_CLEANUP_REQ")}
      BY <1>1, <2>3, Posted
    <3> QED
      BY <2>3, <3>1, NotPending DEF Plain
  <2>4. CASE p = A2DP_SINK /\ inbox[p] = One("PROFILE_API_START")
    <3>1. inbox'[p] \in {One("PROFILE_API_START"), Two("PROFILE_API_START", "A2DP_SINK_CLEANUP_REQ")}
      BY <1>1, <2>4, Posted
    <3> QED
      BY <2>4, <3>1 DEF Plain, StartPending
  <2> QED
    BY <2>1, <2>2, <2>3, <2>4 DEF Plain
<1>5. SinkCleaning'
  BY <1>1, <1>2, <1>3, <1>4 DEF SinkCleaning, Steady
<1>6. (\A q \in Enabled' : Begun(q)') /\ (StartAll' \in Rest' => NoneStarted')
  BY <1>1, <1>2, <1>3, <1>4, StartsKept
<1>7. state' = "ON" /\ Still'
  BY <1>1, <1>2, <1>3 DEF OnPhase, Still
<1> QED
  BY <1>3, <1>5, <1>6, <1>7 DEF OnPhase, TwoCommands

LEMMA StopProfilesTwo ==
    ASSUME QueuesOK, Scalars, TwoCommands, Alive, StopProfiles
    PROVE  TwoCommands'
<1> DEFINE Live == {p \in Enabled \ {BT_AM} : startStatus[p]}
<1>1. /\ UNCHANGED <<config, state, startStatus, mainVars, profile, mainQ, stack>>
      /\ Consume /\ PostTo(Live, "PROFILE_API_STOP") /\ stopStatus' = [p \in Enabled |-> FALSE]
      /\ \/ Handling("GAP_API_DISABLE") /\ state = "ON"
         \/ Handling("A2DP_SINK_CLEANUP_DONE")
  BY DEF Alive, StopProfiles, profVars
<1>2. /\ Distinct(gapQ, Skipped) /\ gapQ \in Seq(GapEvents)
      /\ UNCHANGED <<Enabled, Others, StartMsgs, StopMsgs, StartAll, SinkDone, ManagerDone>>
      /\ UNCHANGED <<AllStarted, enableCmd, disableCmd, btState>>
  BY <1>1, SameSets DEF TwoCommands, QueuesOK, AllStarted, mainVars
<1>3. /\ Distinct(gapQ', Skipped) /\ Rest' \subseteq Rest /\ Rest' \subseteq StartMsgs
      /\ OnPhase /\ Steady /\ DisMain'
  <2>1. CASE Handling("GAP_API_DISABLE") /\ state = "ON"
    BY <1>1, <2>1, DisableBegins
  <2>2. CASE Handling("A2DP_SINK_CLEANUP_DONE")
    <3>1. "A2DP_SINK_CLEANUP_DONE" \in GapIds \ Skipped
      BY DEF GapIds, Skipped, Noise, Asking
    <3>2. Now \in Rest /\ Now.id = "A2DP_SINK_CLEANUP_DONE" /\ Distinct(gapQ', Skipped) /\ AsksKept /\ Rest' = Rest \ {Now}
      BY <1>1, <1>2, <2>2, <3>1, TakesRest
    <3>3. Now = SinkDone /\ OnPhase /\ DisMain /\ SinkCleaned
      BY <3>2, PhaseOfRest
    <3>4. DisMain'
      BY <1>1, <1>2, <3>2, <3>3, MainSame
    <3> QED
      BY <3>2, <3>3, <3>4 DEF SinkCleaned
  <2> QED
    BY <1>1, <2>1, <2>2
<1> HIDE DEF Live
<1>4. ASSUME NEW p \in Enabled
      PROVE  /\ StartPending(p)' => StartPending(p)
             /\ Plain(p)' \/ (p \in Live /\ StopAsked(p)')
             /\ p \notin Live => inbox'[p] = inbox[p]
  <2>1. Plain(p)
    BY <1>3 DEF Steady
  <2>2. CASE p \notin Live
    <3>1. inbox'[p] = inbox[p]
      BY <1>1, <2>2, Posted
    <3> QED
      BY <2>1, <2>2, <3>1 DEF Plain, StartPending
  <2>3. CASE p \in Live
    <3>1. ~StartPending(p)
      BY <1>3, <2>3 DEF Live, OnPhase, Begun
    <3>2. inbox[p] = <<>>
      BY <2>1, <3>1 DEF Plain, StartPending
    <3>3. inbox'[p] \in {<<>>, One("PROFILE_API_STOP")}
      BY <1>1, <3>2, Posted
    <3> QED
      BY <2>3, <3>3, NotPending DEF Plain, StopAsked
  <2> QED
    BY <2>2, <2>3
<1>5. ASSUME NEW p \in Others PROVE StoppingOf(p)'
  <2>1. p \in Enabled /\ ~stopStatus'[p] /\ profile'[p] # "stopping"
    BY <1>1, <1>3, ProfilesThere DEF Steady
  <2>2. ~StopAnswered(p)'
    <3>1. \A ok \in BOOLEAN : StopIs(p, ok)' \notin StartMsgs
      BY RestKinds, MessagesApart DEF StopIs
    <3> QED
      BY <1>3, <3>1 DEF StopAnswered
  <2>3. StopAsked(p)' => startStatus'[p]
    <3>1. CASE p \in Live
      BY <1>1, <3>1 DEF Live
    <3>2. CASE p \notin Live
      <4>1. Plain(p)'
        BY <1>4, <2>1, <3>2
      <4>2. One("PROFILE_API_STOP") # <<>> /\ One("PROFILE_API_STOP") # One("PROFILE_API_START")
        <5>1. "PROFILE_API_STOP" # "PROFILE_API_START"
          OBVIOUS
        <5> QED
          BY <5>1, ShortQueues, ShortApart
      <4> QED
        BY <4>1, <4>2 DEF Plain, StopAsked
    <3> QED
      BY <3>1, <3>2
  <2>4. ~(StopIs(p, TRUE)' \in Rest')
    BY <2>2 DEF StopAnswered
  <2> QED
    BY <1>4, <2>1, <2>2, <2>3, <2>4 DEF StoppingOf
<1>6. StopsRun'
  <2>1. \E p \in Others : ~stopStatus'[p]
    BY <1>1, ProfilesThere
  <2>2. BT_AM \in Enabled => Plain(BT_AM)' /\ profile'[BT_AM] # "stopping"
    BY <1>1, <1>3, <1>4 DEF Steady, Live
  <2> QED
    BY <1>2, <1>3, <1>5, <2>1, <2>2 DEF StopsRun
<1>7. (\A q \in Enabled' : Begun(q)') /\ (StartAll' \in Rest' => NoneStarted')
  BY <1>1, <1>3, <1>4, StartsKept
<1>8. state' = "ON" /\ Still'
  BY <1>1, <1>3 DEF OnPhase, Still
<1> QED
  BY <1>3, <1>6, <1>7, <1>8 DEF OnPhase, TwoCommands

-----------------------------------------------------------------------------
(* The profiles' threads.                                                    *)

LEMMA Received ==
    ASSUME QueuesOK, NEW p \in Enabled, NEW id, Receives(p, id)
    PROVE  /\ inbox[p] # <<>>
           /\ \A x : inbox[p] = One(x) => x = id /\ inbox'[p] = <<>>
           /\ \A x, y : inbox[p] = Two(x, y) => x = id /\ inbox'[p] = One(y)
           /\ \A q \in Enabled : q # p => inbox'[q] = inbox[q]
<1>1. inbox[p] # <<>> /\ Head(inbox[p]) = id /\ inbox'[p] = Tail(inbox[p]) /\ \A q \in Enabled : q # p => inbox'[q] = inbox[q]
  BY DEF QueuesOK, Receives
<1>2. ASSUME NEW x, inbox[p] = One(x) PROVE x = id /\ inbox'[p] = <<>>
  <2>1. Head(One(x)) = x /\ Tail(One(x)) = <<>>
    BY ShortQueues
  <2> QED
    BY <1>1, <1>2, <2>1
<1>3. ASSUME NEW x, NEW y, inbox[p] = Two(x, y) PROVE x = id /\ inbox'[p] = One(y)
  <2>1. Head(Two(x, y)) = x /\ Tail(Two(x, y)) = One(y)
    BY ShortQueues
  <2> QED
    BY <1>1, <1>3, <2>1
<1> QED
  BY <1>1, <1>2, <1>3

(* Where a request of each kind is.                                           *)
LEMMA RequestPlace ==
    ASSUME TwoCommands, NEW p \in Enabled, inbox[p] # <<>>
    PROVE  /\ OnPhase
           /\ \/ inbox[p] = One("PROFILE_API_START")
              \/ /\ DisMain /\ SinkCleaning /\ p = A2DP_SINK
                 /\ inbox[p] \in {One("A2DP_SINK_CLEANUP_REQ"), Two("PROFILE_API_START", "A2DP_SINK_CLEANUP_REQ"),
                                  Two("A2DP_SINK_CLEANUP_REQ", "PROFILE_API_START")}
              \/ DisMain /\ StopsRun /\ p \in Others /\ StopAsked(p)
              \/ /\ DisMain /\ ManagerAsked /\ p = BT_AM
                 /\ inbox[p] \in {One("BT_AM_DISABLE_REQ"), Two("PROFILE_API_START", "BT_AM_DISABLE_REQ")}
<1>1. ~Low /\ OnPhase
  BY DEF Low, Empty, TwoCommands, StartAgain, ComingPhase, OffPhase, GoingPhase
<1>2. Plain(p) => inbox[p] = One("PROFILE_API_START")
  BY DEF Plain
<1>3. CASE NoDisable
  BY <1>1, <1>2, <1>3 DEF NoDisable, Steady
<1>4. CASE DisMain /\ SinkCleaning
  BY <1>1, <1>2, <1>4 DEF SinkCleaning
<1>5. CASE DisMain /\ SinkCleaned
  BY <1>1, <1>2, <1>5 DEF SinkCleaned, Steady
<1>6. CASE DisMain /\ StopsRun
  <2>1. CASE p \in Others
    BY <1>1, <1>2, <1>6, <2>1 DEF StopsRun, StoppingOf
  <2>2. CASE p = BT_AM
    BY <1>1, <1>2, <1>6, <2>2 DEF StopsRun
  <2> QED
    BY <2>1, <2>2 DEF Others
<1>7. CASE DisMain /\ ManagerAsked
  <2>1. CASE p \in Others
    BY <1>7, <2>1 DEF ManagerAsked, OthersDown
  <2>2. CASE p = BT_AM
    BY <1>1, <1>2, <1>7, <2>2 DEF ManagerAsked
  <2> QED
    BY <2>1, <2>2 DEF Others
<1>8. CASE DisMain /\ ManagerOff
  BY <1>1, <1>8 DEF ManagerOff
<1> QED
  BY <1>1, <1>3, <1>4, <1>5, <1>6, <1>7, <1>8 DEF OnPhase

LEMMA RequestTaken ==
    ASSUME QueuesOK, TwoCommands, NEW p \in Enabled, NEW id, Receives(p, id)
    PROVE  /\ OnPhase
           /\ id = "PROFILE_API_START" =>
                 /\ StartPending(p) /\ ~StartPending(p)'
                 /\ Plain(p) => inbox'[p] = <<>>
                 /\ \/ inbox[p] = One("PROFILE_API_START") /\ inbox'[p] = <<>>
                    \/ p = A2DP_SINK /\ SinkCleaning /\ inbox'[p] = One("A2DP_SINK_CLEANUP_REQ")
                    \/ p = BT_AM /\ ManagerAsked /\ inbox'[p] = One("BT_AM_DISABLE_REQ")
           /\ id = "PROFILE_API_STOP" =>
                 DisMain /\ StopsRun /\ p \in Others /\ StopAsked(p) /\ inbox'[p] = <<>>
           /\ id = "A2DP_SINK_CLEANUP_REQ" =>
                 /\ DisMain /\ SinkCleaning /\ p = A2DP_SINK
                 /\ \/ inbox'[p] = <<>>
                    \/ StartPending(p) /\ inbox'[p] = One("PROFILE_API_START")
           /\ id = "BT_AM_DISABLE_REQ" => DisMain /\ ManagerAsked /\ p = BT_AM /\ inbox'[p] = <<>>
<1> DEFINE start == "PROFILE_API_START"
           stop == "PROFILE_API_STOP"
           clean == "A2DP_SINK_CLEANUP_REQ"
           disable == "BT_AM_DISABLE_REQ"
<1>1. /\ inbox[p] # <<>>
      /\ \A x : inbox[p] = One(x) => x = id /\ inbox'[p] = <<>>
      /\ \A x, y : inbox[p] = Two(x, y) => x = id /\ inbox'[p] = One(y)
  BY Received
<1>2. start # stop /\ start # clean /\ start # disable /\ stop # clean /\ stop # disable /\ clean # disable
  OBVIOUS
<1>3. OnPhase
  BY <1>1, RequestPlace
<1>4. \A x, y, z : One(x) # Two(y, z) /\ Two(x, y) # <<>> /\ One(x) # <<>>
  BY ShortApart, ShortQueues
<1>5. inbox[p] \in {One(start), Two(start, clean), Two(clean, start), Two(start, disable)} <=> StartPending(p)
  BY DEF StartPending
<1>6. inbox'[p] \in {<<>>, One(clean), One(disable)} => ~StartPending(p)'
  BY NotPending
<1>7. inbox'[p] = One(start) => inbox'[p] # <<>>
  BY <1>4
<1> HIDE DEF start, stop, clean, disable
<1>8. CASE inbox[p] = One(start)
  <2>1. id = start /\ inbox'[p] = <<>>
    BY <1>1, <1>8
  <2> QED
    BY <1>2, <1>3, <1>5, <1>6, <1>8, <2>1 DEF start, stop, clean, disable
<1>9. CASE DisMain /\ SinkCleaning /\ p = A2DP_SINK /\ inbox[p] = One(clean)
  <2>1. id = clean /\ inbox'[p] = <<>>
    BY <1>1, <1>9
  <2> QED
    BY <1>2, <1>3, <1>9, <2>1 DEF start, stop, clean, disable
<1>10. CASE DisMain /\ SinkCleaning /\ p = A2DP_SINK /\ inbox[p] = Two(start, clean)
  <2>1. id = start /\ inbox'[p] = One(clean) /\ ~Plain(p)
    BY <1>1, <1>4, <1>10 DEF Plain
  <2> QED
    BY <1>2, <1>3, <1>5, <1>6, <1>10, <2>1 DEF start, stop, clean, disable
<1>11. CASE DisMain /\ SinkCleaning /\ p = A2DP_SINK /\ inbox[p] = Two(clean, start)
  <2>1. id = clean /\ inbox'[p] = One(start)
    BY <1>1, <1>11
  <2> QED
    BY <1>2, <1>3, <1>5, <1>11, <2>1 DEF start, stop, clean, disable
<1>12. CASE DisMain /\ StopsRun /\ p \in Others /\ StopAsked(p)
  <2>1. id = stop /\ inbox'[p] = <<>>
    BY <1>1, <1>12 DEF StopAsked, stop
  <2> QED
    BY <1>2, <1>3, <1>12, <2>1 DEF start, stop, clean, disable
<1>13. CASE DisMain /\ ManagerAsked /\ p = BT_AM /\ inbox[p] = One(disable)
  <2>1. id = disable /\ inbox'[p] = <<>>
    BY <1>1, <1>13
  <2> QED
    BY <1>2, <1>3, <1>13, <2>1 DEF start, stop, clean, disable
<1>14. CASE DisMain /\ ManagerAsked /\ p = BT_AM /\ inbox[p] = Two(start, disable)
  <2>1. id = start /\ inbox'[p] = One(disable) /\ ~Plain(p)
    BY <1>1, <1>4, <1>14 DEF Plain
  <2> QED
    BY <1>2, <1>3, <1>5, <1>6, <1>14, <2>1 DEF start, stop, clean, disable
<1> QED
  BY <1>1, <1>8, <1>9, <1>10, <1>11, <1>12, <1>13, <1>14, RequestPlace DEF start, stop, clean, disable

(* A start is taken from the profile's queue, and answered or not.            *)
LEMMA StartTakenTwo ==
    ASSUME QueuesOK, Scalars, TwoCommands, Alive, NEW p \in Enabled, Receives(p, "PROFILE_API_START"),
           UNCHANGED <<gapVars, mainVars, mainQ, stack>>,
           \A q \in Enabled : profile'[q] = profile[q] \/ (q = p /\ profile'[q] = "running"),
           gapQ' = gapQ \/ \E ok \in BOOLEAN : ToGap(StartIs(p, ok))
    PROVE  TwoCommands'
<1>1. /\ UNCHANGED <<config, state, startStatus, stopStatus, stack, mainQ, enableCmd, disableCmd, btState>>
      /\ \A q \in Enabled : q # p => profile'[q] = profile[q] /\ inbox'[q] = inbox[q]
  BY Received DEF Alive, gapVars, mainVars
<1>2. /\ Distinct(gapQ, Skipped) /\ gapQ \in Seq(GapEvents)
      /\ UNCHANGED <<Enabled, Others, StartMsgs, StopMsgs, StartAll, SinkDone, ManagerDone, AllStarted>>
  BY <1>1, SameSets DEF TwoCommands, QueuesOK, AllStarted
<1>3. /\ OnPhase /\ StartPending(p) /\ ~StartPending(p)'
      /\ Plain(p) => inbox'[p] = <<>>
      /\ \/ inbox[p] = One("PROFILE_API_START") /\ inbox'[p] = <<>>
         \/ p = A2DP_SINK /\ SinkCleaning /\ inbox'[p] = One("A2DP_SINK_CLEANUP_REQ")
         \/ p = BT_AM /\ ManagerAsked /\ inbox'[p] = One("BT_AM_DISABLE_REQ")
  BY RequestTaken
<1>4. ~startStatus[p] /\ StartAll \notin Rest /\ ~StartAnswered(p) /\ ~AllStarted /\ inbox[p] # <<>>
  BY <1>3, Received DEF OnPhase, Begun, AllStarted
<1>5. /\ Distinct(gapQ', Skipped) /\ AsksKept
      /\ Rest' = Rest \/ \E ok \in BOOLEAN : Rest' = Rest \cup {StartIs(p, ok)}
  <2>1. CASE gapQ' = gapQ
    BY <1>2, <2>1, NothingChanges
  <2>2. ASSUME NEW ok \in BOOLEAN, ToGap(StartIs(p, ok))
        PROVE  Distinct(gapQ', Skipped) /\ AsksKept /\ Rest' = Rest \cup {StartIs(p, ok)}
    <3>1. StartIs(p, ok) \in GapEvents /\ StartIs(p, ok).id \notin Asking /\ StartIs(p, ok).id \notin Noise
      BY RestKinds DEF Asking, Noise
    <3>2. StartIs(p, ok) \notin Rest
      BY <1>4 DEF StartAnswered
    <3> QED
      BY <1>2, <2>2, <3>1, <3>2, PostsRest
  <2> QED
    BY <2>1, <2>2
<1>6. /\ \A e \in Rest : e \in Rest'
      /\ \A e \in Rest' : e \in Rest \/ (\E ok \in BOOLEAN : e = StartIs(p, ok))
      /\ ~(StartIs(p, TRUE) \in Rest' /\ StartIs(p, FALSE) \in Rest')
  <2>1. CASE Rest' = Rest
    BY <1>4, <2>1 DEF StartAnswered
  <2>2. ASSUME NEW ok \in BOOLEAN, Rest' = Rest \cup {StartIs(p, ok)}
        PROVE  ~(StartIs(p, TRUE) \in Rest' /\ StartIs(p, FALSE) \in Rest')
    <3>1. StartIs(p, TRUE) # StartIs(p, FALSE) /\ StartIs(p, TRUE) \notin Rest /\ StartIs(p, FALSE) \notin Rest
      BY <1>4, MessagesApart DEF StartAnswered
    <3> QED
      BY <2>2, <3>1
  <2> QED
    BY <1>5, <2>1, <2>2
<1>7. /\ StartAll' \notin Rest'
      /\ \A q \in Enabled' : Begun(q)'
  <2>1. StartAll' \notin Rest'
    BY <1>2, <1>4, <1>6, RestKinds, MessagesApart
  <2>2. \A q, ok : StartIs(q, ok)' = StartIs(q, ok)
    BY DEF StartIs
  <2>3. ASSUME NEW q \in Enabled, q # p PROVE Begun(q)'
    <3>1. Begun(q)
      BY <1>3 DEF OnPhase
    <3>2. \A ok \in BOOLEAN : StartIs(q, ok)' \in Rest' => StartIs(q, ok) \in Rest
      BY <1>6, <2>2, <2>3, MessagesApart
    <3>3. UNCHANGED <<StartPending(q), startStatus[q]>>
      BY <1>1, <2>3 DEF StartPending
    <3> QED
      BY <2>1, <2>2, <3>1, <3>2, <3>3 DEF Begun, StartAnswered
  <2>4. Begun(p)'
    BY <1>1, <1>3, <1>4, <1>6, <2>1, <2>2 DEF Begun
  <2> QED
    BY <1>2, <2>1, <2>3, <2>4
<1>8. \A e : e \in StartMsgs \cup {StartIs(p, TRUE), StartIs(p, FALSE)} => e \in StartMsgs
  BY RestKinds
<1>9. \A X : Rest \subseteq StartMsgs \cup X => Rest' \subseteq StartMsgs' \cup X
  BY <1>2, <1>6, <1>8, RestKinds
<1>10. state' = "ON" /\ Still'
  BY <1>1, <1>3 DEF OnPhase, Still
<1>11. Steady => Steady'
  <2>1. ASSUME Steady, NEW q \in Enabled PROVE Plain(q)' /\ profile'[q] # "stopping"
    <3>1. CASE q # p
      BY <1>1, <2>1, <3>1 DEF Steady, Plain
    <3>2. CASE q = p
      <4>1. Plain(p) /\ profile[p] # "stopping"
        BY <2>1 DEF Steady
      <4> QED
        BY <1>3, <3>2, <4>1 DEF Plain
    <3> QED
      BY <3>1, <3>2
  <2> QED
    BY <1>2, <2>1 DEF Steady
<1>12. CASE NoDisable
  <2>1. OnMain
    BY <1>4, <1>12 DEF NoDisable, CalmMain, Empty
  <2>2. OnMain'
    BY <1>1, <1>5, <2>1, MainSame
  <2>3. Rest' \subseteq StartMsgs'
    BY <1>9, <1>12 DEF NoDisable
  <2> QED
    BY <1>2, <1>4, <1>5, <1>7, <1>10, <1>11, <1>12, <2>2, <2>3 DEF NoDisable, CalmMain, OnPhase, TwoCommands
<1>13. CASE DisMain /\ (SinkCleaning \/ SinkCleaned \/ StopsRun \/ ManagerAsked \/ ManagerOff)
  <2>1. DisMain'
    BY <1>1, <1>5, <1>4, <1>13, MainSame
  <2>2. ~ManagerOff
    BY <1>4 DEF ManagerOff, Low, Empty
  <2>3. SinkCleaning => SinkCleaning'
    <3> SUFFICES ASSUME SinkCleaning PROVE SinkCleaning'
      OBVIOUS
    <3>1. ASSUME NEW q \in Enabled
          PROVE  /\ profile'[q] # "stopping"
                 /\ \/ Plain(q)'
                    \/ /\ q = A2DP_SINK
                       /\ inbox'[q] \in {One("A2DP_SINK_CLEANUP_REQ"),
                                         Two("PROFILE_API_START", "A2DP_SINK_CLEANUP_REQ"),
                                         Two("A2DP_SINK_CLEANUP_REQ", "PROFILE_API_START")}
      <4>1. CASE q # p
        BY <1>1, <4>1 DEF SinkCleaning, Plain
      <4>2. CASE q = p
        <5>1. profile'[p] # "stopping"
          BY DEF SinkCleaning
        <5>2. p = BT_AM => Plain(p)
          BY GapAssumption DEF SinkCleaning
        <5> QED
          BY <1>3, <4>2, <5>1, <5>2 DEF Plain
      <4> QED
        BY <4>1, <4>2
    <3>2. Rest' \subseteq StartMsgs'
      BY <1>9 DEF SinkCleaning
    <3> QED
      BY <1>2, <3>1, <3>2 DEF SinkCleaning
  <2>4. SinkCleaned => SinkCleaned'
    BY <1>2, <1>6, <1>9, <1>11 DEF SinkCleaned
  <2>5. StopsRun => StopsRun'
    <3> SUFFICES ASSUME StopsRun PROVE StopsRun'
      OBVIOUS
    <3>1. \A q, ok : StopIs(q, ok)' = StopIs(q, ok) /\ (StopIs(q, ok)' \in Rest' => StopIs(q, ok) \in Rest)
      BY <1>6, MessagesApart DEF StopIs
    <3>2. ASSUME NEW q \in Others PROVE StoppingOf(q)'
      <4>1. StoppingOf(q) /\ (StopAnswered(q)' => StopAnswered(q))
        BY <3>1 DEF StopsRun, StopAnswered
      <4>2. ~(StopIs(q, TRUE)' \in Rest' /\ StopIs(q, FALSE)' \in Rest')
        BY <3>1, <4>1 DEF StoppingOf
      <4>3. CASE q # p
        <5>1. UNCHANGED <<Plain(q), StopAsked(q), profile[q], startStatus[q], stopStatus[q]>>
          BY <1>1, <4>3, ProfilesThere DEF Plain, StopAsked
        <5> QED
          BY <4>1, <4>2, <5>1 DEF StoppingOf
      <4>4. CASE q = p
        <5>1. Plain(p) /\ profile[p] # "stopping" /\ ~StopAnswered(p) /\ ~stopStatus[p]
          BY <1>4, <4>1, <4>4 DEF StoppingOf
        <5>2. Plain(p)' /\ ~StopAsked(p)' /\ profile'[p] # "stopping" /\ ~stopStatus'[p]
          BY <1>1, <1>3, <5>1, ShortQueues DEF Plain, StopAsked
        <5> QED
          BY <4>1, <4>2, <4>4, <5>1, <5>2 DEF StoppingOf
      <4> QED
        BY <4>3, <4>4
    <3>3. BT_AM \in Enabled => Plain(BT_AM)' /\ profile'[BT_AM] # "stopping"
      <4>1. CASE p = BT_AM
        BY <1>3, <4>1 DEF StopsRun, Plain
      <4>2. CASE p # BT_AM
        BY <1>1, <4>2 DEF StopsRun, Plain
      <4> QED
        BY <4>1, <4>2
    <3>4. Rest' \subseteq StartMsgs' \cup StopMsgs'
      <4>1. Rest \subseteq StartMsgs \cup StopMsgs
        BY DEF StopsRun
      <4>2. Rest' \subseteq StartMsgs' \cup StopMsgs
        BY <1>9, <4>1
      <4> QED
        BY <1>2, <4>2
    <3> QED
      BY <1>1, <1>2, <3>2, <3>3, <3>4 DEF StopsRun
  <2>6. ManagerAsked => ManagerAsked'
    <3> SUFFICES ASSUME ManagerAsked PROVE ManagerAsked'
      OBVIOUS
    <3>1. p = BT_AM
      BY <1>4 DEF ManagerAsked, OthersDown, Others
    <3>2. OthersDown'
      BY <1>1, <1>2, <3>1 DEF ManagerAsked, OthersDown, Others
    <3>3. profile'[BT_AM] # "stopping"
      BY <3>1 DEF ManagerAsked
    <3>4. Plain(BT_AM)' \/ inbox'[BT_AM] = One("BT_AM_DISABLE_REQ")
      <4>1. ~(p = A2DP_SINK)
        BY <3>1, GapAssumption
      <4> QED
        BY <1>3, <3>1, <4>1 DEF Plain
    <3>5. Rest' \subseteq StartMsgs'
      BY <1>9 DEF ManagerAsked
    <3> QED
      BY <1>2, <3>2, <3>3, <3>4, <3>5 DEF ManagerAsked
  <2> QED
    BY <1>5, <1>7, <1>10, <1>13, <2>1, <2>2, <2>3, <2>4, <2>5, <2>6 DEF OnPhase, TwoCommands
<1> QED
  BY <1>3, <1>12, <1>13 DEF OnPhase

(* A stop is taken from the profile's queue, deferred, answered or dropped.   *)
LEMMA StopMovesTwo ==
    ASSUME QueuesOK, Scalars, TwoCommands, Alive, NEW p \in Others, OnPhase, DisMain, StopsRun,
           UNCHANGED <<gapVars, mainVars, mainQ, stack>>,
           \A q \in Enabled : q # p => profile'[q] = profile[q] /\ inbox'[q] = inbox[q],
           \/ StopAsked(p) /\ inbox'[p] = <<>>
           \/ profile[p] = "stopping" /\ inbox'[p] = inbox[p] /\ profile'[p] = "idle",
           \/ gapQ' = gapQ /\ profile'[p] \in {profile[p], "stopping"}
           \/ profile'[p] = "idle" /\ \E ok \in BOOLEAN : ToGap(StopIs(p, ok))
    PROVE  TwoCommands'
<1>1. UNCHANGED <<config, state, startStatus, stopStatus, stack, mainQ, enableCmd, disableCmd, btState>>
  BY DEF Alive, gapVars, mainVars
<1>2. /\ Distinct(gapQ, Skipped) /\ gapQ \in Seq(GapEvents) /\ Others \subseteq Enabled
      /\ UNCHANGED <<Enabled, Others, StartMsgs, StopMsgs, StartAll, SinkDone, ManagerDone, AllStarted>>
  BY <1>1, SameSets, ProfilesThere DEF TwoCommands, QueuesOK, AllStarted
<1>3. /\ startStatus[p] /\ ~stopStatus[p] /\ ~StopAnswered(p)
      /\ Plain(p)' /\ ~StopAsked(p)'
      /\ StartPending(p)' => StartPending(p)
  <2>1. StoppingOf(p)
    BY DEF StopsRun
  <2>2. One("PROFILE_API_STOP") # <<>> /\ One("PROFILE_API_STOP") # One("PROFILE_API_START")
    <3>1. "PROFILE_API_STOP" # "PROFILE_API_START"
      OBVIOUS
    <3> QED
      BY <3>1, ShortQueues, ShortApart
  <2>3. startStatus[p] /\ ~stopStatus[p] /\ ~StopAnswered(p)
    BY <2>1 DEF StoppingOf
  <2>4. CASE inbox'[p] = <<>>
    <3>1. ~StartPending(p)'
      BY <2>4, NotPending
    <3> QED
      BY <2>2, <2>3, <2>4, <3>1 DEF Plain, StopAsked
  <2>5. CASE profile[p] = "stopping" /\ inbox'[p] = inbox[p]
    BY <2>1, <2>2, <2>3, <2>5 DEF StoppingOf, Plain, StopAsked, StartPending
  <2> QED
    BY <2>4, <2>5
<1>4. /\ Distinct(gapQ', Skipped) /\ AsksKept
      /\ \/ Rest' = Rest /\ profile'[p] \in {profile[p], "stopping"}
         \/ profile'[p] = "idle" /\ \E ok \in BOOLEAN : Rest' = Rest \cup {StopIs(p, ok)}
  <2>1. CASE gapQ' = gapQ /\ profile'[p] \in {profile[p], "stopping"}
    BY <1>2, <2>1, NothingChanges
  <2>2. ASSUME NEW ok \in BOOLEAN, ToGap(StopIs(p, ok)), profile'[p] = "idle"
        PROVE  Distinct(gapQ', Skipped) /\ AsksKept /\ Rest' = Rest \cup {StopIs(p, ok)}
    <3>1. StopIs(p, ok) \in GapEvents /\ StopIs(p, ok).id \notin Asking /\ StopIs(p, ok).id \notin Noise
      BY RestKinds DEF Asking, Noise
    <3>2. StopIs(p, ok) \notin Rest
      BY <1>3 DEF StopAnswered
    <3> QED
      BY <1>2, <2>2, <3>1, <3>2, PostsRest
  <2> QED
    BY <2>1, <2>2
<1>5. /\ \A e \in Rest' : e \in Rest \/ (\E ok \in BOOLEAN : e = StopIs(p, ok))
      /\ ~(StopIs(p, TRUE) \in Rest' /\ StopIs(p, FALSE) \in Rest')
  <2>1. CASE Rest' = Rest
    BY <1>3, <2>1 DEF StopAnswered
  <2>2. ASSUME NEW ok \in BOOLEAN, Rest' = Rest \cup {StopIs(p, ok)}
        PROVE  ~(StopIs(p, TRUE) \in Rest' /\ StopIs(p, FALSE) \in Rest')
    <3>1. StopIs(p, TRUE) # StopIs(p, FALSE) /\ StopIs(p, TRUE) \notin Rest /\ StopIs(p, FALSE) \notin Rest
      BY <1>3, MessagesApart DEF StopAnswered
    <3> QED
      BY <2>2, <3>1
  <2> QED
    BY <1>4, <2>1, <2>2
<1>6. (\A q \in Enabled' : Begun(q)') /\ (StartAll' \in Rest' => NoneStarted')
  <2>1. \A q \in Enabled : StartPending(q)' => StartPending(q)
    BY <1>3 DEF StartPending
  <2>2. \A e \in Rest' : e \in Rest \/ e.id \notin {"PROFILE_EVENT_START_DONE", "PROFILE_API_START"}
    BY <1>5, MessagesApart
  <2> QED
    BY <1>1, <2>1, <2>2, StartsKept
<1>7. state' = "ON" /\ Still'
  BY <1>1 DEF OnPhase, Still
<1>8. DisMain'
  BY <1>1, <1>2, <1>4, MainSame
<1>9. \A q, ok : StopIs(q, ok)' = StopIs(q, ok)
  BY DEF StopIs
<1>10. ASSUME NEW q \in Others, q # p PROVE StoppingOf(q)'
  <2>1. StoppingOf(q)
    BY DEF StopsRun
  <2>2. \A ok \in BOOLEAN : StopIs(q, ok)' \in Rest' => StopIs(q, ok) \in Rest
    BY <1>5, <1>9, <1>10, MessagesApart
  <2>3. ~(StopIs(q, TRUE)' \in Rest' /\ StopIs(q, FALSE)' \in Rest') /\ (StopAnswered(q)' => StopAnswered(q))
    BY <1>9, <2>1, <2>2 DEF StoppingOf, StopAnswered
  <2>4. UNCHANGED <<Plain(q), StopAsked(q), profile[q], startStatus[q], stopStatus[q]>>
    BY <1>1, <1>2, <1>10 DEF Plain, StopAsked
  <2> QED
    BY <2>1, <2>3, <2>4 DEF StoppingOf
<1>11. StoppingOf(p)'
  <2>1. ~(StopIs(p, TRUE)' \in Rest' /\ StopIs(p, FALSE)' \in Rest')
    BY <1>5, <1>9
  <2>2. CASE Rest' = Rest
    <3>1. ~StopAnswered(p)'
      BY <1>3, <1>9, <2>2 DEF StopAnswered
    <3> QED
      BY <1>1, <1>3, <2>1, <3>1 DEF StoppingOf
  <2>3. CASE profile'[p] = "idle"
    BY <1>1, <1>3, <2>1, <2>3 DEF StoppingOf
  <2> QED
    BY <1>4, <2>2, <2>3
<1>12. StopsRun'
  <2>1. BT_AM \in Enabled => Plain(BT_AM)' /\ profile'[BT_AM] # "stopping"
    BY DEF StopsRun, Plain, Others
  <2>2. Rest' \subseteq StartMsgs' \cup StopMsgs'
    BY <1>2, <1>5, RestKinds DEF StopsRun
  <2> QED
    BY <1>1, <1>2, <1>10, <1>11, <2>1, <2>2 DEF StopsRun
<1> QED
  BY <1>4, <1>6, <1>7, <1>8, <1>12 DEF OnPhase, TwoCommands

LEMMA SinkCleansTwo ==
    ASSUME QueuesOK, Scalars, TwoCommands, Alive, NEW p \in Enabled, SinkCleansUp(p)
    PROVE  TwoCommands'
<1>1. /\ UNCHANGED <<config, state, startStatus, stopStatus, profile, stack, mainQ, enableCmd, disableCmd, btState>>
      /\ Receives(p, "A2DP_SINK_CLEANUP_REQ") /\ ToGap(SinkDone)
  BY DEF SinkCleansUp, Alive, gapVars, mainVars, profVars, SinkDone
<1>2. /\ Distinct(gapQ, Skipped) /\ gapQ \in Seq(GapEvents)
      /\ UNCHANGED <<Enabled, Others, StartMsgs, StopMsgs, StartAll, SinkDone, ManagerDone, AllStarted>>
  BY <1>1, SameSets DEF TwoCommands, QueuesOK, AllStarted
<1>3. /\ OnPhase /\ DisMain /\ SinkCleaning /\ p = A2DP_SINK
      /\ \/ inbox'[p] = <<>>
         \/ StartPending(p) /\ inbox'[p] = One("PROFILE_API_START")
      /\ \A q \in Enabled : q # p => inbox'[q] = inbox[q]
  BY <1>1, RequestTaken, Received
<1>4. Distinct(gapQ', Skipped) /\ AsksKept /\ Rest' = Rest \cup {SinkDone}
  <2>1. SinkDone \in GapEvents /\ SinkDone.id \notin Asking /\ SinkDone.id \notin Noise
    BY RestKinds DEF Asking, Noise
  <2>2. SinkDone \notin Rest
    BY <1>3, RestKinds DEF SinkCleaning
  <2> QED
    BY <1>1, <1>2, <2>1, <2>2, PostsRest
<1>5. (\A q \in Enabled' : Begun(q)') /\ (StartAll' \in Rest' => NoneStarted')
  <2>1. \A q \in Enabled : StartPending(q)' => StartPending(q)
    <3>1. CASE inbox'[p] = <<>>
      <4>1. ~StartPending(p)'
        BY <3>1, NotPending
      <4> QED
        BY <1>3, <4>1 DEF StartPending
    <3>2. CASE StartPending(p)
      BY <1>3, <3>2 DEF StartPending
    <3> QED
      BY <1>3, <3>1, <3>2
  <2> QED
    BY <1>1, <1>3, <1>4, <2>1, StartsKept, RestKinds
<1>6. SinkCleaned'
  <2>1. ASSUME NEW q \in Enabled PROVE Plain(q)' /\ profile'[q] # "stopping"
    BY <1>1, <1>3 DEF SinkCleaning, Plain
  <2> QED
    BY <1>2, <1>3, <1>4, <2>1 DEF SinkCleaning, SinkCleaned, Steady
<1>7. DisMain' /\ state' = "ON" /\ Still'
  <2>1. DisMain'
    BY <1>1, <1>2, <1>3, <1>4, MainSame
  <2> QED
    BY <1>1, <1>3, <2>1 DEF OnPhase, Still
<1> QED
  BY <1>4, <1>5, <1>6, <1>7 DEF OnPhase, TwoCommands

LEMMA ManagerStopsTwo ==
    ASSUME QueuesOK, Scalars, TwoCommands, Alive, NEW p \in Enabled, AudioManagerStops(p)
    PROVE  TwoCommands'
<1>1. /\ UNCHANGED <<config, state, startStatus, stopStatus, stack, mainQ, enableCmd, disableCmd, btState>>
      /\ Receives(p, "BT_AM_DISABLE_REQ") /\ ToGap(ManagerDone)
      /\ profile' = [profile EXCEPT ![p] = "idle"]
  BY DEF AudioManagerStops, Alive, gapVars, mainVars, ManagerDone
<1>2. /\ Distinct(gapQ, Skipped) /\ gapQ \in Seq(GapEvents)
      /\ UNCHANGED <<Enabled, Others, StartMsgs, StopMsgs, StartAll, SinkDone, ManagerDone, AllStarted>>
  BY <1>1, SameSets DEF TwoCommands, QueuesOK, AllStarted
<1>3. /\ OnPhase /\ DisMain /\ ManagerAsked /\ p = BT_AM /\ inbox'[p] = <<>>
      /\ \A q \in Enabled : q # p => inbox'[q] = inbox[q]
  BY <1>1, RequestTaken, Received
<1>4. /\ Distinct(gapQ', Skipped) /\ AsksKept /\ Rest' = Rest \cup {ManagerDone}
      /\ LastIs(gapQ', "BT_AM_DISABLE_DONE")
  <2>1. ManagerDone \in GapEvents /\ ManagerDone.id \notin Asking /\ ManagerDone.id \notin Noise
    BY RestKinds DEF Asking, Noise
  <2>2. \A x \in Rest : x.id # "BT_AM_DISABLE_DONE"
    BY <1>3, RestKinds DEF ManagerAsked
  <2>3. ManagerDone \notin Rest /\ ManagerDone.id = "BT_AM_DISABLE_DONE" /\ "BT_AM_DISABLE_DONE" \notin Skipped
    BY <2>2, RestKinds DEF Skipped, Noise, Asking
  <2>4. LastIs(gapQ', "BT_AM_DISABLE_DONE")
    BY <1>1, <1>2, <2>1, <2>2, <2>3, LastAppend DEF ToGap, Rest
  <2> QED
    BY <1>1, <1>2, <2>1, <2>3, <2>4, PostsRest
<1>5. (\A q \in Enabled' : Begun(q)') /\ (StartAll' \in Rest' => NoneStarted')
  <2>1. \A q \in Enabled : StartPending(q)' => StartPending(q)
    <3>1. ~StartPending(p)'
      BY <1>3, NotPending
    <3> QED
      BY <1>3, <3>1 DEF StartPending
  <2> QED
    BY <1>1, <1>3, <1>4, <2>1, StartsKept, RestKinds
<1>6. ManagerOff'
  <2>1. \A q \in Enabled : profile'[q] = IF q = p THEN "idle" ELSE profile[q]
    BY <1>1 DEF Scalars
  <2>2. \A q \in Enabled : inbox'[q] = <<>> /\ profile'[q] = "idle"
    BY <1>3, <2>1 DEF ManagerAsked, OthersDown, Others
  <2>3. OthersDown' /\ Low'
    BY <1>1, <1>2, <1>3, <2>2 DEF ManagerAsked, OthersDown, Others, Low, Empty, AllIdle
  <2> QED
    BY <1>2, <1>3, <1>4, <2>3 DEF ManagerAsked, ManagerOff
<1>7. DisMain' /\ state' = "ON" /\ Still'
  <2>1. DisMain'
    BY <1>1, <1>2, <1>3, <1>4, MainSame
  <2> QED
    BY <1>1, <1>3, <2>1 DEF OnPhase, Still
<1> QED
  BY <1>4, <1>5, <1>6, <1>7 DEF OnPhase, TwoCommands

LEMMA ProfileTwo ==
    ASSUME QueuesOK, Scalars, TwoCommands, Alive, NEW p \in Enabled, ProfileStep(p) \/ StopCompletes(p)
    PROVE  TwoCommands'
<1>1. CASE Receives(p, "PROFILE_API_START") /\ (Starts(p) \/ DropsMessage(p))
  <2>1. UNCHANGED <<gapVars, mainVars, mainQ, stack>>
    BY <1>1 DEF Starts, DropsMessage
  <2>2. \A q \in Enabled : profile'[q] = profile[q] \/ (q = p /\ profile'[q] = "running")
    BY <1>1 DEF Starts, DropsMessage, Scalars, profVars
  <2>3. gapQ' = gapQ \/ \E ok \in BOOLEAN : ToGap(StartIs(p, ok))
    BY <1>1 DEF Starts, DropsMessage, StartIs
  <2> QED
    BY <1>1, <2>1, <2>2, <2>3, StartTakenTwo
<1>2. CASE Receives(p, "PROFILE_API_STOP") /\ (Stops(p) \/ DropsMessage(p))
  <2>1. UNCHANGED <<gapVars, mainVars, mainQ, stack>>
    BY <1>2 DEF Stops, DropsMessage
  <2>2. OnPhase /\ DisMain /\ StopsRun /\ p \in Others /\ StopAsked(p) /\ inbox'[p] = <<>>
    BY <1>2, RequestTaken
  <2>3. \A q \in Enabled : q # p => profile'[q] = profile[q] /\ inbox'[q] = inbox[q]
    <3>1. \A q \in Enabled : q # p => profile'[q] = profile[q]
      BY <1>2 DEF Stops, DropsMessage, Scalars, profVars
    <3> QED
      BY <1>2, <3>1, Received
  <2>4. \/ gapQ' = gapQ /\ profile'[p] \in {profile[p], "stopping"}
        \/ profile'[p] = "idle" /\ \E ok \in BOOLEAN : ToGap(StopIs(p, ok))
    <3>1. CASE DropsMessage(p)
      BY <3>1 DEF DropsMessage, profVars
    <3>2. CASE Stops(p)
      BY <3>2 DEF Stops, StopIs, Scalars
    <3> QED
      BY <1>2, <3>1, <3>2
  <2> QED
    BY <2>1, <2>2, <2>3, <2>4, StopMovesTwo
<1>3. CASE StopCompletes(p)
  <2>1. UNCHANGED <<gapVars, mainVars, mainQ, stack, inbox>> /\ profile[p] = "stopping"
    BY <1>3 DEF StopCompletes
  <2>2. OnPhase /\ DisMain /\ StopsRun /\ p \in Others
    BY <2>1 DEF TwoCommands, StartAgain, ComingPhase, OffPhase, GoingPhase, OnPhase, Low, AllIdle, NoDisable, Steady,
       SinkCleaning, SinkCleaned, StopsRun, ManagerAsked, ManagerOff, OthersDown, Others
  <2>3. /\ \A q \in Enabled : q # p => profile'[q] = profile[q] /\ inbox'[q] = inbox[q]
        /\ profile'[p] = "idle" /\ inbox'[p] = inbox[p]
        /\ \E ok \in BOOLEAN : ToGap(StopIs(p, ok))
    BY <1>3, <2>1 DEF StopCompletes, Scalars, StopIs
  <2> QED
    BY <2>1, <2>2, <2>3, StopMovesTwo
<1>4. CASE SinkCleansUp(p) \/ AudioManagerStops(p)
  BY <1>4, SinkCleansTwo, ManagerStopsTwo
<1> QED
  BY <1>1, <1>2, <1>3, <1>4 DEF ProfileStep, Starts, Stops, DropsMessage

-----------------------------------------------------------------------------
(* The second inductive invariant.                                           *)

TwoInv == AtFirst /\ TwoCommands

LEMMA InitTwo == ASSUME Init PROVE TwoInv
<1>1. Scalars /\ gapQ = <<>>
  BY InitHolds, TypesMeet DEF IInv, Init
<1>2. Rest = {} /\ Distinct(gapQ, Skipped) /\ Nothing
  BY <1>1 DEF Rest, Kept, Distinct, Nothing, AsksNone
<1>3. IdleOff /\ NoneStarted /\ Low /\ Still
  BY DEF Init, IdleOff, Idle, NoneStarted, Low, Empty, AllIdle, Still
<1>4. StrictOff /\ state = "OFF"
  BY <1>2, <1>3 DEF Init, StrictOff
<1>5. AtFirst
  BY <1>3 DEF Init, AtFirst
<1> QED
  BY <1>2, <1>3, <1>4, <1>5 DEF OffPhase, TwoCommands, TwoInv

LEMMA FirstKept ==
    ASSUME QueuesOK, AtFirst, TwoCommands, Next
    PROVE  AtFirst'
<1> SUFFICES ASSUME mainPc' = "enabling" PROVE FALSE
  BY DEF AtFirst
<1> USE DEF gapVars, mainVars, profVars
<1>1. CASE MainStep \/ User
  BY <1>1 DEF MainStep, User, PostDefaultEnable, InitHandlerReturns, MainHandles, StartThread,
     SendEnableCmdToGap, SendDisableCmdToGap, AtFirst
<1>2. CASE GapStep \/ StackCallback \/ SsrCleanupCb \/ \E t \in Timers : TimerExpires(t)
  <2>1. mainPc = "enabling"
    BY <1>2 DEF GapStep, AdapterTurnedOn, AdapterTurnedOff, IgnoreEnable, HandleEnable, StartProfiles, StartDone,
       StopDone, HandleDisable, IgnoreDisable, CleanUpSinkFirst, StopProfiles, Kill, StackCallback, SsrCleanupCb, TimerExpires
  <2>2. gapQ = <<>> /\ stack = "off" /\ armed = {}
    BY <2>1 DEF AtFirst
  <2>3. ~GapStep
    BY <2>2 DEF GapStep, AdapterTurnedOn, AdapterTurnedOff, IgnoreEnable, HandleEnable, StartProfiles, StartDone,
       StopDone, HandleDisable, IgnoreDisable, CleanUpSinkFirst, StopProfiles, Kill, Handling
  <2> QED
    BY <1>2, <2>2, <2>3 DEF StackCallback, SsrCleanupCb, TimerExpires
<1>3. ASSUME NEW p \in Enabled, ProfileStep(p) \/ StopCompletes(p) PROVE FALSE
  <2>1. mainPc = "enabling"
    BY <1>3 DEF ProfileStep, DropsMessage, Starts, Stops, SinkCleansUp, AudioManagerStops, StopCompletes
  <2>2. Low
    BY <2>1 DEF AtFirst, TwoCommands, OnPhase, StartAgain, ComingPhase, OffPhase, GoingPhase
  <2>3. inbox[p] = <<>> /\ profile[p] = "idle"
    BY <2>2 DEF Low, Empty, AllIdle
  <2> QED
    BY <1>3, <2>3 DEF ProfileStep, DropsMessage, Starts, Stops, SinkCleansUp, AudioManagerStops, StopCompletes, Receives
<1> QED
  BY <1>1, <1>2, <1>3 DEF Next

LEMMA NextKeepsTwo == ASSUME IInv, TwoInv, [Next]_vars PROVE TwoInv'
<1>1. QueuesOK /\ Scalars /\ AtFirst /\ TwoCommands
  BY TypesMeet DEF IInv, TwoInv
<1>2. CASE Next
  <2>1. Alive
    BY <1>2 DEF Next
  <2>2. TwoCommands'
    <3>1. CASE MainStep \/ User
      BY <1>1, <2>1, <3>1, MainStepTwo, UserTwo
    <3>2. CASE GapStep /\ ~Kill
      BY <1>1, <2>1, <3>2, TurnedOnTwo, TurnedOffTwo, AskTwo, StartTwo, StartDoneTwo, StopDoneTwo, HandleDisableTwo,
         CleanUpSinkTwo, StopProfilesTwo DEF GapStep
    <3>3. CASE Kill \/ SsrCleanupCb \/ \E t \in Timers : TimerExpires(t)
      BY <1>1, <2>1, <3>3, NoiseTwo
    <3>4. CASE StackCallback
      BY <1>1, <2>1, <3>4, StackTwo
    <3>5. ASSUME NEW p \in Enabled, ProfileStep(p) \/ StopCompletes(p) PROVE TwoCommands'
      BY <1>1, <2>1, <3>5, ProfileTwo
    <3> QED
      BY <1>2, <3>1, <3>2, <3>3, <3>4, <3>5 DEF Next
  <2> QED
    BY <1>1, <1>2, <2>2, FirstKept DEF TwoInv
<1>3. CASE UNCHANGED vars
  <2>1. UNCHANGED <<config, gapVars, profile, inbox, stack, gapQ, mainQ, enableCmd, disableCmd, btState, armed, mainPc>>
    BY <1>3 DEF vars, mainVars, profVars
  <2>2. AsksKept /\ Distinct(gapQ', Skipped) /\ Rest' = Rest /\ \A a : LastIs(gapQ, a) => LastIs(gapQ', a)
    BY <1>1, <2>1, NothingChanges DEF TwoCommands
  <2>3. UNCHANGED <<AllStarted, NoneStarted, IdleOff>>
    BY <2>1, SameSets, SameFlags DEF AllStarted, NoneStarted, gapVars
  <2>4. MainKept
    BY <2>1, <2>2, <2>3, MainSameKept
  <2>5. TwoCommands'
    BY <1>1, <2>1, <2>2, <2>4, PhasesSame
  <2>6. AtFirst'
    BY <1>1, <2>1, <2>3 DEF AtFirst, gapVars
  <2> QED
    BY <2>5, <2>6 DEF TwoInv
<1> QED
  BY <1>2, <1>3

(* In every configuration, the default enable included: the main thread has    *)
(* never more than two commands under way, a disable only when nothing else     *)
(* waits for the GAP thread, and a disable goes through its steps in their       *)
(* order (Gap::ProcessEvent, from GAP_API_DISABLE to BT_AM_DISABLE_DONE).        *)
THEOREM SpecTwoCommands == Spec => [](AtFirst /\ TwoCommands)
<1>1. Init => TwoInv
  BY InitTwo
<1>2. IInv /\ TwoInv /\ [Next]_vars => TwoInv'
  BY NextKeepsTwo
<1>3. TwoInv => AtFirst /\ TwoCommands
  BY DEF TwoInv
<1> QED
  BY <1>1, <1>2, <1>3, SpecIInv, PTL DEF Spec

(* Gap::HandleDisable comes last: the stack is told to disable only when every   *)
(* profile has stopped, the audio manager included; an enable that InitHandler    *)
(* posts beside the user's does not change that.                                  *)
THEOREM SpecStackDownLast == Spec => StackDownLast
<1>1. ASSUME IInv, AtFirst /\ TwoCommands, [Next]_vars, stack = "on", stack' = "disabling"
      PROVE  \A p \in Enabled : profile[p] = "idle"
  <2>1. Next /\ QueuesOK /\ TwoCommands
    BY <1>1 DEF vars, IInv
  <2>2. HandleDisable
    <3> USE DEF gapVars, mainVars, profVars
    <3>1. ~MainStep /\ ~User
      BY <1>1 DEF MainStep, User, PostDefaultEnable, InitHandlerReturns, MainHandles, StartThread,
         SendEnableCmdToGap, SendDisableCmdToGap
    <3>2. GapStep => HandleDisable
      BY <1>1 DEF GapStep, AdapterTurnedOn, AdapterTurnedOff, IgnoreEnable, HandleEnable, StartProfiles,
         StartDone, StopDone, IgnoreDisable, CleanUpSinkFirst, StopProfiles, Kill
    <3>3. ~StackCallback /\ ~SsrCleanupCb
      BY <1>1 DEF StackCallback, SsrCleanupCb
    <3>4. \A p \in Enabled : ~ProfileStep(p) /\ ~StopCompletes(p)
      BY <1>1 DEF ProfileStep, DropsMessage, Starts, Stops, SinkCleansUp, AudioManagerStops, StopCompletes
    <3>5. \A t \in Timers : ~TimerExpires(t)
      BY <1>1 DEF TimerExpires
    <3> QED
      BY <2>1, <3>1, <3>2, <3>3, <3>4, <3>5 DEF Next
  <2>3. Handling("BT_AM_DISABLE_DONE") /\ "BT_AM_DISABLE_DONE" \in GapIds \ Skipped
    BY <2>2 DEF HandleDisable, GapIds, Skipped, Noise, Asking
  <2>4. Now \in Rest /\ Now.id = "BT_AM_DISABLE_DONE"
    BY <2>1, <2>3, TakesRest DEF TwoCommands, QueuesOK
  <2>5. ManagerOff
    BY <2>1, <2>4, PhaseOfRest
  <2> QED
    BY <2>5 DEF ManagerOff, Low, AllIdle
<1>2. IInv /\ AtFirst /\ TwoCommands /\ [Next]_vars
        => (stack = "on" /\ stack' = "disabling" => \A p \in Enabled : profile[p] = "idle")
  BY <1>1
<1> QED
  BY <1>2, SpecIInv, SpecTwoCommands, PTL DEF Spec, StackDownLast
=============================================================================
