---------------------------- MODULE HfpAg_proofs ----------------------------
(***************************************************************************)
(* Safety of HfpAg for every number of playback threads and every bound.     *)
(*                                                                          *)
(* The argument is about the queue.  The stack's callbacks that wait in it   *)
(* lead, one after the other, from the connection as the gateway has heard   *)
(* of it to the connection as the stack has it.  A callback can therefore    *)
(* only be handled in a state that it fits, and what a request changed       *)
(* meanwhile does not matter.  From this follow both that the threads of an  *)
(* audio connection are joined before the link is reported down, and that    *)
(* the state agrees with the stack once the queue is empty.                  *)
(***************************************************************************)
EXTENDS HfpAg, SequenceTheorems, TLAPS

Events == Requests \union Callbacks

(* The connection as far as callbacks tell of it.                            *)
Views == {"down", "up", "audio"}

StackView == IF sco # "off" THEN "audio"
             ELSE IF link \in {"up", "closing"} THEN "up" ELSE "down"

(* From one view to the next by a message.                                   *)
ViewStep(v, event, w) ==
    /\ event = "CONNECTED" => v = "down" /\ w = "up"
    /\ event = "DISCONNECTED" => v \in {"down", "up"} /\ w = "down"
    /\ event = "AUDIO_CONNECTED" => v = "up" /\ w = "audio"
    /\ event = "AUDIO_DISCONNECTED" => v = "audio" /\ w = "up"
    /\ event \in Requests \union {"CONNECTING"} => w = v

(* The messages of a queue lead from one view to another.                    *)
Leads(queue, v, w) ==
    \E f \in [0 .. Len(queue) -> Views] :
        /\ f[0] = v /\ f[Len(queue)] = w
        /\ \A i \in 1 .. Len(queue) : ViewStep(f[i - 1], queue[i], f[i])

(* Nothing of an audio connection is left.                                   *)
Clean ==
    /\ stopped /\ recorder = "done" /\ record_tid = None
    /\ ~in_handle_record /\ (out_stream_plb_test => late)

(* What the gateway's state says of the connection it has heard of.          *)
Believes(v) ==
    IF duty # None THEN v = "up"
    ELSE /\ mAgState = "DISCONNECTED" => v = "down"
         /\ mAgState = "CONNECTED" => v = "up"
         /\ mAgState = "AUDIO_ON" => v = "audio"
         /\ mAgState = "PENDING" => v = "audio" \/ Clean

-----------------------------------------------------------------------------
(* The parts of the inductive invariant.                                     *)

(* The last two callbacks of a connection find a place in the queue.         *)
QueueHasRoom ==
    /\ link # "down" => Len(agQ) <= MaxQueue + 1
    /\ sco # "off" => Len(agQ) <= MaxQueue

StackSound ==
    /\ sco # "off" => link \in {"up", "closing"}
    /\ mAgState = "NOT_STARTED" => link = "down" /\ sco = "off"

(* A start is only in the queue of a gateway that is not started, once, with *)
(* no callback behind it: those of the time before are handled first.  A     *)
(* stop is only in the queue of one that is, once.                           *)
StartIsFresh ==
    /\ mAgState # "NOT_STARTED" \/ duty # None => \A i \in 1 .. Len(agQ) : agQ[i] # "START"
    /\ \A i, j \in 1 .. Len(agQ) :
          /\ agQ[i] = "START" /\ i < j => agQ[j] \in Requests \ {"START"}
          /\ agQ[i] = "STOP" => mAgState # "NOT_STARTED" /\ (i < j => agQ[j] # "STOP")

ThreadsOwned ==
    /\ recorder # "done" => record_tid = "recorder"
    /\ duty # None => stopped /\ (duty = "pending" => mAgState = "PENDING")
    /\ duty = None /\ mAgState \in {"NOT_STARTED", "DISCONNECTED", "CONNECTED"} => Clean
    /\ duty = "disable" <=> duty # None /\ mAgState = "NOT_STARTED"

CallbacksLead ==
    mAgState # "NOT_STARTED" => \E v \in Views : Believes(v) /\ Leads(agQ, v, StackView)

IInv ==
    TypeOK /\ QueueHasRoom /\ StackSound /\ StartIsFresh /\ ThreadsOwned /\ CallbacksLead

-----------------------------------------------------------------------------
(* Lemmas about the queue.                                                   *)

LEMMA TailOfQueue ==
    ASSUME NEW queue \in Seq(Events), queue # <<>>
    PROVE  /\ Tail(queue) \in Seq(Events) /\ Len(Tail(queue)) = Len(queue) - 1
           /\ \A i \in 1 .. Len(Tail(queue)) : Tail(queue)[i] = queue[i + 1]
           /\ Head(queue) = queue[1] /\ Head(queue) \in Events /\ Len(queue) \in Nat \ {0}
  BY HeadTailProperties

(* The first message is a step to the view from which the rest leads on.     *)
LEMMA LeadsTail ==
    ASSUME NEW queue \in Seq(Events), queue # <<>>, NEW v \in Views, NEW w \in Views,
           Leads(queue, v, w)
    PROVE  \E u \in Views : ViewStep(v, Head(queue), u) /\ Leads(Tail(queue), u, w)
<1>1. PICK f \in [0 .. Len(queue) -> Views] :
         /\ f[0] = v /\ f[Len(queue)] = w
         /\ \A i \in 1 .. Len(queue) : ViewStep(f[i - 1], queue[i], f[i])
  BY DEF Leads
<1> DEFINE g == [i \in 0 .. Len(Tail(queue)) |-> f[i + 1]]
<1>2. /\ Len(queue) \in Nat \ {0} /\ Len(Tail(queue)) = Len(queue) - 1
      /\ Head(queue) = queue[1] /\ \A i \in 1 .. Len(Tail(queue)) : Tail(queue)[i] = queue[i + 1]
  BY TailOfQueue
<1>3. g \in [0 .. Len(Tail(queue)) -> Views] /\ g[0] = f[1] /\ g[Len(Tail(queue))] = w
  BY <1>1, <1>2
<1>4. ASSUME NEW i \in 1 .. Len(Tail(queue)) PROVE ViewStep(g[i - 1], Tail(queue)[i], g[i])
  <2>1. i + 1 \in 1 .. Len(queue) /\ Tail(queue)[i] = queue[i + 1]
    BY <1>2
  <2>2. g[i - 1] = f[(i + 1) - 1] /\ g[i] = f[i + 1]
    BY <1>2
  <2> QED
    BY <1>1, <2>1, <2>2
<1>5. Leads(Tail(queue), f[1], w)
  BY <1>3, <1>4 DEF Leads
<1>6. f[1] \in Views /\ ViewStep(v, Head(queue), f[1])
  BY <1>1, <1>2
<1> QED
  BY <1>5, <1>6

LEMMA LeadsAppend ==
    ASSUME NEW queue \in Seq(Events), NEW event \in Events,
           NEW v \in Views, NEW w \in Views, NEW u \in Views,
           Leads(queue, v, w), ViewStep(w, event, u)
    PROVE  Leads(Append(queue, event), v, u)
<1>1. PICK f \in [0 .. Len(queue) -> Views] :
         /\ f[0] = v /\ f[Len(queue)] = w
         /\ \A i \in 1 .. Len(queue) : ViewStep(f[i - 1], queue[i], f[i])
  BY DEF Leads
<1> DEFINE longer == Append(queue, event)
           g == [i \in 0 .. Len(longer) |-> IF i <= Len(queue) THEN f[i] ELSE u]
<1>2. /\ Len(queue) \in Nat /\ Len(longer) = Len(queue) + 1
      /\ longer[Len(queue) + 1] = event /\ \A i \in 1 .. Len(queue) : longer[i] = queue[i]
  OBVIOUS
<1> HIDE DEF longer
<1>3. g \in [0 .. Len(longer) -> Views] /\ g[0] = v /\ g[Len(longer)] = u
  BY <1>1, <1>2
<1>4. ASSUME NEW i \in 1 .. Len(longer) PROVE ViewStep(g[i - 1], longer[i], g[i])
  <2>1. CASE i = Len(queue) + 1
    <3>1. g[i - 1] = w /\ g[i] = u /\ longer[i] = event
      BY <1>1, <1>2, <2>1
    <3> QED
      BY <3>1
  <2>2. CASE i # Len(queue) + 1
    <3>1. i \in 1 .. Len(queue) /\ g[i - 1] = f[i - 1] /\ g[i] = f[i] /\ longer[i] = queue[i]
      BY <1>2, <2>2
    <3> QED
      BY <1>1, <3>1
  <2> QED
    BY <2>1, <2>2
<1> QED
  BY <1>3, <1>4 DEF Leads, longer

(* An empty queue leads nowhere else, nor does one without callbacks.        *)
LEMMA LeadsQuiet ==
    ASSUME NEW queue \in Seq(Events), NEW v \in Views
    PROVE  /\ \A w \in Views : Leads(<<>>, v, w) => v = w
           /\ (\A i \in 1 .. Len(queue) : queue[i] \in Requests) => Leads(queue, v, v)
<1>1. \A w \in Views : Leads(<<>>, v, w) => v = w
  BY DEF Leads
<1>2. ASSUME \A i \in 1 .. Len(queue) : queue[i] \in Requests
      PROVE  Leads(queue, v, v)
  <2> DEFINE f == [i \in 0 .. Len(queue) |-> v]
  <2>1. Len(queue) \in Nat /\ f \in [0 .. Len(queue) -> Views] /\ f[0] = v /\ f[Len(queue)] = v
    OBVIOUS
  <2>2. ASSUME NEW i \in 1 .. Len(queue) PROVE ViewStep(f[i - 1], queue[i], f[i])
    <3>1. f[i - 1] = v /\ f[i] = v /\ queue[i] \in Requests
      BY <1>2
    <3> QED
      BY <3>1 DEF ViewStep, Requests, DISCONNECT_REQ
  <2> QED
    BY <2>1, <2>2 DEF Leads
<1> QED
  BY <1>1, <1>2

-----------------------------------------------------------------------------
(* What a step does to the queue, for each of the parts of the invariant     *)
(* that is about it.                                                        *)

LEMMA Posted ==
    ASSUME IInv, NEW event \in Events, PostMessage(event),
           event \in Callbacks => mAgState # "NOT_STARTED",
           event = "START" => /\ mAgState = "NOT_STARTED" /\ duty = None
                              /\ \A i \in 1 .. Len(agQ) : agQ[i] # "START",
           event = "STOP" => /\ mAgState # "NOT_STARTED"
                             /\ \A i \in 1 .. Len(agQ) : agQ[i] # "STOP",
           UNCHANGED <<mAgState, duty>>
    PROVE  /\ agQ' \in Seq(Events) /\ Len(agQ') = Len(agQ) + 1
           /\ StartIsFresh'
<1>1. agQ \in Seq(Events) /\ Len(agQ) \in Nat
  BY DEF IInv, TypeOK, Events
<1>2. /\ agQ' \in Seq(Events) /\ Len(agQ') = Len(agQ) + 1 /\ agQ'[Len(agQ) + 1] = event
      /\ \A i \in 1 .. Len(agQ) : agQ'[i] = agQ[i]
  BY <1>1 DEF PostMessage
<1>3. mAgState' # "NOT_STARTED" \/ duty' # None => \A i \in 1 .. Len(agQ') : agQ'[i] # "START"
  BY <1>1, <1>2 DEF IInv, StartIsFresh
<1>4. ASSUME NEW i \in 1 .. Len(agQ'), NEW j \in 1 .. Len(agQ'), agQ'[i] = "START", i < j
      PROVE  agQ'[j] \in Requests \ {"START"}
  <2>1. i \in 1 .. Len(agQ) /\ agQ[i] = "START"
    BY <1>1, <1>2, <1>4
  <2>2. mAgState = "NOT_STARTED" /\ event # "START" /\ event \in Requests
    BY <1>1, <2>1 DEF IInv, StartIsFresh, Events
  <2> QED
    BY <1>1, <1>2, <1>4, <2>1, <2>2 DEF IInv, StartIsFresh
<1>5. ASSUME NEW i \in 1 .. Len(agQ'), NEW j \in 1 .. Len(agQ'), agQ'[i] = "STOP"
      PROVE  mAgState # "NOT_STARTED" /\ (i < j => agQ'[j] # "STOP")
  BY <1>1, <1>2, <1>5 DEF IInv, StartIsFresh
<1> QED
  BY <1>2, <1>3, <1>4, <1>5 DEF StartIsFresh

(* A callback tells of the change that the stack has made.                   *)
LEMMA PostedLeads ==
    ASSUME IInv, NEW event \in Events, PostMessage(event),
           ViewStep(StackView, event, StackView'),
           UNCHANGED <<mAgState, duty>>, Clean => Clean'
    PROVE  CallbacksLead'
<1> SUFFICES ASSUME mAgState # "NOT_STARTED"
             PROVE  \E v \in Views : Believes(v)' /\ Leads(agQ', v, StackView')
  BY DEF CallbacksLead
<1>1. agQ \in Seq(Events) /\ StackView \in Views /\ StackView' \in Views
  BY DEF IInv, TypeOK, Events, StackView, Views
<1>2. PICK v \in Views : Believes(v) /\ Leads(agQ, v, StackView)
  BY DEF IInv, CallbacksLead
<1>3. Leads(agQ', v, StackView')
  BY <1>1, <1>2, LeadsAppend DEF PostMessage
<1>4. Believes(v)'
  BY <1>2 DEF Believes
<1> QED
  BY <1>3, <1>4

LEMMA Taken ==
    ASSUME IInv, NEW events, Handles(events)
    PROVE  /\ duty = None /\ Head(agQ) \in Events \intersect events
           /\ agQ' \in Seq(Events) /\ Len(agQ') = Len(agQ) - 1 /\ Len(agQ) \in Nat
           /\ \A i, j \in 1 .. Len(agQ') :
                 /\ agQ'[i] = "START" /\ i < j => agQ'[j] \in Requests \ {"START"}
                 /\ agQ'[i] = "STOP" => mAgState # "NOT_STARTED" /\ (i < j => agQ'[j] # "STOP")
           /\ Head(agQ) = "STOP" => /\ mAgState # "NOT_STARTED"
                                    /\ \A i \in 1 .. Len(agQ') : agQ'[i] # "STOP"
           /\ mAgState # "NOT_STARTED" => \A i \in 1 .. Len(agQ') : agQ'[i] # "START"
           /\ Head(agQ) = "START" => /\ mAgState = "NOT_STARTED"
                                     /\ \A i \in 1 .. Len(agQ') : agQ'[i] \in Requests \ {"START"}
<1>1. agQ \in Seq(Events) /\ agQ # <<>> /\ agQ' = Tail(agQ)
  BY DEF IInv, TypeOK, Events, Handles
<1>2. /\ agQ' \in Seq(Events) /\ Len(agQ') = Len(agQ) - 1 /\ Len(agQ) \in Nat \ {0}
      /\ Head(agQ) = agQ[1] /\ Head(agQ) \in Events
      /\ \A i \in 1 .. Len(agQ') : agQ'[i] = agQ[i + 1] /\ i + 1 \in 1 .. Len(agQ)
  BY <1>1, TailOfQueue
<1> QED
  BY <1>2 DEF IInv, StartIsFresh, Handles

LEMMA TakenLeads ==
    ASSUME IInv, NEW events, Handles(events), mAgState # "NOT_STARTED"
    PROVE  \E v, u \in Views : /\ Believes(v) /\ ViewStep(v, Head(agQ), u)
                               /\ Leads(agQ', u, StackView)
<1>1. PICK v \in Views : Believes(v) /\ Leads(agQ, v, StackView)
  BY DEF IInv, CallbacksLead
<1>2. agQ \in Seq(Events) /\ agQ # <<>> /\ agQ' = Tail(agQ) /\ StackView \in Views
  BY DEF IInv, TypeOK, Events, Handles, StackView, Views
<1> QED
  BY <1>1, <1>2, LeadsTail

(* The audio threads leave the queue and the connection alone.               *)
LEMMA ThreadStepKeeps == IInv /\ ThreadStep => IInv'
<1> SUFFICES ASSUME IInv, ThreadStep PROVE IInv'
  OBVIOUS
<1>1. UNCHANGED <<mAgState, memorized_evt, wanted, agQ, link, sco, stopped, record_tid, duty>>
  BY DEF ThreadStep, stateVars, stackVars
<1>2. /\ recorder' \in {"done", "started", "loop"} /\ (recorder = "done" => recorder' = "done")
      /\ in_handle_record' \in BOOLEAN /\ (recorder = "done" => in_handle_record' = in_handle_record)
      /\ playback' \in [Player -> {"done", "started", "loop"}]
      /\ out_stream_plb_test' \in BOOLEAN /\ late' \in BOOLEAN
      /\ UNCHANGED <<out_stream_plb_test, late>> \/ late' = stopped
  BY DEF IInv, TypeOK, ThreadStep, RecorderStarts, RecorderEnds, PlaybackStarts, PlaybackEnds,
         streamVars
<1>3. Clean => Clean'
  BY <1>1, <1>2 DEF Clean
<1>4. TypeOK'
  BY <1>1, <1>2 DEF IInv, TypeOK
<1>5. QueueHasRoom' /\ StackSound' /\ StartIsFresh'
  BY <1>1 DEF IInv, QueueHasRoom, StackSound, StartIsFresh
<1>6. ThreadsOwned'
  BY <1>1, <1>2, <1>3 DEF IInv, ThreadsOwned
<1>7. CallbacksLead'
  <2>1. StackView' = StackView /\ \A v \in Views : Believes(v) => Believes(v)'
    BY <1>1, <1>3 DEF StackView, Believes
  <2> QED
    BY <1>1, <2>1 DEF IInv, CallbacksLead
<1> QED
  BY <1>4, <1>5, <1>6, <1>7 DEF IInv

(* What the user asks for, and what the stack tells of itself.               *)
Tells(event) ==
    /\ PostMessage(event)
    /\ event \in Callbacks => mAgState # "NOT_STARTED"
    /\ event = "START" => /\ mAgState = "NOT_STARTED" /\ duty = None
                          /\ \A i \in 1 .. Len(agQ) : agQ[i] # "START"
    /\ event = "STOP" => /\ mAgState # "NOT_STARTED"
                         /\ \A i \in 1 .. Len(agQ) : agQ[i] # "STOP"
    /\ ViewStep(StackView, event, StackView')
    /\ link' \in {"down", "connecting", "up", "closing"} /\ sco' \in {"off", "on", "closing"}
    /\ sco' # "off" => link' \in {"up", "closing"}
    /\ mAgState = "NOT_STARTED" => UNCHANGED <<link, sco>>
    /\ \/ Len(agQ) < MaxQueue
       \/ sco # "off" /\ sco' = "off" /\ link' = link
       \/ link # "down" /\ link' = "down" /\ sco' = sco

LEMMA PostingKeeps == IInv /\ (StackNext \/ \E r \in Requests : Ask(r)) => IInv'
<1> SUFFICES ASSUME IInv, StackNext \/ \E r \in Requests : Ask(r) PROVE IInv'
  OBVIOUS
<1> USE DEF stateVars, stackVars, threadVars, streamVars
<1>1. UNCHANGED <<stateVars, threadVars, streamVars, duty>>
  BY DEF StackNext, LinkConnects, LinkDisconnects, ScoConnects, ScoDisconnects, Ask
<1>2. PICK event \in Events : Tells(event)
  <2>0. agQ \in Seq(Events) /\ DOMAIN agQ = 1 .. Len(agQ)
    BY DEF IInv, TypeOK, Events
  <2>1. ASSUME NEW r \in Requests, Ask(r) PROVE Tells(r)
    BY <2>0, <2>1 DEF Ask, Room, Tells, ViewStep, StackView, Requests, DISCONNECT_REQ, Callbacks,
                      IInv, TypeOK, StackSound
  <2>2. CASE LinkConnects
    BY <2>2 DEF LinkConnects, StackRuns, Room, Tells, ViewStep, StackView, Requests,
                DISCONNECT_REQ, Callbacks, Events, IInv, TypeOK, StackSound
  <2>3. CASE LinkDisconnects
    BY <2>3 DEF LinkDisconnects, StackRuns, Room, Tells, ViewStep, StackView, Requests,
                DISCONNECT_REQ, Callbacks, Events, IInv, TypeOK, StackSound
  <2>4. CASE ScoConnects
    BY <2>4 DEF ScoConnects, StackRuns, Room, Tells, ViewStep, StackView, Requests,
                DISCONNECT_REQ, Callbacks, Events, IInv, TypeOK, StackSound
  <2>5. CASE ScoDisconnects
    BY <2>5 DEF ScoDisconnects, StackRuns, Room, Tells, ViewStep, StackView, Requests,
                DISCONNECT_REQ, Callbacks, Events, IInv, TypeOK, StackSound
  <2> QED
    BY <2>1, <2>2, <2>3, <2>4, <2>5 DEF StackNext, Events
<1>3. agQ' \in Seq(Events) /\ Len(agQ') = Len(agQ) + 1 /\ StartIsFresh'
  BY <1>1, <1>2, Posted DEF Tells
<1>4. Clean' <=> Clean
  BY <1>1 DEF Clean
<1>5. CallbacksLead'
  BY <1>1, <1>2, <1>4, PostedLeads DEF Tells
<1>6. QueueHasRoom'
  <2>1. Len(agQ) \in Nat /\ MaxQueue \in Nat /\ Len(agQ') = Len(agQ) + 1 /\ QueueHasRoom
        /\ StackSound
    BY <1>3, AgAssumption DEF IInv, TypeOK
  <2>2. /\ \/ Len(agQ) < MaxQueue
           \/ sco # "off" /\ sco' = "off" /\ link' = link
           \/ link # "down" /\ link' = "down" /\ sco' = sco
        /\ sco' # "off" => link' \in {"up", "closing"}
    BY <1>2 DEF Tells
  <2> QED
    BY <2>1, <2>2 DEF QueueHasRoom, StackSound
<1>7. TypeOK'
  BY <1>1, <1>2, <1>3, <1>6, AgAssumption DEF IInv, TypeOK, QueueHasRoom, Tells, Events
<1>8. StackSound' /\ ThreadsOwned'
  BY <1>1, <1>2, <1>4 DEF IInv, StackSound, ThreadsOwned, Tells
<1> QED
  BY <1>3, <1>5, <1>6, <1>7, <1>8 DEF IInv

-----------------------------------------------------------------------------
(* The gateway's thread.                                                     *)

(* A handler of a started gateway: the new state fits the view that the      *)
(* message leads to.                                                        *)
GoesOn ==
    /\ mAgState # "NOT_STARTED"
    /\ mAgState' \in {"DISCONNECTED", "PENDING", "CONNECTED", "AUDIO_ON"}
    /\ link' \in {"down", "connecting", "up", "closing"} /\ sco' \in {"off", "on", "closing"}
    /\ sco' # "off" => sco # "off" /\ link' \in {"up", "closing"}
    /\ StackView' = StackView
    /\ \A v, u \in Views : Believes(v) /\ ViewStep(v, Head(agQ), u) => Believes(u)'

LEMMA HandlerKeeps ==
    ASSUME IInv, NEW events, Handles(events), GoesOn
    PROVE  /\ QueueHasRoom' /\ StackSound' /\ StartIsFresh' /\ CallbacksLead'
           /\ agQ' \in Seq(Requests \union Callbacks) /\ Len(agQ') <= MaxQueue + 2
<1>1. /\ duty = None /\ agQ' \in Seq(Events) /\ Len(agQ') = Len(agQ) - 1 /\ Len(agQ) \in Nat
      /\ \A i, j \in 1 .. Len(agQ') :
            /\ agQ'[i] = "START" /\ i < j => agQ'[j] \in Requests \ {"START"}
            /\ agQ'[i] = "STOP" => mAgState # "NOT_STARTED" /\ (i < j => agQ'[j] # "STOP")
      /\ \A i \in 1 .. Len(agQ') : agQ'[i] # "START"
  BY Taken DEF GoesOn
<1>2. Len(agQ) <= MaxQueue + 2 /\ (sco # "off" => Len(agQ) <= MaxQueue) /\ MaxQueue \in Nat
  BY AgAssumption DEF IInv, TypeOK, QueueHasRoom
<1>3. QueueHasRoom' /\ StackSound'
  BY <1>1, <1>2 DEF GoesOn, QueueHasRoom, StackSound
<1>4. StartIsFresh'
  BY <1>1 DEF StartIsFresh, GoesOn
<1>5. CallbacksLead'
  <2>1. PICK v \in Views, u \in Views :
           Believes(v) /\ ViewStep(v, Head(agQ), u) /\ Leads(agQ', u, StackView)
    BY TakenLeads DEF GoesOn
  <2>2. Believes(u)' /\ Leads(agQ', u, StackView')
    BY <2>1 DEF GoesOn
  <2> QED
    BY <2>2 DEF CallbacksLead
<1> QED
  BY <1>1, <1>2, <1>3, <1>4, <1>5 DEF Events

(* Each of these handlers leaves the threads and the streams as they are.     *)
LEMMA RequestsKeep ==
    IInv /\ (\/ ConnectReq \/ DisconnectAudioReq
             \/ \E d \in Devices : DisconnectReqConnected(d) \/ DisconnectReqAudioOn(d)) => IInv'
<1> SUFFICES ASSUME IInv, \/ ConnectReq \/ DisconnectAudioReq
                          \/ \E d \in Devices : DisconnectReqConnected(d) \/ DisconnectReqAudioOn(d)
             PROVE  IInv'
  OBVIOUS
<1> USE DEF stateVars, stackVars, threadVars, streamVars
<1>1. PICK event \in Requests : Handles({event})
  BY DEF ConnectReq, DisconnectAudioReq, DisconnectReqConnected, DisconnectReqAudioOn, Requests,
         Devices, DISCONNECT_REQ
<1>2. UNCHANGED <<threadVars, streamVars, duty>> /\ duty = None /\ Head(agQ) \in Requests
  BY <1>1 DEF ConnectReq, DisconnectAudioReq, DisconnectReqConnected, DisconnectReqAudioOn, Handles
<1>3. /\ mAgState \in {"DISCONNECTED", "CONNECTED", "AUDIO_ON"} /\ mAgState' \in {mAgState, "PENDING"}
      /\ memorized_evt' \in Seq(Devices) /\ Len(memorized_evt') <= MaxMemory /\ wanted' \in BOOLEAN
      /\ link' \in {"down", "connecting", "up", "closing"} /\ sco' \in {"off", "on", "closing"}
      /\ StackView' = StackView /\ (sco' # "off" => sco # "off" /\ link' \in {"up", "closing"})
  <2>1. CASE ConnectReq
    BY <2>1 DEF ConnectReq, ChangeState, IInv, TypeOK, StackView, StackSound
  <2>2. CASE DisconnectAudioReq
    BY <2>2 DEF DisconnectAudioReq, CloseSco, IInv, TypeOK, StackView, StackSound
  <2>3. ASSUME NEW d \in Devices, DisconnectReqConnected(d) PROVE <1>3
    BY <2>3 DEF DisconnectReqConnected, Disconnects, CloseSco, IInv, TypeOK, StackView, StackSound
  <2>4. ASSUME NEW d \in Devices, DisconnectReqAudioOn(d) PROVE <1>3
    <3>1. /\ memorized_evt \in Seq(Devices) /\ Len(memorized_evt) < MaxMemory /\ MaxMemory \in Nat
          /\ memorized_evt' = Append(memorized_evt, d)
      BY <2>4, AgAssumption DEF DisconnectReqAudioOn, IInv, TypeOK
    <3>2. memorized_evt' \in Seq(Devices) /\ Len(memorized_evt') <= MaxMemory
      BY <3>1
    <3> QED
      BY <2>4, <3>2 DEF DisconnectReqAudioOn, CloseSco, IInv, TypeOK, StackView, StackSound
  <2> QED
    BY <2>1, <2>2, <2>3, <2>4
<1>4. Clean' <=> Clean
  BY <1>2 DEF Clean
<1>5. ASSUME NEW v \in Views, NEW u \in Views, Believes(v), ViewStep(v, Head(agQ), u)
      PROVE  Believes(u)'
  <2>1. u = v
    BY <1>2, <1>5 DEF ViewStep
  <2>2. duty = None => (mAgState \in {"DISCONNECTED", "CONNECTED"} => Clean)
    BY DEF IInv, ThreadsOwned
  <2> QED
    BY <1>2, <1>3, <1>4, <1>5, <2>1, <2>2 DEF Believes
<1>6. GoesOn
  BY <1>3, <1>5 DEF GoesOn
<1>7. /\ QueueHasRoom' /\ StackSound' /\ StartIsFresh' /\ CallbacksLead'
      /\ agQ' \in Seq(Requests \union Callbacks) /\ Len(agQ') <= MaxQueue + 2
  BY <1>1, <1>6, HandlerKeeps
<1>8. TypeOK'
  BY <1>2, <1>3, <1>7 DEF IInv, TypeOK
<1>9. ThreadsOwned'
  BY <1>2, <1>3, <1>4 DEF IInv, ThreadsOwned
<1> QED
  BY <1>7, <1>8, <1>9 DEF IInv

LEMMA LinkCallbacksKeep ==
    IInv /\ (ConnectingCb \/ ConnectedCb \/ DisconnectedCb) => IInv'
<1> SUFFICES ASSUME IInv, ConnectingCb \/ ConnectedCb \/ DisconnectedCb PROVE IInv'
  OBVIOUS
<1> USE DEF stateVars, stackVars, threadVars, streamVars
<1>1. PICK event \in {"CONNECTING", "CONNECTED", "DISCONNECTED"} : Handles({event})
  BY DEF ConnectingCb, ConnectedCb, DisconnectedCb
<1>2. /\ UNCHANGED <<memorized_evt, stackVars, threadVars, streamVars, duty>>
      /\ duty = None /\ Head(agQ) = event
  BY <1>1 DEF ConnectingCb, ConnectedCb, DisconnectedCb, Handles
<1>3. /\ event = "CONNECTING" => mAgState = "DISCONNECTED" /\ mAgState' = "PENDING"
      /\ event = "CONNECTED" => mAgState \in {"DISCONNECTED", "PENDING"} /\ mAgState' = "CONNECTED"
      /\ event = "DISCONNECTED" => mAgState \in {"PENDING", "CONNECTED"} /\ mAgState' = "DISCONNECTED"
      /\ wanted' \in BOOLEAN
  BY <1>1, <1>2 DEF ConnectingCb, ConnectedCb, DisconnectedCb, ChangeState, Handles, IInv, TypeOK
<1>4. Clean' <=> Clean
  BY <1>2 DEF Clean
<1>5. mAgState \in {"DISCONNECTED", "CONNECTED"} => Clean
  BY <1>2 DEF IInv, ThreadsOwned
<1>6. ASSUME NEW v \in Views, NEW u \in Views, Believes(v), ViewStep(v, Head(agQ), u)
      PROVE  Believes(u)' /\ Clean
  BY <1>2, <1>3, <1>4, <1>5, <1>6 DEF Believes, ViewStep
<1>7. StackView' = StackView
  BY <1>2 DEF StackView
<1>8. GoesOn
  BY <1>1, <1>2, <1>3, <1>6, <1>7 DEF GoesOn, IInv, TypeOK, StackSound
<1>9. /\ QueueHasRoom' /\ StackSound' /\ StartIsFresh' /\ CallbacksLead'
      /\ agQ' \in Seq(Requests \union Callbacks) /\ Len(agQ') <= MaxQueue + 2
  BY <1>1, <1>8, HandlerKeeps
<1>10. Clean
  BY <1>1, <1>3, <1>6, TakenLeads
<1>11. TypeOK'
  BY <1>1, <1>2, <1>3, <1>9 DEF IInv, TypeOK
<1>12. ThreadsOwned'
  BY <1>1, <1>2, <1>3, <1>4, <1>10 DEF IInv, ThreadsOwned
<1> QED
  BY <1>9, <1>11, <1>12 DEF IInv

LEMMA AudioCallbacksKeep ==
    IInv /\ (AudioConnectedCb \/ AudioDisconnectedCb) => IInv'
<1> SUFFICES ASSUME IInv, AudioConnectedCb \/ AudioDisconnectedCb PROVE IInv'
  OBVIOUS
<1> USE DEF stateVars, stackVars, threadVars, streamVars
<1>1. CASE AudioConnectedCb
  <2>1. /\ Handles({"AUDIO_CONNECTED"}) /\ duty = None /\ Head(agQ) = "AUDIO_CONNECTED"
        /\ mAgState = "CONNECTED" /\ mAgState' = "AUDIO_ON" /\ stopped' = FALSE
        /\ UNCHANGED <<wanted, memorized_evt, stackVars, streamVars, duty>>
    BY <1>1 DEF AudioConnectedCb, Handles
  <2>2. /\ record_tid' \in Player \union {None, "recorder"}
        /\ recorder' \in {"done", "started", "loop"} /\ (recorder' # "done" => record_tid' = "recorder")
        /\ playback' \in [Player -> {"done", "started", "loop"}]
    <3>1. recorder = "done"
      BY <2>1 DEF IInv, ThreadsOwned, Clean
    <3>2. CASE UNCHANGED <<record_tid, recorder, playback>>
      BY <3>1, <3>2 DEF IInv, TypeOK
    <3>3. CASE CreateThreads
      BY <3>1, <3>3 DEF CreateThreads, IInv, TypeOK
    <3> QED
      BY <1>1, <3>2, <3>3 DEF AudioConnectedCb
  <2>3. GoesOn
    <3>1. ASSUME NEW v \in Views, NEW u \in Views, Believes(v), ViewStep(v, Head(agQ), u)
          PROVE  Believes(u)'
      BY <2>1, <3>1 DEF Believes, ViewStep
    <3> QED
      BY <2>1, <3>1 DEF GoesOn, StackView, IInv, TypeOK, StackSound
  <2>4. /\ QueueHasRoom' /\ StackSound' /\ StartIsFresh' /\ CallbacksLead'
        /\ agQ' \in Seq(Requests \union Callbacks) /\ Len(agQ') <= MaxQueue + 2
    BY <2>1, <2>3, HandlerKeeps
  <2>5. TypeOK' /\ ThreadsOwned'
    BY <2>1, <2>2, <2>4 DEF IInv, TypeOK, ThreadsOwned
  <2> QED
    BY <2>4, <2>5 DEF IInv
<1>2. CASE AudioDisconnectedCb
  <2>1. /\ Handles({"AUDIO_DISCONNECTED"}) /\ duty = None /\ Head(agQ) = "AUDIO_DISCONNECTED"
        /\ mAgState \in {"PENDING", "AUDIO_ON"} /\ stopped' = TRUE
        /\ duty' \in {"pending", "audio_on"} /\ (duty' = "pending" => mAgState = "PENDING")
        /\ UNCHANGED <<stateVars, stackVars, streamVars, record_tid, recorder, playback>>
    BY <1>2 DEF AudioDisconnectedCb, JoinThen, Handles
  <2>2. duty' # None
    BY <2>1, AgAssumption
  <2>3. GoesOn
    <3>1. ASSUME NEW v \in Views, NEW u \in Views, Believes(v), ViewStep(v, Head(agQ), u)
          PROVE  Believes(u)'
      BY <2>1, <2>2, <3>1 DEF Believes, ViewStep
    <3> QED
      BY <2>1, <3>1 DEF GoesOn, StackView, IInv, TypeOK, StackSound
  <2>4. /\ QueueHasRoom' /\ StackSound' /\ StartIsFresh' /\ CallbacksLead'
        /\ agQ' \in Seq(Requests \union Callbacks) /\ Len(agQ') <= MaxQueue + 2
    BY <2>1, <2>3, HandlerKeeps
  <2>5. TypeOK'
    BY <2>1, <2>2, <2>4 DEF IInv, TypeOK
  <2>6. ThreadsOwned'
    BY <2>1, <2>2 DEF IInv, ThreadsOwned
  <2> QED
    BY <2>4, <2>5, <2>6 DEF IInv
<1> QED
  BY <1>1, <1>2

(* What a state does not handle is only taken from the queue.                *)
LEMMA NotHandledKeeps == IInv /\ NotHandled => IInv'
<1> SUFFICES ASSUME IInv, NotHandled PROVE IInv'
  OBVIOUS
<1> USE DEF stateVars, stackVars, threadVars, streamVars
<1>1. /\ Handles((Requests \union Callbacks) \ Handled[mAgState]) /\ duty = None
      /\ Head(agQ) \notin Handled[mAgState] /\ Head(agQ) \in Events
      /\ UNCHANGED <<stateVars, stackVars, threadVars, streamVars, duty>>
  BY DEF NotHandled, Handles, Events
<1>2. Clean' <=> Clean
  BY <1>1 DEF Clean
<1>3. CASE mAgState # "NOT_STARTED"
  <2>1. ASSUME NEW v \in Views, NEW u \in Views, Believes(v), ViewStep(v, Head(agQ), u)
        PROVE  Believes(u)'
    <3>1. mAgState \in {"DISCONNECTED", "PENDING", "CONNECTED", "AUDIO_ON"}
      BY <1>3 DEF IInv, TypeOK
    <3>2. CASE Head(agQ) \in Requests \union {"CONNECTING"}
      <4>1. u = v
        BY <2>1, <3>2 DEF ViewStep
      <4> QED
        BY <1>1, <1>2, <2>1, <4>1 DEF Believes
    <3>3. CASE Head(agQ) \in Callbacks \ {"CONNECTING"}
      <4>1. /\ mAgState = "DISCONNECTED" => Head(agQ) # "CONNECTED"
            /\ mAgState = "PENDING" => Head(agQ) = "AUDIO_CONNECTED"
            /\ mAgState = "CONNECTED" => Head(agQ) \notin {"DISCONNECTED", "AUDIO_CONNECTED"}
            /\ mAgState = "AUDIO_ON" => Head(agQ) # "AUDIO_DISCONNECTED"
        BY <1>1, <3>3 DEF Callbacks, Handled
      <4> QED
        BY <1>1, <1>2, <2>1, <3>1, <3>3, <4>1 DEF Believes, ViewStep, Callbacks
    <3> QED
      BY <1>1, <3>2, <3>3 DEF Events
  <2>2. GoesOn
    BY <1>1, <1>3, <2>1 DEF GoesOn, StackView, IInv, TypeOK, StackSound
  <2>3. /\ QueueHasRoom' /\ StackSound' /\ StartIsFresh' /\ CallbacksLead'
        /\ agQ' \in Seq(Requests \union Callbacks) /\ Len(agQ') <= MaxQueue + 2
    BY <1>1, <2>2, HandlerKeeps
  <2>4. TypeOK' /\ ThreadsOwned'
    BY <1>1, <1>2, <2>3 DEF IInv, TypeOK, ThreadsOwned
  <2> QED
    BY <2>3, <2>4 DEF IInv
<1>4. CASE mAgState = "NOT_STARTED"
  <2>1. /\ agQ' \in Seq(Events) /\ Len(agQ') = Len(agQ) - 1 /\ Len(agQ) \in Nat
        /\ \A i, j \in 1 .. Len(agQ') :
              /\ agQ'[i] = "START" /\ i < j => agQ'[j] \in Requests \ {"START"}
              /\ agQ'[i] = "STOP" => mAgState # "NOT_STARTED" /\ (i < j => agQ'[j] # "STOP")
    BY <1>1, Taken
  <2>2. QueueHasRoom' /\ StackSound' /\ StartIsFresh' /\ CallbacksLead'
    BY <1>1, <1>4, <2>1 DEF IInv, QueueHasRoom, StackSound, StartIsFresh, CallbacksLead
  <2>3. TypeOK' /\ ThreadsOwned'
    BY <1>1, <1>2, <2>1, AgAssumption DEF IInv, TypeOK, ThreadsOwned, Events
  <2> QED
    BY <2>2, <2>3 DEF IInv
<1> QED
  BY <1>3, <1>4

(* A gateway starts with no callback in its queue.                           *)
LEMMA EnableKeeps == IInv /\ HandleEnableAg => IInv'
<1> SUFFICES ASSUME IInv, HandleEnableAg PROVE IInv'
  OBVIOUS
<1> USE DEF stateVars, stackVars, threadVars, streamVars
<1>1. /\ Handles({"START"}) /\ duty = None /\ Head(agQ) = "START"
      /\ UNCHANGED <<memorized_evt, stackVars, threadVars, late, duty>>
      /\ \/ UNCHANGED <<mAgState, wanted, in_handle_record, out_stream_plb_test>>
         \/ /\ mAgState' = "DISCONNECTED" /\ wanted' = FALSE
            /\ in_handle_record' = FALSE /\ out_stream_plb_test' = FALSE
  BY DEF HandleEnableAg, Handles, ChangeState, IInv, TypeOK
<1>2. /\ agQ' \in Seq(Events) /\ Len(agQ') = Len(agQ) - 1 /\ Len(agQ) \in Nat
      /\ mAgState = "NOT_STARTED" /\ \A i \in 1 .. Len(agQ') : agQ'[i] \in Requests \ {"START"}
      /\ \A i \in 1 .. Len(agQ') : agQ'[i] # "STOP"
  BY <1>1, Taken
<1>3. Clean /\ Clean'
  BY <1>1, <1>2 DEF IInv, ThreadsOwned, Clean
<1>4. link = "down" /\ sco = "off"
  BY <1>2 DEF IInv, StackSound
<1>5. Leads(agQ', "down", StackView')
  BY <1>1, <1>2, <1>4, LeadsQuiet DEF StackView, Views
<1>6. CallbacksLead'
  BY <1>1, <1>2, <1>5 DEF CallbacksLead, Believes, Views
<1>7. QueueHasRoom' /\ StackSound' /\ StartIsFresh'
  BY <1>1, <1>2, <1>4 DEF QueueHasRoom, StackSound, StartIsFresh
<1>8. TypeOK'
  <2>1. agQ' \in Seq(Requests \union Callbacks) /\ Len(agQ') <= MaxQueue + 2
    BY <1>2, AgAssumption DEF IInv, TypeOK, Events
  <2> QED
    BY <1>1, <2>1 DEF IInv, TypeOK
<1>9. ThreadsOwned'
  BY <1>1, <1>2, <1>3, AgAssumption DEF IInv, ThreadsOwned
<1> QED
  BY <1>6, <1>7, <1>8, <1>9 DEF IInv

LEMMA DisableKeeps == IInv /\ HandleDisableAg => IInv'
<1> SUFFICES ASSUME IInv, HandleDisableAg PROVE IInv'
  OBVIOUS
<1> USE DEF stateVars, stackVars, threadVars, streamVars
<1>1. /\ Handles({"STOP"}) /\ duty = None /\ Head(agQ) = "STOP"
      /\ mAgState' = "NOT_STARTED" /\ wanted' = FALSE /\ link' = "down" /\ sco' = "off"
      /\ stopped' = TRUE /\ duty' = "disable"
      /\ UNCHANGED <<memorized_evt, record_tid, recorder, playback, streamVars>>
  BY DEF HandleDisableAg, Handles, ChangeState, JoinThen, IInv, TypeOK
<1>2. /\ agQ' \in Seq(Events) /\ Len(agQ') = Len(agQ) - 1 /\ Len(agQ) \in Nat
      /\ \A i \in 1 .. Len(agQ') : agQ'[i] # "STOP" /\ agQ'[i] # "START"
  BY <1>1, Taken
<1>3. QueueHasRoom' /\ StackSound' /\ StartIsFresh' /\ CallbacksLead'
  BY <1>1, <1>2 DEF QueueHasRoom, StackSound, StartIsFresh, CallbacksLead
<1>4. TypeOK'
  <2>1. agQ' \in Seq(Requests \union Callbacks) /\ Len(agQ') <= MaxQueue + 2
    BY <1>2, AgAssumption DEF IInv, TypeOK, Events
  <2> QED
    BY <1>1, <2>1 DEF IInv, TypeOK
<1>5. ThreadsOwned'
  BY <1>1, AgAssumption DEF IInv, ThreadsOwned
<1> QED
  BY <1>3, <1>4, <1>5 DEF IInv

(* pthread_join has returned: nothing of the audio is left.                  *)
LEMMA ReturnsKeep == IInv /\ AgReturns => IInv'
<1> SUFFICES ASSUME IInv, AgReturns PROVE IInv'
  OBVIOUS
<1> USE DEF stateVars, stackVars, threadVars, streamVars
<1>1. PICK work \in {"audio_on", "pending", "disable"} : Joined(work)
  BY DEF AgReturns, AudioOnEnds, PendingEnds, DisableEnds
<1>2. duty = work /\ duty # None /\ duty' = None /\ UNCHANGED <<agQ, stopped, recorder, playback>>
  BY <1>1, AgAssumption DEF Joined
<1>3. Clean' /\ record_tid' = None /\ in_handle_record' = FALSE /\ out_stream_plb_test' = FALSE
      /\ late' = FALSE
  <2>1. recorder = "done"
    BY <1>1, AgAssumption DEF Joined, IInv, ThreadsOwned, TypeOK
  <2> QED
    BY <1>1, <1>2, <2>1 DEF Joined, Clean, IInv, ThreadsOwned
<1>4. /\ memorized_evt' \in Seq(Devices) /\ Len(memorized_evt') <= MaxMemory /\ wanted' \in BOOLEAN
      /\ link' \in {"down", "connecting", "up", "closing"} /\ sco' \in {"off", "on", "closing"}
      /\ StackView' = StackView /\ (sco' # "off" <=> sco # "off") /\ (link' # "down" <=> link # "down")
      /\ (sco' # "off" => link' \in {"up", "closing"})
      /\ \/ mAgState = "NOT_STARTED" /\ UNCHANGED <<mAgState, link, sco>>
         \/ mAgState # "NOT_STARTED" /\ mAgState' = "CONNECTED"
         \/ mAgState = "PENDING" /\ mAgState' = "PENDING"
  <2>1. CASE AudioOnEnds
    BY <1>2, <2>1, AgAssumption DEF AudioOnEnds, Joined, ChangeState, IInv, TypeOK, StackSound, StackView,
                      ThreadsOwned
  <2>2. CASE DisableEnds
    BY <1>2, <2>2, AgAssumption DEF DisableEnds, Joined, ChangeState, IInv, TypeOK, StackSound, StackView,
                      ThreadsOwned
  <2>3. CASE PendingEnds
    <3>1. /\ mAgState = "PENDING" /\ TypeOK /\ StackSound
      BY <1>2, <2>3, AgAssumption DEF PendingEnds, Joined, IInv, ThreadsOwned
    <3>2. memorized_evt # <<>> =>
             /\ SubSeq(memorized_evt, 1, Len(memorized_evt) - 1) \in Seq(Devices)
             /\ Len(SubSeq(memorized_evt, 1, Len(memorized_evt) - 1)) <= MaxMemory
      BY <3>1, AgAssumption DEF TypeOK
    <3> QED
      BY <2>3, <3>1, <3>2 DEF PendingEnds, ChangeState, Disconnects, CloseSco, TypeOK, StackSound, StackView
  <2> QED
    BY <2>1, <2>2, <2>3 DEF AgReturns
<1>5. TypeOK'
  BY <1>2, <1>3, <1>4 DEF IInv, TypeOK, Clean
<1>6. QueueHasRoom' /\ StackSound' /\ ThreadsOwned'
  BY <1>2, <1>3, <1>4, AgAssumption DEF IInv, QueueHasRoom, StackSound, ThreadsOwned, Clean
<1>7. StartIsFresh'
  BY <1>2, <1>4 DEF IInv, StartIsFresh
<1>8. CallbacksLead'
  <2>1. ASSUME NEW v \in Views, Believes(v), mAgState # "NOT_STARTED" PROVE Believes(v)'
    BY <1>2, <1>3, <1>4, <2>1 DEF Believes
  <2> QED
    BY <1>2, <1>4, <2>1 DEF IInv, CallbacksLead
<1> QED
  BY <1>5, <1>6, <1>7, <1>8 DEF IInv

-----------------------------------------------------------------------------
(* The invariant, and what follows from it.                                  *)

LEMMA InitIInv == Init => IInv
<1> SUFFICES ASSUME Init PROVE IInv
  OBVIOUS
<1>1. TypeOK
  <2>1. agQ \in Seq(Requests \union Callbacks) /\ Len(agQ) = 0
        /\ memorized_evt \in Seq(Devices) /\ Len(memorized_evt) = 0
    BY DEF Init
  <2>2. playback \in [Player -> {"done", "started", "loop"}]
    BY DEF Init
  <2>3. {stopped, in_handle_record, out_stream_plb_test, wanted, late} \subseteq BOOLEAN
    BY DEF Init
  <2>4. MaxQueue \in Nat /\ MaxMemory \in Nat
    BY AgAssumption
  <2>5. Len(agQ) <= MaxQueue + 2 /\ Len(memorized_evt) <= MaxMemory
    BY <2>1, <2>4
  <2> QED
    BY <2>1, <2>2, <2>3, <2>5 DEF Init, TypeOK
<1>2. QueueHasRoom /\ StackSound /\ StartIsFresh /\ ThreadsOwned /\ CallbacksLead
  BY AgAssumption DEF Init, QueueHasRoom, StackSound, StartIsFresh, ThreadsOwned, Clean, CallbacksLead
<1> QED
  BY <1>1, <1>2 DEF IInv

(* Nothing that the invariant speaks of is outside of vars.                  *)
LEMMA StutterKeeps == IInv /\ UNCHANGED vars => IInv'
<1> SUFFICES ASSUME IInv, UNCHANGED vars PROVE IInv'
  OBVIOUS
<1> USE DEF vars, stateVars, stackVars, threadVars, streamVars
<1>1. TypeOK' /\ QueueHasRoom' /\ StackSound' /\ StartIsFresh' /\ ThreadsOwned'
  BY DEF IInv, TypeOK, QueueHasRoom, StackSound, StartIsFresh, ThreadsOwned, Clean
<1>2. StackView' = StackView /\ \A v \in Views : Believes(v) => Believes(v)'
  BY DEF StackView, Believes, Clean
<1>3. CallbacksLead'
  BY <1>2 DEF IInv, CallbacksLead
<1> QED
  BY <1>1, <1>3 DEF IInv

LEMMA NextIInv == IInv /\ [Next]_vars => IInv'
<1> SUFFICES ASSUME IInv, [Next]_vars PROVE IInv'
  OBVIOUS
<1>1. CASE AgHandles
  BY <1>1, EnableKeeps, DisableKeeps, RequestsKeep, LinkCallbacksKeep, AudioCallbacksKeep,
     NotHandledKeeps DEF AgHandles
<1>2. CASE AgReturns
  BY <1>2, ReturnsKeep
<1>3. CASE ThreadStep
  BY <1>3, ThreadStepKeeps
<1>4. CASE StackNext \/ \E r \in Requests : Ask(r)
  BY <1>4, PostingKeeps
<1>5. CASE UNCHANGED vars
  BY <1>5, StutterKeeps
<1> QED
  BY <1>1, <1>2, <1>3, <1>4, <1>5 DEF Next

LEMMA SpecIInv == Spec => []IInv
  BY InitIInv, NextIInv, PTL DEF Spec

(* Outside of a call's audio nothing records: AudioDisconnectedCb and        *)
(* HandleDisableAg join the record thread and free its handle, and the link  *)
(* is not reported down in between, because the audio's callback is ahead    *)
(* of the link's in the queue (state_connected_handler, state_pending_       *)
(* handler, state_audio_on_handler, HandleDisableAg).                        *)
THEOREM SpecRecorderOwned == Spec => []RecorderOwned
<1>1. IInv => RecorderOwned
  BY DEF IInv, RecorderOwned, ThreadsOwned, Clean
<1> QED
  BY <1>1, SpecIInv, PTL

(* Once the callbacks that the stack has posted are handled, the state that  *)
(* the handlers left mAgState in is the connection's and its audio's,        *)
(* however requests of the user crossed with them.                           *)
THEOREM SpecStateAgrees == Spec => []StateAgrees
<1>1. ASSUME IInv PROVE StateAgrees
  <2> SUFFICES ASSUME agQ = <<>>, duty = None
               PROVE  /\ mAgState = "DISCONNECTED" => link \in {"down", "connecting"}
                      /\ mAgState = "CONNECTED" => link \in {"up", "closing"} /\ sco = "off"
                      /\ mAgState = "AUDIO_ON" => link \in {"up", "closing"} /\ sco # "off"
    BY DEF StateAgrees
  <2>1. CASE mAgState = "NOT_STARTED"
    BY <2>1
  <2>2. CASE mAgState # "NOT_STARTED"
    <3>1. Believes(StackView)
      <4>1. PICK v \in Views : Believes(v) /\ Leads(agQ, v, StackView)
        BY <1>1, <2>2 DEF IInv, CallbacksLead
      <4>2. agQ \in Seq(Events) /\ StackView \in Views
        BY <1>1 DEF IInv, TypeOK, Events, StackView, Views
      <4> QED
        BY <4>1, <4>2, LeadsQuiet
    <3> QED
      BY <1>1, <3>1 DEF Believes, StackView, IInv, TypeOK, StackSound
  <2> QED
    BY <2>1, <2>2
<1> QED
  BY <1>1, SpecIInv, PTL
=============================================================================
