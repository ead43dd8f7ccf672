--------------------------- MODULE ObexClient_proofs ---------------------------
(***************************************************************************)
(* Safety of ObexClient for any number of blocks of a bulk PUT and of packets *)
(* of the server on their way.                                               *)
(*                                                                          *)
(* A request is in one of three places: the packet to be written, what the    *)
(* server owes, what the client has not read.  For each state of the client   *)
(* the inductive invariant says what may be in the three together, and what   *)
(* single response mode is at the server.  It says so of a connection that    *)
(* has not failed and that no crossed abort has confused (Live); a failed     *)
(* one is only freed.                                                       *)
(***************************************************************************)
EXTENDS ObexClient, SequenceTheorems, WellFoundedInduction, TLAPS

-----------------------------------------------------------------------------
(* The sets of the variables.                                                *)

States == Usable \union {"INVALID_CONNECTION", "LOWER_LAYER_CONNECTING",
                         "LOWER_LAYER_CONNECTED", "DISCONNECTING"}
Requests == {"PUT", "BULK", "FINAL", "LAST", "CONNECT", "GET", "SETTING_PATH", "DO_ACTION", "ABORT",
             "DISCONNECT"}
Blocks == {"queued", "sent", "confirmed"}

Connection ==
    [life : {"none", "alive", "crashed"}, state : States,
     abort : {"NO_ABORT", "ABORT_PENDING", "ABORT_SENT"}, abortingState : States,
     busy : BOOLEAN, srm : {"no", "supported", "enabled"}, timeoutCB : BOOLEAN,
     challenged : BOOLEAN, segment : BOOLEAN, blocks : Seq(Blocks), final : BOOLEAN,
     status : BOOLEAN, disconnectingLowerLayer : BOOLEAN,
     writeMbuf : Requests \union {None}, deferred : 0 .. 2, error : BOOLEAN,
     waits : {None, "odd", "even"}, abortAsked : BOOLEAN, crossed : BOOLEAN]

Packets ==
    [to : Requests \union {None}, srm : BOOLEAN,
     code : {"ok", "challenge", "error", "more", "okdata", "denied"}]

Typed ==
    /\ c \in Connection /\ Len(c.blocks) <= MaxBlocks
    /\ inbound \in Seq(Packets) /\ Len(inbound) <= MaxInbound
    /\ owed \in Seq(Requests) /\ stream \in {"no", "on", "bulk", "over"}

-----------------------------------------------------------------------------
(* What may be on its way: k is the connection, in and ow what is not read    *)
(* and not answered, st the server's single response mode.                   *)

Quiet(k, in, ow) == k.writeMbuf = None /\ ow = <<>> /\ in = <<>>

Answers(p, requests) ==
    /\ p.to \in requests /\ p.code \in Codes(p.to)
    /\ p.srm => p.code = "more" /\ p.to \in {"GET", "PUT"}

Written(k, in, ow, requests) == k.writeMbuf \in requests /\ ow = <<>> /\ in = <<>>
Owed(k, in, ow, requests) == k.writeMbuf = None /\ in = <<>> /\ Len(ow) = 1 /\ ow[1] \in requests
Answered1(k, in, ow, requests) ==
    k.writeMbuf = None /\ ow = <<>> /\ Len(in) = 1 /\ Answers(in[1], requests)

(* One request, in one of the places.                                        *)
One(k, in, ow, requests) ==
    \/ Written(k, in, ow, requests) \/ Owed(k, in, ow, requests)
    \/ Answered1(k, in, ow, requests)

(* Before anything of an operation is read, the server may still be over with *)
(* the last one.                                                            *)
Fresh(k, st) == st = "no" \/ (st = "over" /\ k.writeMbuf # None)

Idle(k, in, ow, st) ==
    ~k.busy /\ Quiet(k, in, ow) /\ st \in {"no", "over"} /\ k.abort = "NO_ABORT"

Connects(k, in, ow, st) ==
    /\ st = "no" /\ k.abort = "NO_ABORT"
    /\ IF k.busy THEN One(k, in, ow, {"CONNECT"}) ELSE Quiet(k, in, ow)

Simple(k, in, ow, st) ==
    One(k, in, ow, {k.state}) /\ Fresh(k, st) /\ k.abort = "NO_ABORT"

(* The packets of a GET in single response mode, from the i-th on: the server *)
(* goes on, or has ended with the last of them.                              *)
GetStream(in, i, ow, st) ==
    /\ \A j \in i .. Len(in) : Answers(in[j], {"GET"}) /\ ~in[j].srm
    /\ \/ /\ Len(ow) = 1 /\ ow[1] = "GET" /\ st = "on"
          /\ \A j \in i .. Len(in) : in[j].code = "more"
       \/ /\ ow = <<>> /\ st = "no" /\ i <= Len(in) /\ in[Len(in)].code # "more"
          /\ \A j \in i .. Len(in) : j # Len(in) => in[j].code = "more"

Gets(k, in, ow, st) ==
    IF k.srm = "enabled" THEN ~k.busy /\ k.writeMbuf = None /\ GetStream(in, 1, ow, st)
    ELSE \/ ~k.busy /\ Quiet(k, in, ow) /\ st = "no"
         \/ /\ k.busy /\ One(k, in, ow, {"GET"}) /\ Fresh(k, st)
            /\ in # <<>> => ~in[1].srm
         \/ /\ k.busy /\ k.writeMbuf = None /\ in # <<>> /\ Answers(in[1], {"GET"}) /\ in[1].srm
            /\ GetStream(in, 2, ow, st)

(* In single response mode only the final packet is answered.                *)
Puts1(k, in, ow, st) ==
    IF k.srm = "enabled"
    THEN \/ Quiet(k, in, ow) /\ st = "on"
         \/ k.busy /\ Written(k, in, ow, {"PUT", "FINAL"}) /\ st = "on"
         \/ k.busy /\ Owed(k, in, ow, {"FINAL"}) /\ st = "on"
         \/ k.busy /\ Answered1(k, in, ow, {"FINAL"}) /\ st = "no"
    ELSE \/ ~k.busy /\ Quiet(k, in, ow) /\ st = "no"
         \/ k.busy /\ Written(k, in, ow, {"PUT", "FINAL"}) /\ st \in {"no", "over"}
         \/ k.busy /\ Owed(k, in, ow, {"PUT", "FINAL"}) /\ st = "no"
         \/ /\ k.busy /\ Answered1(k, in, ow, {"PUT", "FINAL"})
            /\ st = IF in[1].srm THEN "on" ELSE "no"

NoneQueued(k) == \A i \in 1 .. Len(k.blocks) : k.blocks[i] # "queued"
NoneSent(k) == \A i \in 1 .. Len(k.blocks) : k.blocks[i] # "sent"

(* The last block is the final one and is sent.                              *)
AllSent(k) == k.final /\ NoneQueued(k)

BulkPuts(k, in, ow, st) ==
    /\ NoneSent(k) <=> k.writeMbuf = None
    /\ k.writeMbuf \in {None, "BULK", "LAST"}
    /\ k.writeMbuf = "LAST" => AllSent(k)
    /\ IF k.srm # "enabled"
       THEN /\ st = "no"
            /\ Quiet(k, in, ow) \/ (k.busy /\ One(k, in, ow, {"BULK", "LAST"}))
       ELSE \/ st \in {"on", "bulk"} /\ in = <<>> /\ ow = <<>>
            \/ st \in {"on", "bulk"} /\ Owed(k, in, ow, {"LAST"}) /\ AllSent(k)
            \/ st = "no" /\ Answered1(k, in, ow, {"LAST"}) /\ AllSent(k)
            \/ /\ st = "over" /\ ow = <<>>
               /\ in # <<>> => Len(in) = 1 /\ in[1].to = None /\ in[1].code \in {"denied", "error"}

(* What an abort may leave behind it: none of it confirms the abort, but for  *)
(* the response to a PUT.                                                   *)
LeftOwed(ow, n) == \A i \in 1 .. n : ow[i] \in {"GET"} \union Puts
LeftUnread(in, n) == \A i \in 1 .. n : in[i].code = "ok" => in[i].to \in Puts

Aborts(k, in, ow, st) ==
    \/ k.writeMbuf = "ABORT" /\ LeftOwed(ow, Len(ow)) /\ LeftUnread(in, Len(in))
    \/ /\ k.writeMbuf = None /\ ow # <<>> /\ ow[Len(ow)] = "ABORT"
       /\ LeftOwed(ow, Len(ow) - 1) /\ LeftUnread(in, Len(in))
    \/ /\ k.writeMbuf = None /\ ow = <<>> /\ in # <<>> /\ in[Len(in)].to = "ABORT"
       /\ in[Len(in)].code = "ok" /\ st = "no" /\ LeftUnread(in, Len(in) - 1)

Live(k) == k.life = "alive" /\ ~k.disconnectingLowerLayer /\ ~k.crossed

(* By the state of the connection.                                           *)
Protocol(k, in, ow, st) ==
    /\ k.state = "LOWER_LAYER_CONNECTED" => Connects(k, in, ow, st)
    /\ k.state = "CONNECTED" => Idle(k, in, ow, st)
    /\ k.state \in {"SETTING_PATH", "DO_ACTION"} => Simple(k, in, ow, st)
    /\ k.state = "GETTING" => Gets(k, in, ow, st)
    /\ k.state = "PUTTING" => Puts1(k, in, ow, st)
    /\ k.state = "BULK_PUTTING" => BulkPuts(k, in, ow, st)
    /\ k.state = "ABORTING" => Aborts(k, in, ow, st)

(* Of every connection, a failed one too.                                    *)
Always(k, in, ow, st) ==
    /\ k.state \in {"INVALID_CONNECTION", "LOWER_LAYER_CONNECTING"} =>
          Quiet(k, in, ow) /\ st = "no" /\ k.abort = "NO_ABORT"
    /\ k.life = "alive" \/ k.state = "INVALID_CONNECTION"
    /\ ~k.crossed /\ k.writeMbuf # None => k.busy
    /\ k.abort = "ABORT_SENT" => k.state = "ABORTING"
    /\ k.crossed => k.state = "CONNECTED"

Sound(k, in, ow, st) ==
    Always(k, in, ow, st) /\ (Live(k) => Protocol(k, in, ow, st))

IInv == Typed /\ Sound(c, inbound, owed, stream)

-----------------------------------------------------------------------------
(* What the functions of the connection do to it.                            *)

Same(k, l) ==
    /\ l.life = k.life /\ l.state = k.state /\ l.srm = k.srm /\ l.final = k.final
    /\ l.disconnectingLowerLayer = k.disconnectingLowerLayer /\ l.crossed = k.crossed

Still(k, l) ==
    /\ Same(k, l) /\ l.abort = k.abort /\ l.busy = k.busy /\ l.writeMbuf = k.writeMbuf
    /\ l.blocks = k.blocks

LEMMA SetsAreDisjoint ==
    /\ None = "none" /\ Puts \subseteq Requests /\ None \notin Requests
    /\ InProgress \subseteq States
  BY DEF None, Puts, Requests, InProgress, States, Usable

LEMMA StillSound ==
    ASSUME NEW k, NEW l, NEW in, NEW ow, NEW st, Still(k, l), Sound(k, in, ow, st)
    PROVE  Sound(l, in, ow, st)
  BY DEF Still, Same, Sound, Always, Live, Protocol, Connects, Idle, Simple, Gets, Puts1, BulkPuts, Aborts,
         Fresh, One, Quiet, Written, Owed, Answered1, AllSent, NoneSent, NoneQueued

LEMMA SendPacketIs ==
    ASSUME NEW k \in Connection, NEW packet \in Requests
    PROVE  /\ SendPacket(k, packet) \in Connection
           /\ SendPacket(k, packet).writeMbuf = packet /\ SendPacket(k, packet).busy
           /\ Same(k, SendPacket(k, packet)) /\ SendPacket(k, packet).abort = k.abort
           /\ SendPacket(k, packet).blocks = k.blocks
           /\ SendPacket(k, packet).abortingState = k.abortingState
  BY DEF SendPacket, Connection, Same

LEMMA FatalIs ==
    ASSUME NEW k \in Connection
    PROVE  /\ FatalObexError(k) \in Connection
           /\ FatalObexError(k).disconnectingLowerLayer /\ FatalObexError(k).abort = "NO_ABORT"
           /\ FatalObexError(k).writeMbuf = k.writeMbuf /\ FatalObexError(k).busy = k.busy
           /\ FatalObexError(k).state = k.state /\ FatalObexError(k).crossed = k.crossed
           /\ FatalObexError(k).life = k.life /\ FatalObexError(k).blocks = k.blocks
<1> DEFINE times == IF k.deferred = 0 THEN 1 ELSE 2
<1>1. times \in 0 .. 2
  OBVIOUS
<1>2. FatalObexError(k) = [k EXCEPT !.abort = "NO_ABORT", !.disconnectingLowerLayer = TRUE,
                                    !.deferred = times]
  BY DEF FatalObexError
<1> HIDE DEF times
<1> QED
  BY <1>1, <1>2 DEF Connection

(* OBEX_FatalError: the connection is no more than freed.                    *)
LEMMA FatalSound ==
    ASSUME NEW k \in Connection, NEW in, NEW ow, NEW st, Always(k, in, ow, st)
    PROVE  /\ FatalObexError(k) \in Connection /\ FatalObexError(k).blocks = k.blocks
           /\ Sound(FatalObexError(k), in, ow, st)
<1> DEFINE l == FatalObexError(k)
<1>1. /\ l \in Connection /\ l.disconnectingLowerLayer /\ l.abort = "NO_ABORT"
      /\ l.writeMbuf = k.writeMbuf /\ l.busy = k.busy /\ l.state = k.state
      /\ l.crossed = k.crossed /\ l.life = k.life /\ l.blocks = k.blocks
  BY FatalIs
<1> HIDE DEF l
<1>2. Always(l, in, ow, st)
  BY <1>1 DEF Always, Quiet
<1>3. ~Live(l)
  BY <1>1 DEF Live
<1> QED
  BY <1>1, <1>2, <1>3 DEF Sound, l

LEMMA SendAbortIs ==
    ASSUME NEW k \in Connection, k.state \in InProgress, k.abort # "ABORT_SENT"
    PROVE  /\ SendAbort(k) \in Connection /\ SendAbort(k).blocks = k.blocks
           /\ SendAbort(k).life = k.life /\ SendAbort(k).crossed = k.crossed
           /\ SendAbort(k).state = "ABORTING" /\ SendAbort(k).busy
           /\ k.writeMbuf # None => SendAbort(k).disconnectingLowerLayer
           /\ k.writeMbuf = None =>
                 /\ SendAbort(k).disconnectingLowerLayer = k.disconnectingLowerLayer
                 /\ SendAbort(k).writeMbuf = "ABORT"
<1> DEFINE l == [k EXCEPT !.abortingState = k.state, !.state = "ABORTING", !.busy = TRUE]
<1>1. /\ l \in Connection /\ l.life = k.life /\ l.crossed = k.crossed /\ l.blocks = k.blocks
      /\ l.state = "ABORTING" /\ l.busy /\ l.writeMbuf = k.writeMbuf
      /\ l.disconnectingLowerLayer = k.disconnectingLowerLayer
  BY DEF Connection, States, Usable
<1>2. SendAbort(k) = IF k.writeMbuf # None THEN FatalObexError(l)
                     ELSE [SendPacket(l, "ABORT") EXCEPT !.abort = "ABORT_SENT"]
  BY DEF SendAbort
<1> HIDE DEF l
<1>3. CASE k.writeMbuf # None
  BY <1>1, <1>2, <1>3, FatalIs
<1>4. CASE k.writeMbuf = None
  <2> DEFINE m == SendPacket(l, "ABORT")
  <2>1. /\ m \in Connection /\ m.writeMbuf = "ABORT" /\ m.busy /\ m.life = l.life
        /\ m.crossed = l.crossed /\ m.blocks = l.blocks /\ m.state = l.state
        /\ m.disconnectingLowerLayer = l.disconnectingLowerLayer
    BY <1>1, SendPacketIs DEF Requests, Same
  <2>2. SendAbort(k) = [m EXCEPT !.abort = "ABORT_SENT"]
    BY <1>2, <1>4
  <2> HIDE DEF m
  <2>3. /\ SendAbort(k) \in Connection /\ SendAbort(k).writeMbuf = m.writeMbuf /\ SendAbort(k).busy = m.busy
        /\ SendAbort(k).life = m.life /\ SendAbort(k).crossed = m.crossed
        /\ SendAbort(k).blocks = m.blocks /\ SendAbort(k).state = m.state
        /\ SendAbort(k).disconnectingLowerLayer = m.disconnectingLowerLayer
    <3>1. SendAbort(k) \in Connection
      BY <2>1, <2>2 DEF Connection
    <3> QED
      BY <2>1, <2>2, <3>1 DEF Connection
  <2> QED
    BY <1>1, <1>4, <2>1, <2>3
<1> QED
  BY <1>3, <1>4

(* SendAbort: whatever of the operation is still on its way is before the     *)
(* abort.                                                                   *)
LEMMA SendAbortSound ==
    ASSUME NEW k \in Connection, k.state \in InProgress, NEW in, NEW ow, NEW st,
           Always(k, in, ow, st),
           Live(k) /\ k.writeMbuf = None => LeftOwed(ow, Len(ow)) /\ LeftUnread(in, Len(in))
    PROVE  /\ SendAbort(k) \in Connection /\ SendAbort(k).blocks = k.blocks
           /\ Sound(SendAbort(k), in, ow, st)
<1>1. k.abort # "ABORT_SENT" /\ k.life = "alive" /\ ~k.crossed
  BY DEF Always, InProgress
<1>2. Always(SendAbort(k), in, ow, st)
  BY <1>1, SendAbortIs DEF Always, Quiet
<1>3. ASSUME Live(SendAbort(k)) PROVE Protocol(SendAbort(k), in, ow, st)
  <2>1. k.writeMbuf = None /\ Live(k)
    BY <1>1, <1>3, SendAbortIs DEF Live
  <2>2. Aborts(SendAbort(k), in, ow, st) /\ SendAbort(k).state = "ABORTING"
    BY <1>1, <2>1, SendAbortIs DEF Aborts
  <2> QED
    BY <2>2 DEF Protocol
<1> QED
  BY <1>1, <1>2, <1>3, SendAbortIs DEF Sound

LEMMA WaitsIs ==
    ASSUME NEW k \in Connection
    PROVE  /\ [k EXCEPT !.waits = Waiting(@)] \in Connection
           /\ Still(k, [k EXCEPT !.waits = Waiting(@)])
<1> DEFINE w == Waiting(k.waits)
<1>1. w \in {None, "odd", "even"}
  BY DEF Waiting, Connection
<1>2. [k EXCEPT !.waits = Waiting(@)] = [k EXCEPT !.waits = w]
  OBVIOUS
<1> HIDE DEF w
<1> QED
  BY <1>1, <1>2 DEF Connection, Still, Same

-----------------------------------------------------------------------------
(* The connection comes and goes.                                            *)

LEMMA ClosedIs ==
    /\ Closed \in Connection /\ Closed.state = "INVALID_CONNECTION" /\ Closed.blocks = <<>>
    /\ Closed.writeMbuf = None /\ Closed.abort = "NO_ABORT" /\ Closed.life = "none"
    /\ ~Closed.crossed
  BY SetsAreDisjoint DEF Closed, Connection, States

LEMMA InitSound == Init => IInv
<1> SUFFICES ASSUME Init PROVE IInv
  OBVIOUS
<1>1. Typed
  BY ClosedIs, ObexAssumption DEF Init, Typed
<1>2. Sound(c, inbound, owed, stream)
  BY ClosedIs DEF Init, Sound, Always, Live, Quiet
<1> QED
  BY <1>1, <1>2 DEF IInv

LEMMA FreeSound == ASSUME FreeConnection(c) PROVE IInv'
<1> DEFINE crashed == [Closed EXCEPT !.life = "crashed"]
<1>1. /\ crashed \in Connection /\ crashed.state = "INVALID_CONNECTION" /\ crashed.blocks = <<>>
      /\ crashed.writeMbuf = None /\ crashed.abort = "NO_ABORT" /\ crashed.life = "crashed"
      /\ ~crashed.crossed
  BY ClosedIs DEF Connection
<1>2. c' \in {Closed, crashed} /\ inbound' = <<>> /\ owed' = <<>> /\ stream' = "no"
  BY DEF FreeConnection
<1> HIDE DEF crashed
<1>3. /\ c' \in Connection /\ c'.state = "INVALID_CONNECTION" /\ c'.blocks = <<>>
      /\ c'.writeMbuf = None /\ c'.abort = "NO_ABORT" /\ c'.life # "alive"
      /\ ~c'.crossed
  BY <1>1, <1>2, ClosedIs
<1>4. Typed'
  BY <1>2, <1>3, ObexAssumption DEF Typed
<1>5. Sound(c, inbound, owed, stream)'
  BY <1>2, <1>3 DEF Sound, Always, Live, Quiet
<1> QED
  BY <1>4, <1>5 DEF IInv

(* What remains of a step that leaves the server and the packets alone.      *)
LEMMA OnlyConnection ==
    ASSUME IInv, UNCHANGED <<inbound, owed, stream>>, c' \in Connection,
           Len(c'.blocks) <= MaxBlocks, Sound(c', inbound, owed, stream)
    PROVE  IInv'
<1>1. Typed'
  BY DEF IInv, Typed
<1>2. Sound(c, inbound, owed, stream)'
  OBVIOUS
<1> QED
  BY <1>1, <1>2 DEF IInv

LEMMA ConnectSound == ASSUME IInv, OI_OBEXCLI_Connect PROVE IInv'
<1>1. PICK srm \in {"no", "supported"} :
        c' = [Closed EXCEPT !.life = "alive", !.state = "LOWER_LAYER_CONNECTING", !.srm = srm,
                            !.waits = Waiting(@)]
  BY DEF OI_OBEXCLI_Connect
<1> DEFINE k == [Closed EXCEPT !.life = "alive", !.state = "LOWER_LAYER_CONNECTING", !.srm = srm]
<1>2. /\ k \in Connection /\ k.life = "alive" /\ k.state = "LOWER_LAYER_CONNECTING"
      /\ k.blocks = <<>> /\ k.writeMbuf = None /\ k.abort = "NO_ABORT" /\ ~k.crossed
  BY ClosedIs DEF Connection, States
<1>3. c' = [k EXCEPT !.waits = Waiting(@)]
  BY <1>1
<1> HIDE DEF k
<1>4. c.life = "none" /\ c \in Connection
  BY DEF OI_OBEXCLI_Connect, IInv, Typed
<1>5. Quiet(c, inbound, owed) /\ stream = "no"
  BY <1>4 DEF IInv, Sound, Always
<1>6. Sound(k, inbound, owed, stream)
  BY <1>2, <1>5 DEF Sound, Always, Live, Protocol, Quiet
<1>7. c' \in Connection /\ Still(k, c')
  BY <1>2, <1>3, WaitsIs
<1>8. Sound(c', inbound, owed, stream) /\ c'.blocks = <<>>
  BY <1>2, <1>6, <1>7, StillSound DEF Still
<1> QED
  BY <1>7, <1>8, OnlyConnection, ObexAssumption DEF OI_OBEXCLI_Connect

LEMMA DispatcherSound == ASSUME IInv, Dispatcher PROVE IInv'
<1>0. c \in Connection /\ Len(c.blocks) <= MaxBlocks /\ Sound(c, inbound, owed, stream)
  BY DEF IInv, Typed
<1>1. CASE ResponseTimeout
  <2> DEFINE k == [c EXCEPT !.timeoutCB = FALSE]
  <2>1. k \in Connection /\ Still(c, k)
    BY <1>0 DEF Connection, Still, Same
  <2>2. c' = FatalObexError(k) /\ UNCHANGED <<inbound, owed, stream>>
    BY <1>1 DEF ResponseTimeout
  <2> HIDE DEF k
  <2>3. Always(k, inbound, owed, stream) /\ k.blocks = c.blocks
    BY <1>0, <2>1, StillSound DEF Sound, Still
  <2> QED
    BY <1>0, <2>1, <2>2, <2>3, FatalSound, OnlyConnection
<1>2. CASE CommandError
  <2> DEFINE k == [c EXCEPT !.error = FALSE]
  <2>1. k \in Connection /\ Still(c, k)
    BY <1>0 DEF Connection, Still, Same
  <2>2. c' = FatalObexError(k) /\ UNCHANGED <<inbound, owed, stream>>
    BY <1>2 DEF CommandError
  <2> HIDE DEF k
  <2>3. Always(k, inbound, owed, stream) /\ k.blocks = c.blocks
    BY <1>0, <2>1, StillSound DEF Sound, Still
  <2> QED
    BY <1>0, <2>1, <2>2, <2>3, FatalSound, OnlyConnection
<1>3. CASE DeferredLowerTransportDisconnectInd
  BY <1>3, FreeSound DEF DeferredLowerTransportDisconnectInd
<1> QED
  BY <1>1, <1>2, <1>3 DEF Dispatcher

-----------------------------------------------------------------------------
(* The upper layer.                                                         *)

(* A request that may be sent when nothing is on its way.                    *)
MayFollow(k, packet, st) ==
    \/ k.state = "LOWER_LAYER_CONNECTED" /\ packet = "CONNECT" /\ st = "no" /\ k.abort = "NO_ABORT"
    \/ k.state \in {"SETTING_PATH", "DO_ACTION"} /\ packet = k.state /\ st \in {"no", "over"}
       /\ k.abort = "NO_ABORT"
    \/ k.state = "GETTING" /\ packet = "GET" /\ k.srm # "enabled" /\ st \in {"no", "over"}
    \/ /\ k.state = "PUTTING" /\ packet \in {"PUT", "FINAL"}
       /\ IF k.srm = "enabled" THEN st = "on" ELSE st \in {"no", "over"}
    \/ k.state = "DISCONNECTING"

LEMMA SendSound ==
    ASSUME NEW k \in Connection, NEW packet \in Requests, NEW in, NEW ow, NEW st,
           Always(k, in, ow, st), k.state \notin {"INVALID_CONNECTION", "LOWER_LAYER_CONNECTING"},
           Live(k) => Quiet(k, in, ow) /\ MayFollow(k, packet, st)
    PROVE  /\ SendPacket(k, packet) \in Connection /\ SendPacket(k, packet).blocks = k.blocks
           /\ Sound(SendPacket(k, packet), in, ow, st)
<1> DEFINE l == SendPacket(k, packet)
<1>1. /\ l \in Connection /\ l.writeMbuf = packet /\ l.busy /\ Same(k, l)
      /\ l.abort = k.abort /\ l.blocks = k.blocks
  BY SendPacketIs
<1>2. /\ l.state = k.state /\ l.life = k.life /\ l.srm = k.srm /\ l.crossed = k.crossed
      /\ Live(l) <=> Live(k)
  BY <1>1 DEF Same, Live
<1> HIDE DEF l
<1>3. Always(l, in, ow, st)
  BY <1>1, <1>2 DEF Always
<1>4. packet # None
  BY SetsAreDisjoint
<1>5. ASSUME Live(l) PROVE Protocol(l, in, ow, st)
  <2>1. ow = <<>> /\ in = <<>> /\ MayFollow(k, packet, st)
    BY <1>2, <1>5 DEF Quiet
  <2> QED
    BY <1>1, <1>2, <1>4, <2>1
       DEF MayFollow, Protocol, Connects, Simple, Gets, Puts1, One, Written, Fresh
<1> QED
  BY <1>1, <1>3, <1>5 DEF Sound, l

LEMMA StartsIs ==
    ASSUME NEW k \in Connection, NEW state \in {"GETTING", "PUTTING"},
           k.state \in {"CONNECTED", state}
    PROVE  /\ Starts(k, state) \in Connection /\ Starts(k, state).state = state
           /\ Starts(k, state).life = k.life /\ Starts(k, state).crossed = k.crossed
           /\ Starts(k, state).disconnectingLowerLayer = k.disconnectingLowerLayer
           /\ Starts(k, state).abort = k.abort /\ Starts(k, state).busy = k.busy
           /\ Starts(k, state).writeMbuf = k.writeMbuf /\ Starts(k, state).blocks = k.blocks
           /\ k.state = "CONNECTED" => Starts(k, state).srm # "enabled"
           /\ k.state # "CONNECTED" => Starts(k, state) = k
<1> DEFINE srm == IF k.srm = "enabled" THEN "supported" ELSE k.srm
           l == [k EXCEPT !.state = state, !.srm = srm]
<1>1. srm \in {"no", "supported"}
  BY DEF Connection
<1>2. Starts(k, state) = IF k.state # "CONNECTED" THEN k ELSE l
  BY DEF Starts
<1> HIDE DEF srm
<1>3. /\ l \in Connection /\ l.state = state /\ l.life = k.life /\ l.crossed = k.crossed
      /\ l.disconnectingLowerLayer = k.disconnectingLowerLayer /\ l.abort = k.abort
      /\ l.busy = k.busy /\ l.writeMbuf = k.writeMbuf /\ l.blocks = k.blocks /\ l.srm = srm
  <2>1. state \in States
    BY DEF States, Usable, InProgress
  <2>2. l \in Connection
    BY <1>1, <2>1 DEF Connection
  <2> QED
    BY <2>2 DEF Connection
<1> HIDE DEF l
<1> QED
  BY <1>1, <1>2, <1>3

LEMMA AuthenticationSound == ASSUME IInv, OI_OBEXCLI_Authentication PROVE IInv'
<1>0. c \in Connection /\ Len(c.blocks) <= MaxBlocks /\ Sound(c, inbound, owed, stream)
  BY DEF IInv, Typed
<1>1. /\ c.state = "LOWER_LAYER_CONNECTED" /\ ~c.busy
      /\ UNCHANGED <<inbound, owed, stream>>
  BY DEF OI_OBEXCLI_Authentication, Calls, MaySend
<1> DEFINE unasked == [c EXCEPT !.challenged = FALSE]
           answers == [unasked EXCEPT !.waits = Waiting(@)]
<1>2. unasked \in Connection /\ Still(c, unasked)
  BY <1>0 DEF Connection, Still, Same
<1>3. c' \in {SendPacket(answers, "CONNECT"), [answers EXCEPT !.error = TRUE]}
  BY DEF OI_OBEXCLI_Authentication
<1> HIDE DEF unasked
<1>4. answers \in Connection /\ Still(unasked, answers)
  BY <1>2, WaitsIs
<1> HIDE DEF answers
<1>5. Still(c, answers) /\ Sound(answers, inbound, owed, stream)
  BY <1>0, <1>2, <1>4, StillSound DEF Still, Same
<1>6. CASE c' = SendPacket(answers, "CONNECT")
  <2>1. Live(answers) => Quiet(answers, inbound, owed) /\ MayFollow(answers, "CONNECT", stream)
    BY <1>1, <1>5 DEF Sound, Protocol, Connects, MayFollow, Still, Same
  <2>2. /\ Always(answers, inbound, owed, stream) /\ answers.state = "LOWER_LAYER_CONNECTED"
        /\ "CONNECT" \in Requests
    BY <1>1, <1>5 DEF Sound, Still, Same, Requests
  <2>3. c' \in Connection /\ c'.blocks = answers.blocks /\ Sound(c', inbound, owed, stream)
    BY <1>4, <1>6, <2>1, <2>2, SendSound
  <2> QED
    BY <1>0, <1>1, <1>5, <2>3, OnlyConnection DEF Still
<1>7. CASE c' = [answers EXCEPT !.error = TRUE]
  <2>1. c' \in Connection /\ Still(answers, c')
    BY <1>4, <1>7 DEF Connection, Still, Same
  <2>2. Sound(c', inbound, owed, stream) /\ c'.blocks = c.blocks
    BY <1>5, <2>1, StillSound DEF Still
  <2> QED
    BY <1>0, <1>1, <2>1, <2>2, OnlyConnection
<1> QED
  BY <1>3, <1>6, <1>7

(* A request of the upper layer that is sent, with the callback it waits for. *)
LEMMA CallSound ==
    ASSUME IInv, UNCHANGED <<inbound, owed, stream>>, NEW k \in Connection, Len(k.blocks) <= MaxBlocks,
           Sound(k, inbound, owed, stream), c' = [k EXCEPT !.waits = Waiting(@)]
    PROVE  IInv'
<1>1. c' \in Connection /\ Still(k, c')
  BY WaitsIs
<1>2. Sound(c', inbound, owed, stream) /\ c'.blocks = k.blocks
  BY <1>1, StillSound DEF Still
<1> QED
  BY <1>1, <1>2, OnlyConnection

LEMMA StartSound ==
    ASSUME IInv, NEW state \in {"GETTING", "PUTTING"}, c.state \in {"CONNECTED", state},
           ~c.crossed, ~c.busy, c.abort = "NO_ABORT", NEW packet \in Requests,
           IF state = "GETTING" THEN packet = "GET" /\ ~(c.state = "GETTING" /\ c.srm = "enabled")
           ELSE packet \in {"PUT", "FINAL"}
    PROVE  /\ SendPacket(Starts(c, state), packet) \in Connection
           /\ SendPacket(Starts(c, state), packet).blocks = c.blocks
           /\ Sound(SendPacket(Starts(c, state), packet), inbound, owed, stream)
<1> DEFINE k == Starts(c, state)
<1>0. c \in Connection /\ Sound(c, inbound, owed, stream)
  BY DEF IInv, Typed
<1>1. /\ k \in Connection /\ k.state = state
      /\ k.life = c.life /\ k.crossed = c.crossed
      /\ k.disconnectingLowerLayer = c.disconnectingLowerLayer
      /\ k.abort = c.abort /\ k.busy = c.busy
      /\ k.writeMbuf = c.writeMbuf /\ k.blocks = c.blocks
      /\ c.state = "CONNECTED" => k.srm # "enabled"
      /\ c.state # "CONNECTED" => k = c
  BY <1>0, StartsIs
<1> HIDE DEF k
<1>2. Always(k, inbound, owed, stream) /\ k.state \notin {"INVALID_CONNECTION", "LOWER_LAYER_CONNECTING"}
  BY <1>0, <1>1 DEF Sound, Always
<1>3. ASSUME Live(k) PROVE Quiet(k, inbound, owed) /\ MayFollow(k, packet, stream)
  <2>1. Live(c)
    BY <1>1, <1>3 DEF Live
  <2>2. CASE c.state = "CONNECTED"
    <3>1. Quiet(c, inbound, owed) /\ stream \in {"no", "over"}
      BY <1>0, <2>1, <2>2 DEF Sound, Protocol, Idle
    <3> QED
      BY <1>1, <2>2, <3>1 DEF Quiet, MayFollow
  <2>3. CASE c.state = state
    <3>1. Quiet(c, inbound, owed) /\ (IF c.srm = "enabled" THEN stream = "on" ELSE stream = "no")
      BY <1>0, <2>1, <2>3 DEF Sound, Protocol, Gets, Puts1
    <3> QED
      BY <1>1, <2>3, <3>1 DEF Quiet, MayFollow
  <2> QED
    BY <2>2, <2>3
<1>4. SendPacket(k, packet) \in Connection /\ SendPacket(k, packet).blocks = k.blocks
      /\ Sound(SendPacket(k, packet), inbound, owed, stream)
  BY <1>1, <1>2, <1>3, SendSound
<1> QED
  BY <1>1, <1>4 DEF k

LEMMA GetSound == ASSUME IInv, OI_OBEXCLI_Get PROVE IInv'
<1>0. c \in Connection /\ Len(c.blocks) <= MaxBlocks /\ Sound(c, inbound, owed, stream)
  BY DEF IInv, Typed
<1>1. /\ c.state \in {"CONNECTED", "GETTING"} /\ ~c.busy /\ c.abort = "NO_ABORT" /\ ~c.crossed
      /\ UNCHANGED <<inbound, owed, stream>>
  BY DEF OI_OBEXCLI_Get, Calls
<1>2. CASE c.state = "GETTING" /\ c.srm = "enabled"
  <2> DEFINE k == [c EXCEPT !.timeoutCB = TRUE]
  <2>1. k \in Connection /\ Still(c, k)
    BY <1>0 DEF Connection, Still, Same
  <2>2. c' = [k EXCEPT !.waits = Waiting(@)]
    BY <1>2 DEF OI_OBEXCLI_Get
  <2> HIDE DEF k
  <2>3. Sound(k, inbound, owed, stream) /\ k.blocks = c.blocks
    BY <1>0, <2>1, StillSound DEF Still
  <2> QED
    BY <1>0, <1>1, <2>1, <2>2, <2>3, CallSound
<1>3. CASE ~(c.state = "GETTING" /\ c.srm = "enabled")
  <2> DEFINE k == SendPacket(Starts(c, "GETTING"), "GET")
  <2>1. c' = [k EXCEPT !.waits = Waiting(@)]
    BY <1>3 DEF OI_OBEXCLI_Get
  <2>2. k \in Connection /\ k.blocks = c.blocks /\ Sound(k, inbound, owed, stream)
    BY <1>1, <1>3, StartSound DEF Requests
  <2> HIDE DEF k
  <2> QED
    BY <1>0, <1>1, <2>1, <2>2, CallSound
<1> QED
  BY <1>2, <1>3

LEMMA PutSound == ASSUME IInv, OI_OBEXCLI_Put PROVE IInv'
<1>0. c \in Connection /\ Len(c.blocks) <= MaxBlocks /\ Sound(c, inbound, owed, stream)
  BY DEF IInv, Typed
<1>1. /\ c.state \in {"CONNECTED", "PUTTING"} /\ ~c.busy /\ c.abort = "NO_ABORT" /\ ~c.crossed
      /\ UNCHANGED <<inbound, owed, stream>>
  BY DEF OI_OBEXCLI_Put, Calls, MaySend
<1>2. PICK packet \in {"PUT", "FINAL"}, segment \in BOOLEAN :
        c' = [SendPacket(Starts(c, "PUTTING"), packet) EXCEPT !.segment = segment, !.waits = Waiting(@)]
  BY DEF OI_OBEXCLI_Put
<1> DEFINE sent == SendPacket(Starts(c, "PUTTING"), packet)
           k == [sent EXCEPT !.segment = segment]
<1>3. sent \in Connection /\ sent.blocks = c.blocks /\ Sound(sent, inbound, owed, stream)
  BY <1>1, <1>2, StartSound DEF Requests
<1>4. c' = [k EXCEPT !.waits = Waiting(@)]
  BY <1>2
<1> HIDE DEF sent
<1>5. k \in Connection /\ Still(sent, k)
  BY <1>3 DEF Connection, Still, Same
<1> HIDE DEF k
<1>6. Sound(k, inbound, owed, stream) /\ k.blocks = c.blocks
  BY <1>3, <1>5, StillSound DEF Still
<1> QED
  BY <1>0, <1>1, <1>4, <1>5, <1>6, CallSound

LEMMA CodesAre ==
    /\ Codes("GET") = {"more", "okdata", "error"}
    /\ Codes("CONNECT") = {"ok", "challenge", "error"}
    /\ Codes("ABORT") = {"ok"}
    /\ \A request \in {"PUT", "BULK"} : Codes(request) = {"more", "ok", "denied", "error"}
    /\ \A request \in {"FINAL", "LAST"} : Codes(request) = {"ok", "denied", "error"}
    /\ \A request \in {"SETTING_PATH", "DO_ACTION", "DISCONNECT"} : Codes(request) = {"ok", "error"}
  BY DEF Codes

LEMMA OneByOne ==
    ASSUME NEW k \in Connection, NEW in, NEW ow, NEW st, NEW requests \in SUBSET Requests,
           One(k, in, ow, requests), requests \subseteq {"GET"} \union Puts
    PROVE  LeftOwed(ow, Len(ow)) /\ LeftUnread(in, Len(in))
<1>1. CASE Written(k, in, ow, requests)
  BY <1>1 DEF Written, LeftOwed, LeftUnread
<1>2. CASE Owed(k, in, ow, requests)
  <2>1. in = <<>> /\ Len(ow) = 1 /\ ow[1] \in {"GET"} \union Puts
    BY <1>2 DEF Owed
  <2> QED
    BY <2>1 DEF LeftOwed, LeftUnread
<1>3. CASE Answered1(k, in, ow, requests)
  <2>1. ow = <<>> /\ Len(in) = 1 /\ in[1].to \in {"GET"} \union Puts /\ in[1].code \in Codes(in[1].to)
    BY <1>3 DEF Answered1, Answers
  <2>2. in[1].code = "ok" => in[1].to # "GET"
    BY <2>1, CodesAre
  <2> QED
    BY <2>1, <2>2 DEF LeftOwed, LeftUnread
<1> QED
  BY <1>1, <1>2, <1>3 DEF One

(* What is on its way of an operation, that an abort may find.               *)
LEMMA LeftOfOperation ==
    ASSUME NEW k \in Connection, NEW in \in Seq(Packets), NEW ow \in Seq(Requests), NEW st,
           Protocol(k, in, ow, st), k.state \in {"GETTING", "PUTTING", "BULK_PUTTING"}
    PROVE  LeftOwed(ow, Len(ow)) /\ LeftUnread(in, Len(in))
<1>1. CASE Quiet(k, in, ow)
  BY <1>1 DEF Quiet, LeftOwed, LeftUnread
<1>2. ASSUME NEW requests \in SUBSET Requests, One(k, in, ow, requests),
             requests \subseteq {"GET"} \union Puts
      PROVE  LeftOwed(ow, Len(ow)) /\ LeftUnread(in, Len(in))
  BY <1>2, OneByOne
<1>3. CASE One(k, in, ow, {"GET"}) \/ One(k, in, ow, {"PUT", "FINAL"}) \/ One(k, in, ow, {"FINAL"})
           \/ One(k, in, ow, {"BULK", "LAST"}) \/ One(k, in, ow, {"LAST"})
  BY <1>2, <1>3 DEF Requests, Puts
<1>4. ASSUME NEW i \in {1, 2}, GetStream(in, i, ow, st), i = 2 => in # <<>> /\ Answers(in[1], {"GET"})
      PROVE  LeftOwed(ow, Len(ow)) /\ LeftUnread(in, Len(in))
  <2>1. \A j \in 1 .. Len(in) : j \in i .. Len(in) \/ (j = 1 /\ i = 2)
    BY <1>4
  <2>2. \A j \in 1 .. Len(in) : Answers(in[j], {"GET"})
    BY <1>4, <2>1 DEF GetStream
  <2>3. LeftOwed(ow, Len(ow))
    BY <1>4 DEF GetStream, LeftOwed
  <2> QED
    BY <2>2, <2>3, CodesAre DEF Answers, LeftUnread
<1>5. CASE k.state = "GETTING"
  BY <1>1, <1>3, <1>4, <1>5 DEF Protocol, Gets
<1>6. CASE k.state = "PUTTING"
  BY <1>1, <1>3, <1>6 DEF Protocol, Puts1, One
<1>7. CASE k.state = "BULK_PUTTING"
  <2>1. BulkPuts(k, in, ow, st)
    BY <1>7 DEF Protocol
  <2>2. CASE in = <<>> /\ ow = <<>>
    BY <2>2 DEF LeftOwed, LeftUnread
  <2>3. CASE ow = <<>> /\ Len(in) = 1 /\ in[1].code \in {"denied", "error"}
    BY <2>3 DEF LeftOwed, LeftUnread
  <2> QED
    BY <1>1, <1>3, <2>1, <2>2, <2>3 DEF BulkPuts, One
<1> QED
  BY <1>5, <1>6, <1>7

LEMMA AbortSound ==
    ASSUME NEW k \in Connection, k.state \in {"GETTING", "PUTTING", "BULK_PUTTING"},
           NEW in \in Seq(Packets), NEW ow \in Seq(Requests), NEW st, Sound(k, in, ow, st)
    PROVE  /\ SendAbort(k) \in Connection /\ SendAbort(k).blocks = k.blocks
           /\ Sound(SendAbort(k), in, ow, st)
<1>1. Live(k) => LeftOwed(ow, Len(ow)) /\ LeftUnread(in, Len(in))
  BY LeftOfOperation DEF Sound
<1> QED
  BY <1>1, SendAbortSound DEF Sound, InProgress

LEMMA PutTerminatesSound == ASSUME IInv, PutTerminates PROVE IInv'
<1>0. /\ c \in Connection /\ Len(c.blocks) <= MaxBlocks /\ Sound(c, inbound, owed, stream)
      /\ inbound \in Seq(Packets) /\ owed \in Seq(Requests)
  BY DEF IInv, Typed
<1>1. c.state = "PUTTING" /\ UNCHANGED <<inbound, owed, stream>>
  BY DEF PutTerminates, Calls
<1>2. c' = [SendAbort(c) EXCEPT !.waits = Waiting(@)]
  BY DEF PutTerminates
<1>3. SendAbort(c) \in Connection /\ SendAbort(c).blocks = c.blocks
      /\ Sound(SendAbort(c), inbound, owed, stream)
  BY <1>0, <1>1, AbortSound
<1> QED
  BY <1>0, <1>1, <1>2, <1>3, CallSound

(* An abort that is pending changes nothing yet.                             *)
LEMMA PendingSound ==
    ASSUME NEW k, k.state \in {"GETTING", "PUTTING", "BULK_PUTTING"}, NEW l, Same(k, l),
           l.busy = k.busy, l.writeMbuf = k.writeMbuf, l.blocks = k.blocks, l.abort # "ABORT_SENT",
           NEW in, NEW ow, NEW st, Sound(k, in, ow, st)
    PROVE  Sound(l, in, ow, st)
<1>1. Always(l, in, ow, st)
  BY DEF Sound, Always, Same, Quiet
<1>2. ASSUME Live(l) PROVE Protocol(l, in, ow, st)
  <2>1. Live(k) /\ Protocol(k, in, ow, st)
    BY <1>2 DEF Live, Same, Sound
  <2> QED
    BY <2>1 DEF Protocol, Same, Gets, Puts1, BulkPuts, Fresh, One, Quiet, Written, Owed, Answered1,
                AllSent, NoneSent, NoneQueued
<1> QED
  BY <1>1, <1>2 DEF Sound

LEMMA UserAbortSound == ASSUME IInv, OI_OBEXCLI_Abort PROVE IInv'
<1>0. /\ c \in Connection /\ Len(c.blocks) <= MaxBlocks /\ Sound(c, inbound, owed, stream)
      /\ inbound \in Seq(Packets) /\ owed \in Seq(Requests)
  BY DEF IInv, Typed
<1>1. /\ c.state \in {"GETTING", "PUTTING", "BULK_PUTTING"}
      /\ UNCHANGED <<inbound, owed, stream>>
  BY DEF OI_OBEXCLI_Abort, Calls
<1> DEFINE pending == [c EXCEPT !.abort = "ABORT_PENDING"]
           k == IF c.busy THEN pending ELSE SendAbort(c)
<1>2. c' = [k EXCEPT !.abortAsked = TRUE]
  BY DEF OI_OBEXCLI_Abort
<1>3. /\ pending \in Connection /\ Same(c, pending) /\ pending.busy = c.busy
      /\ pending.writeMbuf = c.writeMbuf /\ pending.blocks = c.blocks
      /\ pending.abort = "ABORT_PENDING"
  BY <1>0 DEF Connection, Same
<1> HIDE DEF pending
<1>4. Sound(pending, inbound, owed, stream)
  BY <1>0, <1>1, <1>3, PendingSound
<1>5. k \in Connection /\ k.blocks = c.blocks /\ Sound(k, inbound, owed, stream)
  BY <1>0, <1>1, <1>3, <1>4, AbortSound
<1> HIDE DEF k
<1>6. c' \in Connection /\ Still(k, c')
  BY <1>2, <1>5 DEF Connection, Still, Same
<1>7. Sound(c', inbound, owed, stream) /\ c'.blocks = c.blocks
  BY <1>5, <1>6, StillSound DEF Still
<1> QED
  BY <1>0, <1>1, <1>6, <1>7, OnlyConnection

LEMMA SimpleRequestSound ==
    ASSUME IInv, NEW state \in {"SETTING_PATH", "DO_ACTION"}, SimpleRequest(state) PROVE IInv'
<1>0. c \in Connection /\ Len(c.blocks) <= MaxBlocks /\ Sound(c, inbound, owed, stream)
  BY DEF IInv, Typed
<1>1. c.state = "CONNECTED" /\ ~c.crossed /\ UNCHANGED <<inbound, owed, stream>>
  BY DEF SimpleRequest, Calls
<1> DEFINE k == [c EXCEPT !.state = state]
<1>2. c' = [SendPacket(k, state) EXCEPT !.waits = Waiting(@)]
  BY DEF SimpleRequest
<1>3. /\ k \in Connection /\ k.state = state /\ k.life = c.life /\ k.abort = c.abort
      /\ k.writeMbuf = c.writeMbuf /\ k.busy = c.busy /\ k.crossed = c.crossed
      /\ k.disconnectingLowerLayer = c.disconnectingLowerLayer /\ k.blocks = c.blocks
  BY <1>0 DEF Connection, States, Usable, InProgress
<1> HIDE DEF k
<1>4. Always(k, inbound, owed, stream)
  BY <1>0, <1>1, <1>3 DEF Sound, Always
<1>5. Live(k) => Quiet(k, inbound, owed) /\ MayFollow(k, state, stream)
  BY <1>0, <1>1, <1>3 DEF Live, Sound, Protocol, Idle, Quiet, MayFollow
<1>6. /\ SendPacket(k, state) \in Connection /\ SendPacket(k, state).blocks = k.blocks
      /\ Sound(SendPacket(k, state), inbound, owed, stream)
  BY <1>3, <1>4, <1>5, SendSound DEF Requests
<1> QED
  BY <1>0, <1>1, <1>2, <1>3, <1>6, CallSound

LEMMA DisconnectSound == ASSUME IInv, OI_OBEXCLI_Disconnect PROVE IInv'
<1>0. c \in Connection /\ Len(c.blocks) <= MaxBlocks /\ Sound(c, inbound, owed, stream)
  BY DEF IInv, Typed
<1>1. ~c.crossed /\ UNCHANGED <<inbound, owed, stream>>
  BY DEF OI_OBEXCLI_Disconnect, Calls
<1>2. CASE c' = FatalObexError(c)
  BY <1>0, <1>1, <1>2, FatalSound, OnlyConnection DEF Sound
<1>3. CASE c.state = "CONNECTED" /\ c' = [SendPacket(c, "DISCONNECT") EXCEPT !.state = "DISCONNECTING"]
  <2> DEFINE k == SendPacket(c, "DISCONNECT")
  <2>1. /\ k \in Connection /\ k.busy /\ Same(c, k) /\ k.abort = c.abort /\ k.blocks = c.blocks
    BY <1>0, SendPacketIs DEF Requests
  <2>2. c' = [k EXCEPT !.state = "DISCONNECTING"]
    BY <1>3
  <2> HIDE DEF k
  <2>3. /\ c' \in Connection /\ c'.state = "DISCONNECTING" /\ c'.busy = k.busy /\ c'.life = k.life
        /\ c'.abort = k.abort /\ c'.blocks = k.blocks /\ c'.writeMbuf = k.writeMbuf
        /\ ~c'.crossed
    BY <1>1, <2>1, <2>2 DEF Connection, States, Same
  <2>4. Sound(c', inbound, owed, stream)
    BY <1>0, <1>3, <2>1, <2>3 DEF Sound, Always, Live, Protocol, Same
  <2> QED
    BY <1>0, <1>1, <2>1, <2>3, <2>4, OnlyConnection
<1> QED
  BY <1>2, <1>3 DEF OI_OBEXCLI_Disconnect, Calls

-----------------------------------------------------------------------------
(* Bulk PUT.                                                                *)

LEMMA LeastIs ==
    ASSUME NEW S \in SUBSET Nat, S # {}
    PROVE  \E i \in S : \A j \in S : i <= j
<1>1. IsWellFoundedOn(OpToRel(<, Nat), Nat)
  BY NatLessThanWellFounded
<1>2. PICK i \in S : \A j \in S : ~(<<j, i>> \in OpToRel(<, Nat))
  BY <1>1, WFMin
<1>3. ASSUME NEW j \in S PROVE i <= j
  <2>1. i \in Nat /\ j \in Nat
    OBVIOUS
  <2>2. ~(j < i)
    BY <1>2, <2>1 DEF OpToRel
  <2> QED
    BY <2>1, <2>2
<1> QED
  BY <1>3

(* OBEX_ClientSendBulkPut: the first block that is queued, if there is one.   *)
LEMMA SendBulkIs ==
    ASSUME NEW k \in Connection
    PROVE  /\ SendBulk(k) \in Connection /\ Same(k, SendBulk(k)) /\ SendBulk(k).abort = k.abort
           /\ Len(SendBulk(k).blocks) = Len(k.blocks)
           /\ IF NoneQueued(k)
              THEN /\ SendBulk(k).blocks = k.blocks /\ SendBulk(k).busy = k.busy
                   /\ SendBulk(k).writeMbuf = k.writeMbuf
              ELSE /\ SendBulk(k).busy /\ ~NoneSent(SendBulk(k))
                   /\ \/ SendBulk(k).writeMbuf = "BULK"
                      \/ SendBulk(k).writeMbuf = "LAST" /\ AllSent(SendBulk(k))
<1> DEFINE queued == {i \in DOMAIN k.blocks : k.blocks[i] = "queued"}
           next == CHOOSE i \in queued : \A j \in queued : i <= j
           isFinal == k.final /\ next = Len(k.blocks)
           timed == isFinal \/ k.srm # "enabled"
           packet == IF isFinal THEN "LAST" ELSE "BULK"
           timer == k.timeoutCB \/ timed
           l == [k EXCEPT !.blocks[next] = "sent", !.busy = TRUE, !.writeMbuf = packet,
                          !.timeoutCB = timer]
           m == [k EXCEPT !.timeoutCB = k.timeoutCB \/ k.srm # "enabled"]
<1>1. k.blocks \in Seq(Blocks) /\ DOMAIN k.blocks = 1 .. Len(k.blocks) /\ Len(k.blocks) \in Nat
  BY DEF Connection
<1>2. SendBulk(k) = IF k.blocks = <<>> THEN k ELSE IF queued = {} THEN m ELSE l
  BY DEF SendBulk
<1>3. queued = {} <=> NoneQueued(k)
  BY <1>1 DEF NoneQueued
<1>4. CASE k.blocks = <<>>
  BY <1>1, <1>2, <1>4 DEF NoneQueued, Same
<1>5. CASE k.blocks # <<>> /\ queued = {}
  <2>1. SendBulk(k) = m
    BY <1>2, <1>5
  <2>2. (k.timeoutCB \/ k.srm # "enabled") \in BOOLEAN
    OBVIOUS
  <2>3. m \in Connection /\ Same(k, m) /\ m.abort = k.abort /\ m.blocks = k.blocks /\ m.busy = k.busy
        /\ m.writeMbuf = k.writeMbuf
    BY <2>2 DEF Connection, Same
  <2> QED
    BY <1>1, <1>3, <1>5, <2>1, <2>3
<1>6. CASE k.blocks # <<>> /\ queued # {}
  <2>1. SendBulk(k) = l
    BY <1>2, <1>6
  <2>2. queued \in SUBSET Nat
    BY <1>1
  <2>3. next \in queued
    BY <1>6, <2>2, LeastIs
  <2>4. next \in 1 .. Len(k.blocks)
    BY <1>1, <2>3
  <2>5. packet \in {"BULK", "LAST"} /\ timer \in BOOLEAN
    BY DEF Connection
  <2>9. packet = "LAST" => k.final /\ next = Len(k.blocks)
    OBVIOUS
  <2>10. \A i \in 1 .. Len(k.blocks) : k.blocks[i] = "queued" => next <= i
    BY <1>1, <1>6, <2>2, LeastIs
  <2> HIDE DEF next, packet, timer
  <2> DEFINE blocks == [k.blocks EXCEPT ![next] = "sent"]
  <2>6. blocks \in Seq(Blocks) /\ Len(blocks) = Len(k.blocks) /\ blocks[next] = "sent"
    BY <1>1, <2>4 DEF Blocks
  <2>7. l = [k EXCEPT !.blocks = blocks, !.busy = TRUE, !.writeMbuf = packet, !.timeoutCB = timer]
    OBVIOUS
  <2> HIDE DEF blocks, l
  <2>8. /\ l \in Connection /\ Same(k, l) /\ l.abort = k.abort /\ l.blocks = blocks /\ l.busy
        /\ l.writeMbuf = packet
    BY <2>5, <2>6, <2>7 DEF Connection, Same, Requests
  <2>11. ~NoneSent(l)
    BY <2>4, <2>6, <2>8 DEF NoneSent
  <2>12. packet = "LAST" => AllSent(l)
    <3>1. SUFFICES ASSUME packet = "LAST", NEW i \in 1 .. Len(blocks) PROVE blocks[i] # "queued"
      BY <2>8, <2>9 DEF AllSent, NoneQueued, Same
    <3>2. CASE i = next
      BY <2>6, <3>2
    <3>3. CASE i # next
      <4>1. i \in Nat /\ i <= Len(k.blocks) /\ next = Len(k.blocks) /\ Len(k.blocks) \in Nat
        BY <1>1, <2>6, <2>9, <3>1
      <4>2. k.blocks[i] # "queued"
        BY <2>6, <2>10, <3>3, <4>1
      <4> QED
        BY <1>1, <2>6, <3>3, <4>2 DEF blocks
    <3> QED
      BY <3>2, <3>3
  <2> QED
    BY <1>3, <1>6, <2>1, <2>5, <2>6, <2>8, <2>11, <2>12
<1> QED
  BY <1>4, <1>5, <1>6

LEMMA SendBulkSound ==
    ASSUME NEW k \in Connection, k.state = "BULK_PUTTING", ~k.busy, k.writeMbuf = None,
           NEW in, NEW ow, NEW st, Sound(k, in, ow, st)
    PROVE  Sound(SendBulk(k), in, ow, st)
<1> DEFINE l == SendBulk(k)
<1>1. /\ Same(k, l) /\ l.abort = k.abort
      /\ IF NoneQueued(k)
         THEN l.blocks = k.blocks /\ l.busy = k.busy /\ l.writeMbuf = k.writeMbuf
         ELSE l.busy /\ ~NoneSent(l) /\ (l.writeMbuf = "BULK" \/ (l.writeMbuf = "LAST" /\ AllSent(l)))
  BY SendBulkIs
<1> HIDE DEF l
<1>2. CASE NoneQueued(k)
  <2>1. Still(k, l)
    BY <1>1, <1>2 DEF Still
  <2> QED
    BY <2>1, StillSound DEF l
<1>3. CASE ~NoneQueued(k)
  <2>1. /\ l.busy /\ ~NoneSent(l) /\ l.writeMbuf \in {"BULK", "LAST"}
        /\ l.writeMbuf = "LAST" => AllSent(l)
    BY <1>1, <1>3
  <2>2. Always(l, in, ow, st)
    BY <1>1, <2>1 DEF Sound, Always, Same
  <2>3. ASSUME Live(l) PROVE BulkPuts(l, in, ow, st)
    <3>1. BulkPuts(k, in, ow, st)
      BY <1>1, <2>3 DEF Sound, Protocol, Live, Same
    <3>2. ~AllSent(k)
      BY <1>3 DEF AllSent
    <3>3. CASE k.srm # "enabled"
      <4>1. ow = <<>> /\ in = <<>> /\ st = "no"
        BY <3>1, <3>3 DEF BulkPuts, Quiet
      <4>2. l.srm # "enabled" /\ One(l, in, ow, {"BULK", "LAST"})
        BY <1>1, <2>1, <3>3, <4>1 DEF One, Written, Same
      <4> QED
        BY <2>1, <4>1, <4>2, SetsAreDisjoint DEF BulkPuts
    <3>4. CASE k.srm = "enabled"
      BY <1>1, <2>1, <3>1, <3>2, <3>4, SetsAreDisjoint DEF BulkPuts, Same
    <3> QED
      BY <3>3, <3>4
  <2>4. l.state = "BULK_PUTTING"
    BY <1>1 DEF Same
  <2> QED
    BY <2>2, <2>3, <2>4 DEF Sound, Protocol, l
<1> QED
  BY <1>2, <1>3

(* ConfirmBulkPuts takes blocks from the front.                               *)
LEMMA ConfirmBulkPutsIs ==
    ASSUME NEW k \in Connection, NEW goesOn
    PROVE  LET l == ConfirmBulkPuts(k, goesOn)
           IN  /\ l \in Connection /\ Same(k, l) /\ l.abort = k.abort /\ l.busy = k.busy
               /\ l.writeMbuf = k.writeMbuf /\ l.abortingState = k.abortingState
               /\ Len(l.blocks) <= Len(k.blocks)
               /\ NoneSent(k) => NoneSent(l)
               /\ NoneQueued(k) => NoneQueued(l)
<1> DEFINE stays == {i \in DOMAIN k.blocks :
                       \/ k.blocks[i] # "confirmed"
                       \/ goesOn /\ k.final /\ i = Len(k.blocks)}
           first == CHOOSE i \in stays : \A j \in stays : i <= j
           left == IF stays = {} THEN <<>> ELSE SubSeq(k.blocks, first, Len(k.blocks))
           w == IF left = <<>> THEN None
                ELSE IF Len(left) < Len(k.blocks) THEN Other(k.waits) ELSE k.waits
           l == [k EXCEPT !.blocks = left, !.waits = w]
<1>1. k.blocks \in Seq(Blocks) /\ DOMAIN k.blocks = 1 .. Len(k.blocks) /\ Len(k.blocks) \in Nat
  BY DEF Connection
<1>2. ConfirmBulkPuts(k, goesOn) = l
  BY DEF ConfirmBulkPuts
<1>3. w \in {None, "odd", "even"}
  BY DEF Other, Connection
<1>4. /\ left \in Seq(Blocks) /\ Len(left) <= Len(k.blocks)
      /\ \A i \in 1 .. Len(left) : \E j \in 1 .. Len(k.blocks) : left[i] = k.blocks[j]
  <2>1. CASE stays = {}
    BY <1>1, <2>1
  <2>2. CASE stays # {}
    <3>1. stays \in SUBSET Nat
      BY <1>1
    <3>2. first \in stays
      BY <2>2, <3>1, LeastIs
    <3>3. first \in 1 .. Len(k.blocks)
      BY <1>1, <3>2
    <3>4. left = SubSeq(k.blocks, first, Len(k.blocks))
      BY <2>2
    <3> HIDE DEF first, left, stays
    <3>5. /\ left \in Seq(Blocks) /\ Len(left) = Len(k.blocks) - first + 1
          /\ \A i \in 1 .. Len(k.blocks) - first + 1 : left[i] = k.blocks[first + i - 1]
      BY <1>1, <3>3, <3>4, SubSeqProperties
    <3>6. \A i \in 1 .. Len(left) : first + i - 1 \in 1 .. Len(k.blocks)
      BY <1>1, <3>3, <3>5
    <3>7. Len(left) <= Len(k.blocks)
      BY <1>1, <3>3, <3>5
    <3>8. ASSUME NEW i \in 1 .. Len(left)
          PROVE  \E j \in 1 .. Len(k.blocks) : left[i] = k.blocks[j]
      <4>1. left[i] = k.blocks[first + i - 1]
        BY <3>5, <3>8
      <4> QED
        BY <3>6, <4>1
    <3> QED
      BY <3>5, <3>7, <3>8
  <2> QED
    BY <2>1, <2>2
<1> HIDE DEF stays, first, left, w
<1>5. /\ l \in Connection /\ Same(k, l) /\ l.abort = k.abort /\ l.busy = k.busy
      /\ l.writeMbuf = k.writeMbuf /\ l.abortingState = k.abortingState /\ l.blocks = left
  BY <1>3, <1>4 DEF Connection, Same
<1> HIDE DEF l
<1> QED
  BY <1>2, <1>4, <1>5 DEF NoneSent, NoneQueued

LEMMA ConfirmBulkPutsSound ==
    ASSUME NEW k \in Connection, k.state = "BULK_PUTTING", k.writeMbuf = None, NEW goesOn,
           NEW in, NEW ow, NEW st, Sound(k, in, ow, st)
    PROVE  Sound(ConfirmBulkPuts(k, goesOn), in, ow, st)
<1> DEFINE l == ConfirmBulkPuts(k, goesOn)
<1>1. /\ Same(k, l) /\ l.abort = k.abort /\ l.busy = k.busy /\ l.writeMbuf = k.writeMbuf
      /\ NoneSent(k) => NoneSent(l)
      /\ NoneQueued(k) => NoneQueued(l)
  BY ConfirmBulkPutsIs
<1> HIDE DEF l
<1>2. Always(l, in, ow, st)
  BY <1>1 DEF Sound, Always, Same
<1>3. ASSUME Live(l) PROVE BulkPuts(l, in, ow, st)
  <2>1. BulkPuts(k, in, ow, st)
    BY <1>1, <1>3 DEF Sound, Protocol, Live, Same
  <2>2. NoneSent(l) /\ (AllSent(k) => AllSent(l))
    BY <1>1, <2>1 DEF BulkPuts, AllSent, Same
  <2> QED
    BY <1>1, <2>1, <2>2, SetsAreDisjoint
       DEF BulkPuts, Same, Quiet, One, Owed, Written, Answered1
<1>4. l.state = "BULK_PUTTING"
  BY <1>1 DEF Same
<1> QED
  BY <1>2, <1>3, <1>4 DEF Sound, Protocol, l

(* The first block changes the state.                                        *)
LEMMA BulkIs ==
    ASSUME NEW k \in Connection, k.state \in {"PUTTING", "BULK_PUTTING"},
           k.state = "PUTTING" => ~k.busy,
           NEW in, NEW ow, NEW st, Sound(k, in, ow, st)
    PROVE  LET l == Bulk(k)
           IN  /\ l \in Connection /\ l.state = "BULK_PUTTING" /\ l.crossed = k.crossed
               /\ l.abort = k.abort /\ l.busy = k.busy /\ l.writeMbuf = k.writeMbuf
               /\ IF k.state = "PUTTING" THEN l.blocks = <<>> /\ ~l.final ELSE l = k
               /\ Sound(l, in, ow, st)
<1> DEFINE l == [k EXCEPT !.state = "BULK_PUTTING", !.blocks = <<>>, !.final = FALSE,
                          !.status = TRUE]
<1>1. Bulk(k) = IF k.state # "PUTTING" THEN k ELSE l
  BY DEF Bulk
<1>6. <<>> \in Seq(Blocks) /\ "BULK_PUTTING" \in States
  BY DEF States, Usable, InProgress
<1>2. /\ l \in Connection /\ l.state = "BULK_PUTTING" /\ l.crossed = k.crossed /\ l.life = k.life
      /\ l.disconnectingLowerLayer = k.disconnectingLowerLayer /\ l.srm = k.srm
      /\ l.abort = k.abort /\ l.busy = k.busy /\ l.writeMbuf = k.writeMbuf
      /\ l.blocks = <<>> /\ ~l.final
  BY <1>6 DEF Connection
<1> HIDE DEF l
<1>3. ASSUME k.state = "PUTTING" PROVE Sound(l, in, ow, st)
  <2>1. Always(l, in, ow, st)
    BY <1>2, <1>3 DEF Sound, Always
  <2>2. ASSUME Live(l) PROVE BulkPuts(l, in, ow, st)
    <3>1. Puts1(k, in, ow, st) /\ ~k.busy
      BY <1>2, <1>3, <2>2 DEF Sound, Protocol, Live
    <3>2. k.writeMbuf = None /\ ow = <<>> /\ in = <<>>
          /\ (IF k.srm = "enabled" THEN st = "on" ELSE st = "no")
      BY <3>1 DEF Puts1, Quiet
    <3>3. NoneSent(l) /\ l.writeMbuf # "LAST"
      BY <1>2, <3>2 DEF NoneSent, None
    <3> QED
      BY <1>2, <3>2, <3>3 DEF BulkPuts, Quiet
  <2> QED
    BY <1>2, <2>1, <2>2 DEF Sound, Protocol
<1>4. CASE k.state = "PUTTING"
  BY <1>1, <1>2, <1>3, <1>4
<1>5. CASE k.state = "BULK_PUTTING"
  BY <1>1, <1>5
<1> QED
  BY <1>4, <1>5

(* One more block, and the last one may be final.                             *)
LEMMA QueuedSound ==
    ASSUME NEW k \in Connection, k.state = "BULK_PUTTING", ~k.final, NEW final \in BOOLEAN,
           NEW in, NEW ow, NEW st, Sound(k, in, ow, st)
    PROVE  LET l == [k EXCEPT !.blocks = Append(@, "queued"), !.final = final]
           IN  /\ l \in Connection /\ Len(l.blocks) = Len(k.blocks) + 1
               /\ l.state = k.state /\ l.busy = k.busy /\ l.writeMbuf = k.writeMbuf
               /\ Sound(l, in, ow, st)
<1> DEFINE blocks == Append(k.blocks, "queued")
           l == [k EXCEPT !.blocks = blocks, !.final = final]
<1>1. /\ k.blocks \in Seq(Blocks) /\ blocks \in Seq(Blocks) /\ Len(blocks) = Len(k.blocks) + 1
      /\ \A i \in 1 .. Len(k.blocks) : blocks[i] = k.blocks[i]
      /\ blocks[Len(k.blocks) + 1] = "queued" /\ Len(k.blocks) \in Nat
  BY AppendProperties DEF Connection, Blocks
<1> HIDE DEF blocks
<1>2. /\ l \in Connection /\ l.state = k.state /\ l.crossed = k.crossed /\ l.life = k.life
      /\ l.disconnectingLowerLayer = k.disconnectingLowerLayer /\ l.srm = k.srm
      /\ l.abort = k.abort /\ l.busy = k.busy /\ l.writeMbuf = k.writeMbuf
      /\ l.blocks = blocks
  BY <1>1 DEF Connection
<1> HIDE DEF l
<1>3. Always(l, in, ow, st)
  BY <1>2 DEF Sound, Always, Quiet
<1>4. ASSUME Live(l) PROVE BulkPuts(l, in, ow, st)
  <2>1. BulkPuts(k, in, ow, st)
    BY <1>2, <1>4 DEF Sound, Protocol, Live
  <2>2. NoneSent(l) <=> NoneSent(k)
    <3>1. ASSUME NoneSent(k), NEW i \in 1 .. Len(blocks) PROVE blocks[i] # "sent"
      BY <1>1, <3>1 DEF NoneSent
    <3>2. ASSUME NoneSent(l), NEW i \in 1 .. Len(k.blocks) PROVE k.blocks[i] # "sent"
      BY <1>1, <1>2, <3>2 DEF NoneSent
    <3> QED
      BY <1>2, <3>1, <3>2 DEF NoneSent
  <2>3. ~AllSent(k)
    BY DEF AllSent
  <2> QED
    BY <1>2, <2>1, <2>2, <2>3 DEF BulkPuts, Quiet, One, Written, Owed, Answered1
<1> QED
  BY <1>1, <1>2, <1>3, <1>4 DEF Sound, Protocol, l, blocks

LEMMA BulkPutSound == ASSUME IInv, OI_OBEXCLI_BulkPut PROVE IInv'
<1>0. /\ c \in Connection /\ Len(c.blocks) <= MaxBlocks /\ Sound(c, inbound, owed, stream)
      /\ MaxBlocks \in Nat \ {0}
  BY ObexAssumption DEF IInv, Typed
<1>1. /\ c.state \in {"PUTTING", "BULK_PUTTING"} /\ ~c.crossed /\ (c.state = "PUTTING" => ~c.busy)
      /\ c.state = "BULK_PUTTING" => ~c.final /\ Len(c.blocks) < MaxBlocks
      /\ UNCHANGED <<inbound, owed, stream>>
  BY DEF OI_OBEXCLI_BulkPut, Calls, BulkPutAllowed
<1> DEFINE k == Bulk(c)
<1>2. PICK final \in BOOLEAN :
        LET put == [k EXCEPT !.blocks = Append(@, "queued"), !.final = final, !.waits = Waiting(@)]
        IN  c' = IF c.busy THEN put ELSE SendBulk(put)
  BY DEF OI_OBEXCLI_BulkPut
<1> DEFINE queued == [k EXCEPT !.blocks = Append(@, "queued"), !.final = final]
           put == [queued EXCEPT !.waits = Waiting(@)]
<1>3. c' = IF c.busy THEN put ELSE SendBulk(put)
  BY <1>2
<1>4. /\ k \in Connection /\ k.state = "BULK_PUTTING" /\ k.busy = c.busy /\ k.crossed = c.crossed
      /\ k.writeMbuf = c.writeMbuf
      /\ IF c.state = "PUTTING" THEN k.blocks = <<>> /\ ~k.final ELSE k = c
      /\ Sound(k, inbound, owed, stream)
  BY <1>0, <1>1, BulkIs
<1> HIDE DEF k
<1>5. ~k.final /\ Len(k.blocks) + 1 <= MaxBlocks
  <2>1. Len(c.blocks) \in Nat
    BY <1>0 DEF Connection
  <2> QED
    BY <1>0, <1>1, <1>4, <2>1
<1>6. /\ queued \in Connection /\ Len(queued.blocks) = Len(k.blocks) + 1
      /\ queued.state = k.state /\ queued.busy = k.busy /\ queued.writeMbuf = k.writeMbuf
      /\ Sound(queued, inbound, owed, stream)
  BY <1>4, <1>5, QueuedSound
<1> HIDE DEF queued
<1>7. put \in Connection /\ Still(queued, put)
  BY <1>6, WaitsIs
<1> HIDE DEF put
<1>8. /\ put.state = "BULK_PUTTING" /\ put.busy = c.busy /\ put.writeMbuf = c.writeMbuf
      /\ Len(put.blocks) <= MaxBlocks /\ Sound(put, inbound, owed, stream)
  BY <1>4, <1>5, <1>6, <1>7, StillSound DEF Still, Same
<1>9. CASE c.busy
  BY <1>1, <1>3, <1>7, <1>8, <1>9, OnlyConnection
<1>10. CASE ~c.busy
  <2>1. c.writeMbuf = None
    BY <1>0, <1>1, <1>10 DEF Sound, Always
  <2>2. Sound(SendBulk(put), inbound, owed, stream)
    BY <1>7, <1>8, <1>10, <2>1, SendBulkSound
  <2>3. SendBulk(put) \in Connection /\ Len(SendBulk(put).blocks) <= MaxBlocks
    BY <1>7, <1>8, SendBulkIs
  <2> QED
    BY <1>1, <1>3, <1>10, <2>2, <2>3, OnlyConnection
<1> QED
  BY <1>9, <1>10

LEMMA BulkPutTerminatesSound == ASSUME IInv, BulkPutTerminates PROVE IInv'
<1>0. /\ c \in Connection /\ Len(c.blocks) <= MaxBlocks /\ Sound(c, inbound, owed, stream)
      /\ inbound \in Seq(Packets) /\ owed \in Seq(Requests) /\ MaxBlocks \in Nat
  BY ObexAssumption DEF IInv, Typed
<1>1. /\ c.state \in {"PUTTING", "BULK_PUTTING"} /\ (c.state = "PUTTING" => ~c.busy)
      /\ UNCHANGED <<inbound, owed, stream>>
  BY DEF BulkPutTerminates, Calls, BulkPutAllowed
<1> DEFINE k == Bulk(c)
           pending == [k EXCEPT !.abort = "ABORT_PENDING", !.status = FALSE]
           put == [pending EXCEPT !.waits = Waiting(@)]
<1>2. c' = IF CanConfirmAllBulkPuts(put) THEN SendAbort(put) ELSE put
  BY DEF BulkPutTerminates
<1>3. /\ k \in Connection /\ k.state = "BULK_PUTTING" /\ Len(k.blocks) <= MaxBlocks
      /\ Sound(k, inbound, owed, stream)
  BY <1>0, <1>1, BulkIs
<1> HIDE DEF k
<1>4. /\ pending \in Connection /\ Same(k, pending) /\ pending.busy = k.busy
      /\ pending.writeMbuf = k.writeMbuf /\ pending.blocks = k.blocks
      /\ pending.abort = "ABORT_PENDING"
  BY <1>3 DEF Connection, Same
<1> HIDE DEF pending
<1>5. Sound(pending, inbound, owed, stream)
  BY <1>3, <1>4, PendingSound
<1>6. put \in Connection /\ Still(pending, put)
  BY <1>4, WaitsIs
<1> HIDE DEF put
<1>7. /\ Sound(put, inbound, owed, stream) /\ put.state = "BULK_PUTTING"
      /\ Len(put.blocks) <= MaxBlocks
  BY <1>3, <1>4, <1>5, <1>6, StillSound DEF Still, Same
<1>8. /\ SendAbort(put) \in Connection /\ SendAbort(put).blocks = put.blocks
      /\ Sound(SendAbort(put), inbound, owed, stream)
  BY <1>0, <1>6, <1>7, AbortSound
<1>9. c' \in {put, SendAbort(put)}
  BY <1>2
<1> QED
  BY <1>1, <1>6, <1>7, <1>8, <1>9, OnlyConnection

-----------------------------------------------------------------------------
(* The socket thread writes.                                                 *)

LEMMA ConnectCfmSound == ASSUME IInv, LowerTransportConnectCfm PROVE IInv'
<1>0. c \in Connection /\ Len(c.blocks) <= MaxBlocks /\ Sound(c, inbound, owed, stream)
  BY DEF IInv, Typed
<1> DEFINE up == [c EXCEPT !.state = "LOWER_LAYER_CONNECTED"]
           asked == [Answered(up) EXCEPT !.challenged = TRUE]
<1>1. c.life = "alive" /\ c.state = "LOWER_LAYER_CONNECTING"
  BY DEF LowerTransportConnectCfm
<1>2. \/ c' \in {SendPacket(up, "CONNECT"), asked} /\ UNCHANGED <<inbound, owed, stream>>
      \/ FreeConnection(c)
  BY DEF LowerTransportConnectCfm
<1>3. Quiet(c, inbound, owed) /\ stream = "no" /\ c.abort = "NO_ABORT" /\ ~c.crossed
  BY <1>0, <1>1 DEF Sound, Always
<1>4. /\ up \in Connection /\ up.state = "LOWER_LAYER_CONNECTED" /\ up.life = c.life
      /\ up.writeMbuf = c.writeMbuf /\ up.abort = c.abort /\ up.blocks = c.blocks
      /\ up.busy = c.busy /\ up.crossed = c.crossed
  BY <1>0 DEF Connection, States
<1>5. /\ asked \in Connection /\ asked.state = up.state /\ asked.life = up.life
      /\ asked.writeMbuf = up.writeMbuf /\ asked.abort = up.abort /\ asked.blocks = up.blocks
      /\ ~asked.busy /\ asked.crossed = up.crossed
  BY <1>4 DEF Connection, Answered
<1> HIDE DEF up, asked
<1>6. CASE c' = SendPacket(up, "CONNECT") /\ UNCHANGED <<inbound, owed, stream>>
  <2>1. Always(up, inbound, owed, stream) /\ "CONNECT" \in Requests
    BY <1>1, <1>3, <1>4 DEF Always, Quiet, Requests
  <2>2. Quiet(up, inbound, owed) /\ MayFollow(up, "CONNECT", stream)
    BY <1>3, <1>4 DEF Quiet, MayFollow
  <2>3. c' \in Connection /\ c'.blocks = up.blocks /\ Sound(c', inbound, owed, stream)
    BY <1>4, <1>6, <2>1, <2>2, SendSound
  <2> QED
    BY <1>0, <1>4, <1>6, <2>3, OnlyConnection
<1>7. CASE c' = asked /\ UNCHANGED <<inbound, owed, stream>>
  <2>1. Sound(asked, inbound, owed, stream)
    BY <1>1, <1>3, <1>4, <1>5 DEF Sound, Always, Protocol, Connects, Quiet
  <2> QED
    BY <1>0, <1>4, <1>5, <1>7, <2>1, OnlyConnection
<1>8. CASE FreeConnection(c)
  BY <1>8, FreeSound
<1> QED
  BY <1>2, <1>6, <1>7, <1>8

LEMMA ServerReadsIs ==
    ASSUME Typed, NEW packet \in Requests, ServerReads(packet)
    PROVE  /\ owed' \in Seq(Requests) /\ stream' \in {"no", "on", "bulk", "over"}
           /\ \/ owed' = owed \/ owed' = Append(owed, packet)
              \/ packet = "ABORT" /\ owed' = <<"ABORT">>
<1> DEFINE ofBulk == packet \in {"BULK", "LAST"}
           streaming == stream \in {"on", "bulk"}
<1>1. owed' = IF (streaming /\ packet \in {"PUT", "BULK"}) \/ (stream = "over" /\ ofBulk) THEN owed
              ELSE IF streaming /\ packet = "ABORT" /\ owed = <<"GET">> THEN <<"ABORT">>
              ELSE Append(owed, packet)
  BY DEF ServerReads
<1>2. stream' = IF packet = "ABORT" \/ (stream = "over" /\ ~ofBulk) THEN "no"
                ELSE IF stream = "on" /\ packet = "BULK" THEN "bulk" ELSE stream
  BY DEF ServerReads
<1>3. owed \in Seq(Requests) /\ stream \in {"no", "on", "bulk", "over"}
  BY DEF Typed
<1>4. <<"ABORT">> \in Seq(Requests)
  BY DEF Requests
<1>5. Append(owed, packet) \in Seq(Requests)
  BY <1>3, AppendProperties
<1> QED
  BY <1>1, <1>2, <1>3, <1>4, <1>5

(* A packet of other operations than a bulk PUT has been written.             *)
LEMMA WrittenSound ==
    ASSUME IInv, c.writeMbuf # None, c.state # "BULK_PUTTING",
           NEW k \in Connection, k = [c EXCEPT !.writeMbuf = None], ServerReads(c.writeMbuf)
    PROVE  Sound(k, inbound, owed', stream')
<1>0. c \in Connection /\ Sound(c, inbound, owed, stream) /\ Typed
  BY DEF IInv, Typed
<1>1. /\ Same(c, k) /\ k.abort = c.abort /\ k.busy = c.busy /\ k.writeMbuf = None
      /\ k.blocks = c.blocks
  BY <1>0 DEF Connection, Same
<1>2. k.state = c.state /\ k.life = c.life /\ k.srm = c.srm /\ (Live(k) => Live(c))
  BY <1>1 DEF Same, Live
<1>3. Always(k, inbound, owed', stream')
  BY <1>0, <1>1, <1>2 DEF Sound, Always, Quiet
<1>4. ASSUME Live(k) PROVE Protocol(k, inbound, owed', stream')
  <2> DEFINE packet == c.writeMbuf
  <2>1. Protocol(c, inbound, owed, stream)
    BY <1>0, <1>2, <1>4 DEF Sound
  <2>2. owed' = IF \/ stream \in {"on", "bulk"} /\ packet \in {"PUT", "BULK"}
                   \/ stream = "over" /\ packet \in {"BULK", "LAST"}
                THEN owed
                ELSE IF stream \in {"on", "bulk"} /\ packet = "ABORT" /\ owed = <<"GET">> THEN <<"ABORT">>
                ELSE Append(owed, packet)
    BY DEF ServerReads
  <2>3. stream' = IF packet = "ABORT" \/ (stream = "over" /\ packet \notin {"BULK", "LAST"}) THEN "no"
                  ELSE IF stream = "on" /\ packet = "BULK" THEN "bulk" ELSE stream
    BY DEF ServerReads
  <2>4. ASSUME NEW requests, Written(c, inbound, owed, requests), owed' = Append(owed, packet)
        PROVE  Owed(k, inbound, owed', requests)
    BY <1>1, <2>4 DEF Written, Owed
  <2>5. ASSUME NEW requests, One(c, inbound, owed, requests)
        PROVE  Written(c, inbound, owed, requests)
    BY <2>5 DEF One, Owed, Answered1
  <2>6. ~Quiet(c, inbound, owed)
    BY DEF Quiet
  <2> HIDE DEF packet
  <2>7. CASE c.state = "LOWER_LAYER_CONNECTED"
    <3>1. /\ stream = "no" /\ c.busy /\ c.abort = "NO_ABORT"
          /\ Written(c, inbound, owed, {"CONNECT"})
      BY <2>1, <2>5, <2>6, <2>7 DEF Protocol, Connects
    <3>2. packet = "CONNECT"
      BY <3>1 DEF Written, packet
    <3>3. owed' = Append(owed, packet) /\ stream' = "no"
      BY <2>2, <2>3, <3>1, <3>2
    <3> QED
      BY <1>1, <1>2, <2>4, <2>7, <3>1, <3>3 DEF Protocol, Connects, One
  <2>8. CASE c.state = "CONNECTED"
    BY <2>1, <2>6, <2>8 DEF Protocol, Idle
  <2>9. CASE c.state \in {"SETTING_PATH", "DO_ACTION"}
    <3>1. /\ stream \in {"no", "over"} /\ c.abort = "NO_ABORT"
          /\ Written(c, inbound, owed, {c.state})
      BY <2>1, <2>5, <2>9 DEF Protocol, Simple, Fresh
    <3>2. packet = c.state
      BY <3>1 DEF Written, packet
    <3>3. owed' = Append(owed, packet) /\ stream' = "no"
      BY <2>2, <2>3, <2>9, <3>1, <3>2
    <3> QED
      BY <1>1, <1>2, <2>4, <2>9, <3>1, <3>3 DEF Protocol, Simple, One, Fresh
  <2>10. CASE c.state = "GETTING"
    <3>1. /\ c.srm # "enabled" /\ c.busy /\ stream \in {"no", "over"}
          /\ Written(c, inbound, owed, {"GET"})
      BY <2>1, <2>5, <2>6, <2>10 DEF Protocol, Gets, Fresh
    <3>2. packet = "GET"
      BY <3>1 DEF Written, packet
    <3>3. owed' = Append(owed, packet) /\ stream' = "no" /\ inbound = <<>>
      BY <2>2, <2>3, <3>1, <3>2 DEF Written
    <3> QED
      BY <1>1, <1>2, <2>4, <2>10, <3>1, <3>3 DEF Protocol, Gets, One, Fresh
  <2>11. CASE c.state = "PUTTING"
    <3>1. /\ c.busy /\ Written(c, inbound, owed, {"PUT", "FINAL"})
          /\ IF c.srm = "enabled" THEN stream = "on" ELSE stream \in {"no", "over"}
      BY <2>1, <2>5, <2>6, <2>11 DEF Protocol, Puts1, Owed, Answered1
    <3>2. packet \in {"PUT", "FINAL"} /\ owed = <<>> /\ inbound = <<>>
      BY <3>1 DEF Written, packet
    <3>3. CASE c.srm = "enabled" /\ packet = "PUT"
      <4>1. owed' = owed /\ stream' = "on"
        BY <2>2, <2>3, <3>1, <3>3
      <4> QED
        BY <1>1, <1>2, <2>11, <3>2, <3>3, <4>1 DEF Protocol, Puts1, Quiet
    <3>4. CASE c.srm = "enabled" /\ packet = "FINAL"
      <4>1. owed' = Append(owed, packet) /\ stream' = "on" /\ Written(c, inbound, owed, {"FINAL"})
        BY <2>2, <2>3, <3>1, <3>2, <3>4 DEF Written, packet
      <4> QED
        BY <1>1, <1>2, <2>4, <2>11, <3>1, <3>4, <4>1 DEF Protocol, Puts1
    <3>5. CASE c.srm # "enabled"
      <4>1. owed' = Append(owed, packet) /\ stream' = "no"
        BY <2>2, <2>3, <3>1, <3>2, <3>5
      <4> QED
        BY <1>1, <1>2, <2>4, <2>11, <3>1, <3>5, <4>1 DEF Protocol, Puts1
    <3> QED
      BY <3>2, <3>3, <3>4, <3>5
  <2>12. CASE c.state = "ABORTING"
    <3>1. packet = "ABORT" /\ LeftOwed(owed, Len(owed)) /\ LeftUnread(inbound, Len(inbound))
      BY <2>1, <2>12 DEF Protocol, Aborts, packet
    <3>2. owed' = <<"ABORT">> \/ owed' = Append(owed, "ABORT")
      BY <2>2, <3>1
    <3>3. owed' # <<>> /\ owed'[Len(owed')] = "ABORT" /\ LeftOwed(owed', Len(owed') - 1)
      <4>1. CASE owed' = <<"ABORT">>
        BY <4>1 DEF LeftOwed
      <4>2. CASE owed' = Append(owed, "ABORT")
        <5>1. /\ owed' # <<>> /\ Len(owed') = Len(owed) + 1 /\ Len(owed) \in Nat
              /\ \A i \in 1 .. Len(owed) : owed'[i] = owed[i]
              /\ owed'[Len(owed) + 1] = "ABORT"
          <6>1. owed \in Seq(Requests) /\ "ABORT" \in Requests
            BY <1>0 DEF Typed, Requests
          <6> QED
            BY <4>2, <6>1, AppendProperties
        <5>2. Len(owed') - 1 = Len(owed)
          BY <5>1
        <5> QED
          BY <3>1, <5>1, <5>2 DEF LeftOwed
      <4> QED
        BY <3>2, <4>1, <4>2
    <3> QED
      BY <1>1, <1>2, <2>12, <3>1, <3>3 DEF Protocol, Aborts
  <2> QED
    BY <1>2, <2>7, <2>8, <2>9, <2>10, <2>11, <2>12 DEF Protocol
<1> QED
  BY <1>3, <1>4 DEF Sound

(* OBEX_ClientBulkPutWriteCfm: what was sent is confirmed.                     *)
SentOf(k, ok) ==
    [k EXCEPT !.blocks = [i \in DOMAIN @ |-> IF @[i] = "sent" THEN "confirmed" ELSE @[i]],
              !.status = @ /\ ok /\ k.abort = "NO_ABORT"]

LEMMA SentIs ==
    ASSUME NEW k \in Connection, NEW ok \in BOOLEAN
    PROVE  LET l == SentOf(k, ok)
           IN  /\ l \in Connection /\ Same(k, l) /\ l.abort = k.abort /\ l.busy = k.busy
               /\ l.writeMbuf = k.writeMbuf /\ Len(l.blocks) = Len(k.blocks)
               /\ NoneSent(l) /\ (NoneQueued(k) => NoneQueued(l)) /\ (~ok => ~l.status)
<1> DEFINE blocks == [i \in DOMAIN k.blocks |-> IF k.blocks[i] = "sent" THEN "confirmed" ELSE k.blocks[i]]
           status == k.status /\ ok /\ k.abort = "NO_ABORT"
           l == [k EXCEPT !.blocks = blocks, !.status = status]
<1>1. k.blocks \in Seq(Blocks) /\ DOMAIN k.blocks = 1 .. Len(k.blocks) /\ Len(k.blocks) \in Nat
  BY DEF Connection
<1>2. \A i \in 1 .. Len(k.blocks) : k.blocks[i] \in Blocks
  BY <1>1
<1>3. /\ blocks \in [1 .. Len(k.blocks) -> Blocks]
      /\ \A i \in 1 .. Len(k.blocks) : /\ blocks[i] # "sent"
                                       /\ blocks[i] = "queued" => k.blocks[i] = "queued"
  BY <1>1, <1>2 DEF Blocks
<1>4. blocks \in Seq(Blocks) /\ Len(blocks) = Len(k.blocks)
  BY <1>1, <1>3
<1>5. status \in BOOLEAN /\ (~ok => ~status)
  OBVIOUS
<1>6. SentOf(k, ok) = l
  BY DEF SentOf
<1> HIDE DEF blocks, status
<1>7. /\ l \in Connection /\ Same(k, l) /\ l.abort = k.abort /\ l.busy = k.busy
      /\ l.writeMbuf = k.writeMbuf /\ l.blocks = blocks /\ l.status = status
  BY <1>4, <1>5 DEF Connection, Same
<1> HIDE DEF l
<1> QED
  BY <1>3, <1>4, <1>5, <1>6, <1>7 DEF NoneSent, NoneQueued

FreeOf(k) == [k EXCEPT !.busy = FALSE]

LEMMA FreeIs ==
    ASSUME NEW k \in Connection
    PROVE  /\ FreeOf(k) \in Connection /\ Same(k, FreeOf(k)) /\ FreeOf(k).abort = k.abort
           /\ ~FreeOf(k).busy /\ FreeOf(k).writeMbuf = k.writeMbuf /\ FreeOf(k).blocks = k.blocks
  BY DEF FreeOf, Connection, Same

LEMMA BulkPutWriteCfmIs ==
    ASSUME NEW k, NEW ok
    PROVE  BulkPutWriteCfm(k, ok) =
             IF ~SentOf(k, ok).status
             THEN IF k.abort # "NO_ABORT" THEN SendAbort(SentOf(k, ok)) ELSE FatalObexError(SentOf(k, ok))
             ELSE IF k.srm # "enabled" THEN SentOf(k, ok)
             ELSE SendBulk(FreeOf(ConfirmBulkPuts(SentOf(k, ok), TRUE)))
  BY DEF BulkPutWriteCfm, SentOf, FreeOf

(* A packet of a bulk PUT has been written.                                   *)
LEMMA BulkWrittenSound ==
    ASSUME IInv, c.writeMbuf # None, c.state = "BULK_PUTTING", ServerReads(c.writeMbuf),
           NEW k \in Connection, Same(c, k), k.abort = c.abort, k.busy = c.busy, k.writeMbuf = None,
           NoneSent(k), NoneQueued(c) => NoneQueued(k)
    PROVE  Sound(k, inbound, owed', stream')
<1>0. c \in Connection /\ Sound(c, inbound, owed, stream) /\ Typed
  BY DEF IInv, Typed
<1>1. Always(k, inbound, owed', stream')
  BY <1>0 DEF Sound, Always, Same
<1>2. ASSUME Live(k) PROVE BulkPuts(k, inbound, owed', stream')
  <2> DEFINE packet == c.writeMbuf
  <2>1. BulkPuts(c, inbound, owed, stream)
    BY <1>0, <1>2 DEF Sound, Protocol, Live, Same
  <2>2. owed' = IF \/ stream \in {"on", "bulk"} /\ packet \in {"PUT", "BULK"}
                   \/ stream = "over" /\ packet \in {"BULK", "LAST"}
                THEN owed
                ELSE IF stream \in {"on", "bulk"} /\ packet = "ABORT" /\ owed = <<"GET">> THEN <<"ABORT">>
                ELSE Append(owed, packet)
    BY DEF ServerReads
  <2>3. stream' = IF packet = "ABORT" \/ (stream = "over" /\ packet \notin {"BULK", "LAST"}) THEN "no"
                  ELSE IF stream = "on" /\ packet = "BULK" THEN "bulk" ELSE stream
    BY DEF ServerReads
  <2>4. packet \in {"BULK", "LAST"} /\ (packet = "LAST" => AllSent(c)) /\ (AllSent(c) => AllSent(k))
    BY <2>1 DEF BulkPuts, AllSent, Same
  <2>5. k.srm = c.srm /\ (NoneSent(k) <=> k.writeMbuf = None) /\ k.writeMbuf \notin {"BULK", "LAST"}
    BY SetsAreDisjoint DEF Same, None
  <2>6. ~Quiet(c, inbound, owed) /\ ~Owed(c, inbound, owed, {"LAST"})
        /\ ~Answered1(c, inbound, owed, {"LAST"})
    BY DEF Quiet, Owed, Answered1
  <2>7. ASSUME NEW requests, packet \in requests, inbound = <<>>, owed = <<>>, owed' = Append(owed, packet)
        PROVE  Owed(k, inbound, owed', requests)
    BY <2>7 DEF Owed
  <2> HIDE DEF packet
  <2>8. CASE c.srm # "enabled"
    <3>1. stream = "no" /\ c.busy /\ One(c, inbound, owed, {"BULK", "LAST"})
      BY <2>1, <2>6, <2>8 DEF BulkPuts
    <3>2. owed = <<>> /\ inbound = <<>>
      BY <3>1 DEF One, Written, Owed, Answered1
    <3>3. owed' = Append(owed, packet) /\ stream' = "no"
      BY <2>2, <2>3, <2>4, <3>1
    <3>4. One(k, inbound, owed', {"BULK", "LAST"})
      BY <2>4, <2>7, <3>2, <3>3 DEF One
    <3> QED
      BY <2>5, <2>8, <3>1, <3>3, <3>4 DEF BulkPuts
  <2>9. CASE c.srm = "enabled" /\ stream = "over"
    <3>1. owed' = owed /\ stream' = stream
      BY <2>2, <2>3, <2>4, <2>9
    <3> QED
      BY <2>1, <2>4, <2>5, <2>6, <2>9, <3>1 DEF BulkPuts
  <2>10. CASE c.srm = "enabled" /\ stream # "over"
    <3>1. stream \in {"on", "bulk"} /\ inbound = <<>> /\ owed = <<>>
      BY <2>1, <2>6, <2>10 DEF BulkPuts
    <3>2. CASE packet = "BULK"
      <4>1. owed' = owed /\ stream' = "bulk"
        BY <2>2, <2>3, <3>1, <3>2
      <4> QED
        BY <2>5, <2>10, <3>1, <4>1 DEF BulkPuts
    <3>3. CASE packet = "LAST"
      <4>1. owed' = Append(owed, packet) /\ stream' = stream
        BY <2>2, <2>3, <3>1, <3>3
      <4>2. Owed(k, inbound, owed', {"LAST"})
        BY <2>7, <3>1, <3>3, <4>1
      <4> QED
        BY <2>4, <2>5, <2>10, <3>1, <3>3, <4>1, <4>2 DEF BulkPuts
    <3> QED
      BY <2>4, <3>2, <3>3
  <2> QED
    BY <2>8, <2>9, <2>10
<1> QED
  BY <1>1, <1>2 DEF Sound, Protocol, Same

(* What OBEX_ClientBulkPutWriteCfm makes of it, in ow and st.                  *)
LEMMA BulkCfmSound ==
    ASSUME NEW k \in Connection, k.state = "BULK_PUTTING", k.writeMbuf = None, NEW ok \in BOOLEAN,
           NEW in \in Seq(Packets), NEW ow \in Seq(Requests), NEW st,
           Always(SentOf(k, ok), in, ow, st),
           ok => Sound(SentOf(k, ok), in, ow, st),
           Live(k) => LeftOwed(ow, Len(ow)) /\ LeftUnread(in, Len(in))
    PROVE  LET l == BulkPutWriteCfm(k, ok)
           IN  /\ l \in Connection /\ Len(l.blocks) <= Len(k.blocks)
               /\ Sound(l, in, ow, st)
<1> DEFINE s == SentOf(k, ok)
           confirmed == ConfirmBulkPuts(s, TRUE)
           free == FreeOf(confirmed)
<1>1. /\ s \in Connection /\ Same(k, s) /\ s.abort = k.abort /\ s.busy = k.busy
      /\ s.writeMbuf = None /\ Len(s.blocks) = Len(k.blocks) /\ (~ok => ~s.status)
  BY SentIs
<1>2. BulkPutWriteCfm(k, ok) =
        IF ~s.status THEN IF k.abort # "NO_ABORT" THEN SendAbort(s) ELSE FatalObexError(s)
        ELSE IF k.srm # "enabled" THEN s ELSE SendBulk(free)
  BY BulkPutWriteCfmIs
<1>3. s.state = "BULK_PUTTING" /\ s.srm = k.srm /\ (Live(s) <=> Live(k)) /\ Always(s, in, ow, st)
      /\ (ok => Sound(s, in, ow, st)) /\ Len(s.blocks) \in Nat
  BY <1>1 DEF Same, Live, Connection
<1> HIDE DEF s
<1>4. CASE ~s.status /\ k.abort # "NO_ABORT"
  <2>1. SendAbort(s) \in Connection /\ SendAbort(s).blocks = s.blocks /\ Sound(SendAbort(s), in, ow, st)
    BY <1>1, <1>3, SendAbortSound DEF InProgress
  <2> QED
    BY <1>1, <1>2, <1>3, <1>4, <2>1
<1>5. CASE ~s.status /\ k.abort = "NO_ABORT"
  <2>1. /\ FatalObexError(s) \in Connection /\ FatalObexError(s).blocks = s.blocks
        /\ Sound(FatalObexError(s), in, ow, st)
    BY <1>1, <1>3, FatalSound
  <2> QED
    BY <1>1, <1>2, <1>3, <1>5, <2>1
<1>6. CASE s.status /\ k.srm # "enabled"
  BY <1>1, <1>2, <1>3, <1>6
<1>7. CASE s.status /\ k.srm = "enabled"
  <2>1. /\ confirmed \in Connection /\ Same(s, confirmed) /\ confirmed.abort = s.abort
        /\ confirmed.writeMbuf = s.writeMbuf /\ Len(confirmed.blocks) <= Len(s.blocks)
    BY <1>1, ConfirmBulkPutsIs
  <2>2. Sound(confirmed, in, ow, st)
    BY <1>1, <1>3, <1>7, ConfirmBulkPutsSound
  <2> HIDE DEF confirmed
  <2>3. /\ free \in Connection /\ Same(confirmed, free) /\ free.abort = confirmed.abort /\ ~free.busy
        /\ free.writeMbuf = confirmed.writeMbuf /\ free.blocks = confirmed.blocks
    BY <2>1, FreeIs
  <2> HIDE DEF free
  <2>4. free.state = "BULK_PUTTING" /\ free.srm = "enabled" /\ free.writeMbuf = None
    BY <1>1, <1>3, <1>7, <2>1, <2>3 DEF Same
  <2>5. Always(free, in, ow, st)
    BY <2>2, <2>3, <2>4 DEF Sound, Always, Same, Quiet
  <2>6. ASSUME Live(free) PROVE BulkPuts(free, in, ow, st)
    <3>1. BulkPuts(confirmed, in, ow, st) /\ confirmed.srm = "enabled"
      BY <2>2, <2>3, <2>4, <2>6 DEF Sound, Protocol, Live, Same
    <3>2. (NoneSent(free) <=> NoneSent(confirmed)) /\ (AllSent(free) <=> AllSent(confirmed))
      BY <2>3 DEF NoneSent, AllSent, NoneQueued, Same
    <3> QED
      BY <2>3, <2>4, <3>1, <3>2 DEF BulkPuts, Owed, Answered1
  <2>7. Sound(free, in, ow, st)
    BY <2>4, <2>5, <2>6 DEF Sound, Protocol
  <2>8. Sound(SendBulk(free), in, ow, st)
    BY <2>3, <2>4, <2>7, SendBulkSound
  <2>9. SendBulk(free) \in Connection /\ Len(SendBulk(free).blocks) = Len(free.blocks)
    BY <2>3, SendBulkIs
  <2>10. BulkPutWriteCfm(k, ok) = SendBulk(free)
    BY <1>2, <1>7
  <2> QED
    BY <1>1, <2>1, <2>3, <2>8, <2>9, <2>10
<1> QED
  BY <1>4, <1>5, <1>6, <1>7

LEMMA SendMbufSound == ASSUME IInv, LowerTransportSendMbuf PROVE IInv'
<1> DEFINE k == [c EXCEPT !.writeMbuf = None]
<1>0. /\ c \in Connection /\ Len(c.blocks) <= MaxBlocks /\ Sound(c, inbound, owed, stream) /\ Typed
      /\ inbound \in Seq(Packets) /\ owed \in Seq(Requests)
  BY DEF IInv, Typed
<1>1. c.writeMbuf # None /\ c.writeMbuf \in Requests /\ inbound' = inbound
  BY <1>0 DEF LowerTransportSendMbuf, Connection
<1>2. \/ c' = LowerWriteCfm(k, TRUE) /\ ServerReads(c.writeMbuf)
      \/ c' = LowerWriteCfm(k, FALSE) /\ UNCHANGED <<owed, stream>>
  BY DEF LowerTransportSendMbuf
<1>3. /\ k \in Connection /\ Same(c, k) /\ k.abort = c.abort /\ k.busy = c.busy
      /\ k.writeMbuf = None /\ k.blocks = c.blocks /\ k = [c EXCEPT !.writeMbuf = None]
  BY <1>0 DEF Connection, Same
<1> HIDE DEF k
<1>4. k.state = c.state /\ (Live(k) <=> Live(c)) /\ Always(k, inbound, owed, stream)
  BY <1>0, <1>3 DEF Same, Live, Sound, Always, Quiet
<1>5. ASSUME c.state = "BULK_PUTTING", Live(c)
      PROVE  LeftOwed(owed, Len(owed)) /\ LeftUnread(inbound, Len(inbound))
  BY <1>0, <1>5, LeftOfOperation DEF Sound
<1>6. /\ c' \in Connection /\ Len(c'.blocks) <= MaxBlocks
      /\ owed' \in Seq(Requests) /\ stream' \in {"no", "on", "bulk", "over"}
      /\ Sound(c', inbound, owed', stream')
  <2>1. CASE c' = LowerWriteCfm(k, TRUE) /\ ServerReads(c.writeMbuf)
    <3>1. owed' \in Seq(Requests) /\ stream' \in {"no", "on", "bulk", "over"}
      BY <1>0, <1>1, <2>1, ServerReadsIs
    <3>2. CASE c.state # "BULK_PUTTING"
      <4>1. c' = k
        BY <1>4, <2>1, <3>2 DEF LowerWriteCfm
      <4>2. Sound(k, inbound, owed', stream')
        BY <1>1, <1>3, <2>1, <3>2, WrittenSound
      <4> QED
        BY <1>0, <1>3, <3>1, <4>1, <4>2
    <3>3. CASE c.state = "BULK_PUTTING"
      <4> DEFINE s == SentOf(k, TRUE)
             l == BulkPutWriteCfm(k, TRUE)
      <4>1. c' = l
        BY <1>4, <2>1, <3>3 DEF LowerWriteCfm
      <4>2. /\ s \in Connection /\ Same(k, s) /\ s.abort = k.abort /\ s.busy = k.busy
            /\ s.writeMbuf = k.writeMbuf /\ NoneSent(s) /\ (NoneQueued(k) => NoneQueued(s))
        BY <1>3, SentIs
      <4> HIDE DEF s
      <4>3. Same(c, s) /\ (NoneQueued(c) => NoneQueued(s))
        BY <1>3, <4>2 DEF Same, NoneQueued
      <4>4. Sound(s, inbound, owed', stream')
        BY <1>1, <1>3, <2>1, <3>3, <4>2, <4>3, BulkWrittenSound
      <4>5. s.state = "BULK_PUTTING" /\ (Live(s) <=> Live(k))
        BY <1>4, <3>3, <4>2 DEF Same, Live
      <4>6. Live(k) => LeftOwed(owed', Len(owed')) /\ LeftUnread(inbound, Len(inbound))
        BY <1>0, <3>1, <4>2, <4>4, <4>5, LeftOfOperation DEF Sound
      <4>7. Always(s, inbound, owed', stream')
        BY <4>4 DEF Sound
      <4>8. /\ l \in Connection /\ Len(l.blocks) <= Len(k.blocks)
            /\ Sound(l, inbound, owed', stream')
        BY <1>0, <1>3, <1>4, <3>1, <3>3, <4>4, <4>6, <4>7, BulkCfmSound DEF s
      <4> HIDE DEF l
      <4>9. Len(c.blocks) \in Nat /\ Len(c'.blocks) \in Nat /\ MaxBlocks \in Nat
        BY <1>0, <4>1, <4>8, ObexAssumption DEF Connection
      <4> QED
        BY <1>0, <1>3, <3>1, <4>1, <4>8, <4>9
    <3> QED
      BY <3>2, <3>3
  <2>2. CASE c' = LowerWriteCfm(k, FALSE) /\ UNCHANGED <<owed, stream>>
    <3>1. owed' \in Seq(Requests) /\ stream' \in {"no", "on", "bulk", "over"}
          /\ owed' = owed /\ stream' = stream
      BY <1>0, <2>2 DEF Typed
    <3>2. CASE c.state # "BULK_PUTTING"
      <4>1. c' = FatalObexError(k)
        BY <1>4, <2>2, <3>2 DEF LowerWriteCfm
      <4> QED
        BY <1>0, <1>3, <1>4, <3>1, <4>1, FatalSound
    <3>3. CASE c.state = "BULK_PUTTING"
      <4> DEFINE s == SentOf(k, FALSE)
             l == BulkPutWriteCfm(k, FALSE)
      <4>1. c' = l
        BY <1>4, <2>2, <3>3 DEF LowerWriteCfm
      <4>2. /\ s \in Connection /\ Same(k, s) /\ s.abort = k.abort /\ s.busy = k.busy
            /\ s.writeMbuf = k.writeMbuf
        BY <1>3, SentIs
      <4> HIDE DEF s
      <4>3. Always(s, inbound, owed, stream)
        BY <1>3, <1>4, <4>2 DEF Always, Same, Quiet
      <4>4. /\ l \in Connection /\ Len(l.blocks) <= Len(k.blocks)
            /\ Sound(l, inbound, owed, stream)
        BY <1>0, <1>3, <1>4, <1>5, <3>3, <4>3, BulkCfmSound DEF s
      <4> HIDE DEF l
      <4>5. Len(c.blocks) \in Nat /\ Len(c'.blocks) \in Nat /\ MaxBlocks \in Nat
        BY <1>0, <4>1, <4>4, ObexAssumption DEF Connection
      <4> QED
        BY <1>0, <1>3, <3>1, <4>1, <4>4, <4>5
    <3> QED
      BY <3>2, <3>3
  <2> QED
    BY <1>2, <2>1, <2>2
<1> QED
  BY <1>0, <1>1, <1>6 DEF IInv, Typed

-----------------------------------------------------------------------------
(* The server.                                                              *)

LEMMA ServerGivesUpSound == ASSUME IInv, ServerGivesUp PROVE IInv'
<1>0. c \in Connection /\ Sound(c, inbound, owed, stream) /\ Typed
  BY DEF IInv, Typed
<1>1. PICK code \in {"denied", "error"} :
        inbound' = Append(inbound, [to |-> None, code |-> code, srm |-> FALSE])
  BY DEF ServerGivesUp
<1> DEFINE p == [to |-> None, code |-> code, srm |-> FALSE]
<1>2. /\ stream = "bulk" /\ owed = <<>> /\ Len(inbound) < MaxInbound /\ stream' = "over"
      /\ c' = c /\ owed' = owed /\ inbound' = Append(inbound, p)
  BY <1>1 DEF ServerGivesUp
<1>3. p \in Packets /\ p.code \in {"denied", "error"} /\ p.to = None
  BY DEF Packets
<1> HIDE DEF p
<1>4. /\ inbound' \in Seq(Packets) /\ Len(inbound') = Len(inbound) + 1 /\ Len(inbound) \in Nat
      /\ \A i \in 1 .. Len(inbound) : inbound'[i] = inbound[i]
      /\ inbound'[Len(inbound) + 1] = p
  BY <1>0, <1>2, <1>3, AppendProperties DEF Typed
<1>5. Typed'
  BY <1>0, <1>2, <1>4, ObexAssumption DEF Typed
<1>6. Always(c, inbound', owed, "over")
  BY <1>0, <1>2 DEF Sound, Always
<1>7. ASSUME Live(c) PROVE Protocol(c, inbound', owed, "over")
  <2>1. Protocol(c, inbound, owed, "bulk")
    BY <1>0, <1>2, <1>7 DEF Sound
  <2>2. c.state \notin {"LOWER_LAYER_CONNECTED", "CONNECTED", "SETTING_PATH", "DO_ACTION", "GETTING",
                        "PUTTING"}
    BY <2>1 DEF Protocol, Connects, Idle, Simple, Fresh, Gets, GetStream, Puts1
  <2>3. CASE c.state = "BULK_PUTTING"
    <3>1. BulkPuts(c, inbound, owed, "bulk")
      BY <2>1, <2>3 DEF Protocol
    <3>2. c.srm = "enabled" /\ inbound = <<>>
      BY <3>1 DEF BulkPuts, Owed
    <3>3. Len(inbound') = 1 /\ inbound'[1] = p
      BY <1>4, <3>2
    <3> QED
      BY <1>2, <1>3, <2>3, <3>1, <3>2, <3>3 DEF Protocol, BulkPuts
  <2>4. CASE c.state = "ABORTING"
    <3>1. c.writeMbuf = "ABORT" /\ LeftOwed(owed, Len(owed)) /\ LeftUnread(inbound, Len(inbound))
      BY <1>2, <2>1, <2>4 DEF Protocol, Aborts
    <3>2. LeftUnread(inbound', Len(inbound'))
      <4>1. ASSUME NEW i \in 1 .. Len(inbound'), inbound'[i].code = "ok"
            PROVE  inbound'[i].to \in Puts
        <5>1. CASE i = Len(inbound) + 1
          BY <1>3, <1>4, <4>1, <5>1
        <5>2. CASE i \in 1 .. Len(inbound)
          BY <1>4, <3>1, <4>1, <5>2 DEF LeftUnread
        <5> QED
          BY <1>4, <5>1, <5>2
      <4> QED
        BY <4>1 DEF LeftUnread
    <3> QED
      BY <2>4, <3>1, <3>2 DEF Protocol, Aborts
  <2> QED
    BY <2>2, <2>3, <2>4 DEF Protocol
<1> QED
  BY <1>2, <1>5, <1>6, <1>7 DEF IInv, Sound

(* One answer, p, with what it makes of owed and stream.                      *)
ServerGives(p, ow, st, ow2, st2) ==
    LET goesOn == p.to = "GET" /\ p.code = "more" /\ (st = "on" \/ p.srm)
    IN  /\ ow # <<>> /\ Answers(p, {ow[1]})
        /\ p.srm => st = "no"
        /\ IF goesOn THEN ow2 = ow ELSE ow2 = Tail(ow)
        /\ st2 = IF p.srm THEN "on" ELSE IF p.code # "more" THEN "no" ELSE st

LEMMA TailOfOne ==
    ASSUME NEW S, NEW s \in Seq(S), Len(s) = 1
    PROVE  Tail(s) = <<>>
<1>1. s # <<>>
  OBVIOUS
<1>2. Tail(s) \in Seq(S) /\ Len(Tail(s)) = 0
  BY <1>1, HeadTailProperties
<1> QED
  BY <1>2, EmptySeq

LEMMA NonEmpty ==
    ASSUME NEW S, NEW s \in Seq(S), Len(s) \in Nat \ {0}
    PROVE  s # <<>> /\ Len(s) \in 1 .. Len(s)
  BY EmptySeq

(* A single request that is answered, without SRM.                            *)
GivenOne(k, in, ow, p, ow2, requests) ==
    /\ ow[1] \in requests /\ k.writeMbuf = None /\ in = <<>> /\ Append(in, p) = <<p>>
    /\ Len(ow) = 1 /\ Tail(ow) = <<>>
    /\ ow2 = <<>> => Answered1(k, Append(in, p), ow2, requests)
    /\ ow2 # <<>> => ow2 = ow /\ p.to = "GET" /\ Owed(k, in, ow, requests)

LEMMA GivesOne ==
    ASSUME NEW k \in Connection, NEW in \in Seq(Packets), NEW ow \in Seq(Requests), NEW st,
           NEW p \in Packets, NEW ow2, NEW st2, ServerGives(p, ow, st, ow2, st2),
           NEW requests, One(k, in, ow, requests)
    PROVE  GivenOne(k, in, ow, p, ow2, requests)
<1>1. Owed(k, in, ow, requests)
  BY DEF One, Written, Answered1, ServerGives
<1>2. in = <<>> /\ Len(ow) = 1 /\ ow[1] \in requests /\ k.writeMbuf = None
  BY <1>1 DEF Owed
<1>3. Append(in, p) = <<p>>
  BY <1>2
<1>4. Tail(ow) = <<>>
  BY <1>2, TailOfOne
<1>5. Answers(p, requests)
  BY <1>2 DEF ServerGives, Answers
<1> QED
  BY <1>1, <1>2, <1>3, <1>4, <1>5 DEF GivenOne, Answered1, ServerGives

(* The stream of a GET goes on, or ends.                                      *)
LEMMA GivesStream ==
    ASSUME NEW in \in Seq(Packets), NEW i \in {1, 2}, i <= Len(in) + 1,
           NEW ow \in Seq(Requests), NEW st, GetStream(in, i, ow, st),
           NEW p \in Packets, NEW ow2, NEW st2, ServerGives(p, ow, st, ow2, st2)
    PROVE  GetStream(Append(in, p), i, ow2, st2)
<1> DEFINE in2 == Append(in, p)
<1>1. /\ Len(in2) = Len(in) + 1 /\ Len(in) \in Nat /\ in2[Len(in) + 1] = p
      /\ \A j \in 1 .. Len(in) : in2[j] = in[j]
  BY AppendProperties
<1> HIDE DEF in2
<1>2. Len(ow) = 1 /\ ow[1] = "GET" /\ st = "on" /\ Tail(ow) = <<>>
  BY TailOfOne DEF GetStream, ServerGives
<1>3. \A j \in i .. Len(in) : Answers(in[j], {"GET"}) /\ ~in[j].srm /\ in[j].code = "more"
  BY <1>2 DEF GetStream
<1>4. p.to = "GET" /\ Answers(p, {"GET"}) /\ ~p.srm
  BY <1>2 DEF ServerGives, Answers, Packets
<1>5. \A j \in i .. Len(in2) : j = Len(in) + 1 \/ (j \in i .. Len(in) /\ j \in 1 .. Len(in))
  BY <1>1
<1>6. \A j \in i .. Len(in2) : in2[j] = p \/ (j # Len(in2) /\ j \in i .. Len(in) /\ in2[j] = in[j])
  BY <1>1, <1>5
<1>7. \A j \in i .. Len(in2) : Answers(in2[j], {"GET"}) /\ ~in2[j].srm
  BY <1>3, <1>4, <1>6
<1>8. CASE p.code = "more"
  <2>1. ow2 = ow /\ st2 = "on"
    BY <1>2, <1>4, <1>8 DEF ServerGives
  <2>2. \A j \in i .. Len(in2) : in2[j].code = "more"
    BY <1>3, <1>6, <1>8
  <2> QED
    BY <1>2, <1>7, <2>1, <2>2 DEF GetStream, in2
<1>9. CASE p.code # "more"
  <2>1. ow2 = <<>> /\ st2 = "no"
    BY <1>2, <1>4, <1>9 DEF ServerGives
  <2>2. \A j \in i .. Len(in2) : j # Len(in2) => in2[j].code = "more"
    BY <1>1, <1>3, <1>5
  <2>3. i <= Len(in2) /\ in2[Len(in2)].code # "more"
    BY <1>1, <1>9
  <2> QED
    BY <1>7, <2>1, <2>2, <2>3 DEF GetStream, in2
<1> QED
  BY <1>8, <1>9

(* What is left before an abort, when one more of it is answered.             *)
LEMMA GivesAbort ==
    ASSUME NEW k \in Connection, NEW in \in Seq(Packets), NEW ow \in Seq(Requests), NEW st,
           NEW p \in Packets, NEW ow2, NEW st2, ServerGives(p, ow, st, ow2, st2),
           Aborts(k, in, ow, st)
    PROVE  Aborts(k, Append(in, p), ow2, st2)
<1> DEFINE in2 == Append(in, p)
<1>1. /\ Len(in2) = Len(in) + 1 /\ Len(in) \in Nat /\ in2[Len(in) + 1] = p
      /\ \A j \in 1 .. Len(in) : in2[j] = in[j] /\ in2 # <<>>
  BY AppendProperties
<1>2. Len(in2) \in Nat /\ \A j \in 1 .. Len(in2) : j = Len(in) + 1 \/ j \in 1 .. Len(in)
  BY <1>1
<1>3. /\ ow # <<>> /\ Len(ow) \in Nat \ {0} /\ Len(Tail(ow)) = Len(ow) - 1
      /\ \A i \in 1 .. Len(Tail(ow)) : Tail(ow)[i] = ow[i + 1]
      /\ p.to = ow[1] /\ p.code \in Codes(ow[1]) /\ ow2 \in {ow, Tail(ow)}
  BY HeadTailProperties, EmptySeq DEF ServerGives, Answers
<1>4. in2 # <<>>
  BY AppendProperties
<1> HIDE DEF in2
<1>5. ASSUME LeftUnread(in, Len(in)), ow[1] \in {"GET"} \union Puts PROVE LeftUnread(in2, Len(in2))
  <2>1. p.code = "ok" => p.to \in Puts
    BY <1>3, <1>5, CodesAre
  <2> QED
    BY <1>1, <1>2, <1>5, <2>1 DEF LeftUnread
<1>6. CASE k.writeMbuf = "ABORT" /\ LeftOwed(ow, Len(ow)) /\ LeftUnread(in, Len(in))
  <2>1. ow[1] \in {"GET"} \union Puts
    BY <1>3, <1>6 DEF LeftOwed
  <2>2. LeftOwed(ow2, Len(ow2))
    <3>1. \A i \in 1 .. Len(Tail(ow)) : i + 1 \in 1 .. Len(ow)
      BY <1>3
    <3> QED
      BY <1>3, <1>6, <3>1 DEF LeftOwed
  <2> QED
    BY <1>5, <1>6, <2>1, <2>2 DEF Aborts, in2
<1>7. CASE /\ k.writeMbuf = None /\ ow # <<>> /\ ow[Len(ow)] = "ABORT"
           /\ LeftOwed(ow, Len(ow) - 1) /\ LeftUnread(in, Len(in))
  <2>1. CASE Len(ow) = 1
    <3>1. ow[1] = "ABORT" /\ Tail(ow) = <<>>
      BY <1>7, <2>1, TailOfOne
    <3>2. p.to = "ABORT" /\ p.code = "ok"
      BY <1>3, <3>1, CodesAre
    <3>3. ow2 = <<>> /\ st2 = "no"
      BY <3>1, <3>2 DEF ServerGives, Answers
    <3>4. in2[Len(in2)] = p /\ Len(in2) - 1 = Len(in)
      BY <1>1
    <3>5. LeftUnread(in2, Len(in2) - 1)
      BY <1>1, <1>7, <3>4 DEF LeftUnread
    <3> QED
      BY <1>4, <1>7, <3>2, <3>3, <3>4, <3>5 DEF Aborts, in2
  <2>2. CASE Len(ow) # 1
    <3>1. 1 \in 1 .. Len(ow) - 1
      BY <1>3, <2>2
    <3>2. ow[1] \in {"GET"} \union Puts
      BY <1>7, <3>1 DEF LeftOwed
    <3>3. Len(Tail(ow)) \in Nat \ {0} /\ Len(Tail(ow)) + 1 = Len(ow)
      BY <1>3, <2>2
    <3>4. Tail(ow) # <<>> /\ Tail(ow)[Len(Tail(ow))] = "ABORT"
      <4>1. Len(Tail(ow)) \in 1 .. Len(Tail(ow)) /\ Tail(ow) # <<>>
        BY <1>3, <3>3, HeadTailProperties, NonEmpty
      <4>2. Tail(ow)[Len(Tail(ow))] = ow[Len(Tail(ow)) + 1]
        BY <1>3, <4>1
      <4> QED
        BY <1>7, <3>3, <4>1, <4>2
    <3>5. LeftOwed(Tail(ow), Len(Tail(ow)) - 1)
      <4>1. \A i \in 1 .. Len(Tail(ow)) - 1 : i \in 1 .. Len(Tail(ow)) /\ i + 1 \in 1 .. Len(ow) - 1
        BY <3>3
      <4> QED
        BY <1>3, <1>7, <4>1 DEF LeftOwed
    <3>6. ow2 # <<>> /\ ow2[Len(ow2)] = "ABORT" /\ LeftOwed(ow2, Len(ow2) - 1)
      BY <1>3, <1>7, <3>4, <3>5
    <3> QED
      BY <1>5, <1>7, <3>2, <3>6 DEF Aborts, in2
  <2> QED
    BY <2>1, <2>2
<1> QED
  BY <1>3, <1>6, <1>7 DEF Aborts

(* What the server gives fits the state of the client.                        *)
LEMMA GivesSound ==
    ASSUME NEW k \in Connection, NEW in \in Seq(Packets), NEW ow \in Seq(Requests), NEW st,
           NEW p \in Packets, NEW ow2, NEW st2, ServerGives(p, ow, st, ow2, st2),
           Sound(k, in, ow, st)
    PROVE  Sound(k, Append(in, p), ow2, st2)
<1> DEFINE in2 == Append(in, p)
<1>1. ow # <<>> /\ ~Quiet(k, in, ow)
  BY DEF ServerGives, Quiet
<1>2. Always(k, in2, ow2, st2)
  BY <1>1 DEF Sound, Always
<1>3. ASSUME Live(k) PROVE Protocol(k, in2, ow2, st2)
  <2>1. Protocol(k, in, ow, st)
    BY <1>3 DEF Sound
  <2>2. ASSUME NEW requests, One(k, in, ow, requests), "GET" \notin requests
        PROVE  /\ k.writeMbuf = None /\ Answered1(k, in2, ow2, requests) /\ ow[1] \in requests
               /\ p.srm => ow[1] = "PUT"
               /\ in2[1] = p
    <3>0. GivenOne(k, in, ow, p, ow2, requests)
      BY <2>2, GivesOne
    <3>1. ow[1] \in requests /\ p.to = ow[1] /\ (p.srm => p.to \in {"GET", "PUT"})
      BY <3>0 DEF GivenOne, ServerGives, Answers
    <3>2. ow2 = <<>>
      <4>1. p.to # "GET" /\ Tail(ow) = <<>>
        BY <2>2, <3>0, <3>1 DEF GivenOne
      <4> QED
        BY <4>1 DEF ServerGives
    <3>3. k.writeMbuf = None /\ in2 = <<p>> /\ Answered1(k, in2, ow2, requests)
      BY <3>0, <3>2 DEF GivenOne
    <3> QED
      BY <2>2, <3>1, <3>3
  <2>13. ASSUME NEW requests, One(k, in, ow, requests)
         PROVE  /\ ow[1] \in requests /\ k.writeMbuf = None /\ in = <<>> /\ in2 = <<p>>
                /\ Len(ow) = 1
                /\ ow2 = <<>> => Answered1(k, in2, ow2, requests)
    <3>1. GivenOne(k, in, ow, p, ow2, requests)
      BY <2>13, GivesOne
    <3> QED
      BY <3>1 DEF GivenOne
  <2>3. ~p.srm => st2 = (IF p.code # "more" THEN "no" ELSE st)
    BY DEF ServerGives
  <2>4. p.srm => st2 = "on" /\ st = "no" /\ p.code = "more"
    BY DEF ServerGives, Answers
  <2>5. p.code \in Codes(ow[1])
    BY DEF ServerGives, Answers
  <2> HIDE DEF in2
  <2>6. CASE k.state = "LOWER_LAYER_CONNECTED"
    <3>1. st = "no" /\ k.busy /\ One(k, in, ow, {"CONNECT"}) /\ k.abort = "NO_ABORT"
      BY <1>1, <2>1, <2>6 DEF Protocol, Connects
    <3>2. Answered1(k, in2, ow2, {"CONNECT"}) /\ ~p.srm
      BY <2>2, <3>1
    <3>3. st2 = "no"
      BY <2>3, <3>1, <3>2
    <3> QED
      BY <2>6, <3>1, <3>2, <3>3 DEF Protocol, Connects, One
  <2>7. CASE k.state = "CONNECTED"
    BY <1>1, <2>1, <2>7 DEF Protocol, Idle
  <2>8. CASE k.state \in {"SETTING_PATH", "DO_ACTION"}
    <3>1. Fresh(k, st) /\ One(k, in, ow, {k.state}) /\ k.abort = "NO_ABORT"
      BY <2>1, <2>8 DEF Protocol, Simple
    <3>2. Answered1(k, in2, ow2, {k.state}) /\ ~p.srm /\ k.writeMbuf = None
      BY <2>2, <2>8, <3>1
    <3>3. st2 = "no"
      BY <2>3, <3>1, <3>2 DEF Fresh
    <3> QED
      BY <2>8, <3>1, <3>2, <3>3 DEF Protocol, Simple, One, Fresh
  <2>9. CASE k.state = "GETTING"
    <3>1. Gets(k, in, ow, st)
      BY <2>1, <2>9 DEF Protocol
    <3>2. CASE k.srm = "enabled"
      <4>1. GetStream(in2, 1, ow2, st2)
        BY <3>1, <3>2, GivesStream DEF Gets, in2
      <4> QED
        BY <2>9, <3>1, <3>2, <4>1 DEF Protocol, Gets
    <3>3. CASE k.srm # "enabled" /\ One(k, in, ow, {"GET"})
      <4>1. k.busy /\ Fresh(k, st)
        BY <1>1, <3>1, <3>3 DEF Gets, One, Owed, Written, Answered1, None
      <4>2. ow[1] \in {"GET"} /\ k.writeMbuf = None /\ in2 = <<p>> /\ in = <<>> /\ Len(ow) = 1
            /\ (ow2 = <<>> => Answered1(k, in2, ow2, {"GET"}))
        BY <2>13, <3>3
      <4>3. st = "no" /\ p.to = "GET" /\ Tail(ow) = <<>> /\ Answers(p, {"GET"})
        BY <4>1, <4>2, TailOfOne DEF Fresh, ServerGives, Answers
      <4>4. CASE p.srm
        <5>1. ow2 = ow /\ st2 = "on"
          BY <2>4, <4>3, <4>4 DEF ServerGives
        <5>2. GetStream(in2, 2, ow2, st2)
          BY <4>2, <5>1 DEF GetStream
        <5> QED
          BY <2>9, <3>3, <4>1, <4>2, <4>3, <4>4, <5>2 DEF Protocol, Gets
      <4>5. CASE ~p.srm
        <5>1. ow2 = <<>> /\ st2 = "no"
          BY <2>3, <4>3, <4>5 DEF ServerGives
        <5> QED
          BY <2>9, <3>3, <4>1, <4>2, <4>5, <5>1 DEF Protocol, Gets, One, Fresh
      <4> QED
        BY <4>4, <4>5
    <3>4. CASE /\ k.srm # "enabled" /\ k.busy /\ k.writeMbuf = None /\ in # <<>>
               /\ Answers(in[1], {"GET"}) /\ in[1].srm /\ GetStream(in, 2, ow, st)
      <4>1. Len(in) \in Nat \ {0} /\ in2 # <<>> /\ in2[1] = in[1]
        BY <3>4, EmptySeq, AppendProperties DEF in2
      <4>2. GetStream(in2, 2, ow2, st2)
        BY <3>4, <4>1, GivesStream DEF in2
      <4> QED
        BY <2>9, <3>4, <4>1, <4>2 DEF Protocol, Gets
    <3> QED
      BY <1>1, <3>1, <3>2, <3>3, <3>4 DEF Gets
  <2>10. CASE k.state = "PUTTING"
    <3>1. Puts1(k, in, ow, st)
      BY <2>1, <2>10 DEF Protocol
    <3>2. CASE k.srm = "enabled"
      <4>1. k.busy /\ Owed(k, in, ow, {"FINAL"}) /\ One(k, in, ow, {"FINAL"}) /\ st = "on"
        BY <1>1, <3>1, <3>2 DEF Puts1, Written, Answered1, One, ServerGives
      <4>2. ~p.srm /\ ow[1] = "FINAL" /\ Answered1(k, in2, ow2, {"FINAL"})
        BY <2>4, <2>2, <4>1
      <4>3. st2 = "no"
        BY <2>3, <2>5, <4>2, CodesAre
      <4> QED
        BY <2>10, <3>2, <4>1, <4>2, <4>3 DEF Protocol, Puts1
    <3>3. CASE k.srm # "enabled"
      <4>1. k.busy /\ Owed(k, in, ow, {"PUT", "FINAL"}) /\ One(k, in, ow, {"PUT", "FINAL"}) /\ st = "no"
        BY <1>1, <3>1, <3>3 DEF Puts1, Written, Answered1, One, ServerGives
      <4>2. Answered1(k, in2, ow2, {"PUT", "FINAL"}) /\ in2[1] = p
        BY <2>2, <4>1
      <4>3. st2 = IF p.srm THEN "on" ELSE "no"
        BY <2>3, <2>4, <4>1
      <4> QED
        BY <2>10, <3>3, <4>1, <4>2, <4>3 DEF Protocol, Puts1
    <3> QED
      BY <3>2, <3>3
  <2>11. CASE k.state = "BULK_PUTTING"
    <3>1. BulkPuts(k, in, ow, st)
      BY <2>1, <2>11 DEF Protocol
    <3>2. CASE k.srm # "enabled"
      <4>1. k.busy /\ One(k, in, ow, {"BULK", "LAST"}) /\ st = "no"
        BY <1>1, <3>1, <3>2 DEF BulkPuts
      <4>2. ~p.srm /\ Answered1(k, in2, ow2, {"BULK", "LAST"})
        BY <2>2, <4>1
      <4>3. st2 = "no"
        BY <2>3, <4>1, <4>2
      <4> QED
        BY <2>11, <3>1, <3>2, <4>1, <4>2, <4>3 DEF Protocol, BulkPuts, One
    <3>3. CASE k.srm = "enabled"
      <4>1. One(k, in, ow, {"LAST"}) /\ AllSent(k) /\ st \in {"on", "bulk"}
        BY <1>1, <3>1, <3>3 DEF BulkPuts, Answered1, One
      <4>2. ~p.srm /\ ow[1] = "LAST" /\ Answered1(k, in2, ow2, {"LAST"})
        BY <2>2, <4>1
      <4>3. st2 = "no"
        BY <2>3, <2>5, <4>2, CodesAre
      <4> QED
        BY <2>11, <3>1, <3>3, <4>1, <4>2, <4>3 DEF Protocol, BulkPuts
    <3> QED
      BY <3>2, <3>3
  <2>12. CASE k.state = "ABORTING"
    BY <2>1, <2>12, GivesAbort DEF Protocol, in2
  <2> QED
    BY <2>6, <2>7, <2>8, <2>9, <2>10, <2>11, <2>12 DEF Protocol
<1> QED
  BY <1>2, <1>3 DEF Sound

LEMMA ServerAnswersSound == ASSUME IInv, ServerAnswers PROVE IInv'
<1>0. /\ c \in Connection /\ Sound(c, inbound, owed, stream) /\ Typed
      /\ inbound \in Seq(Packets) /\ owed \in Seq(Requests)
  BY DEF IInv, Typed
<1>1. PICK code \in Codes(Head(owed)), srm \in BOOLEAN :
        LET goesOn == Head(owed) = "GET" /\ code = "more" /\ (stream = "on" \/ srm)
        IN  /\ srm => /\ c.srm # "no" /\ stream = "no"
                      /\ Head(owed) \in {"GET", "PUT"} /\ code = "more"
            /\ inbound' = Append(inbound, [to |-> Head(owed), code |-> code, srm |-> srm])
            /\ owed' = IF goesOn THEN owed ELSE Tail(owed)
            /\ stream' = IF srm THEN "on" ELSE IF code # "more" THEN "no" ELSE stream
  BY DEF ServerAnswers
<1> DEFINE p == [to |-> Head(owed), code |-> code, srm |-> srm]
<1>2. owed # <<>> /\ Len(inbound) < MaxInbound /\ c' = c /\ Head(owed) = owed[1]
  BY DEF ServerAnswers
<1>3. owed[1] \in Requests /\ Tail(owed) \in Seq(Requests)
  BY <1>0, <1>2, HeadTailProperties
<1>4. code \in {"ok", "challenge", "error", "more", "okdata", "denied"}
  BY <1>2, <1>3, CodesAre DEF Requests
<1>5. p \in Packets
  BY <1>2, <1>3, <1>4 DEF Packets
<1>6. ServerGives(p, owed, stream, owed', stream') /\ inbound' = Append(inbound, p)
  BY <1>1, <1>2 DEF ServerGives, Answers
<1>7. owed' \in {owed, Tail(owed)} /\ stream' \in {"no", "on", stream}
  BY <1>1
<1> HIDE DEF p
<1>8. Sound(c, inbound', owed', stream')
  BY <1>0, <1>5, <1>6, GivesSound
<1>9. inbound' \in Seq(Packets) /\ Len(inbound') <= MaxInbound
  <2>1. inbound' \in Seq(Packets) /\ Len(inbound') = Len(inbound) + 1 /\ Len(inbound) \in Nat
    BY <1>0, <1>5, <1>6, AppendProperties
  <2> QED
    BY <1>2, <2>1, ObexAssumption
<1>10. Typed'
  BY <1>0, <1>2, <1>3, <1>7, <1>9 DEF Typed
<1> QED
  BY <1>2, <1>8, <1>10 DEF IInv

-----------------------------------------------------------------------------
(* The socket thread reads.                                                  *)

LEMMA TailIs ==
    ASSUME NEW in \in Seq(Packets), in # <<>>
    PROVE  /\ Head(in) = in[1] /\ in[1] \in Packets /\ Tail(in) \in Seq(Packets)
           /\ Len(in) \in Nat \ {0} /\ Len(Tail(in)) = Len(in) - 1
           /\ \A i \in 1 .. Len(Tail(in)) : Tail(in)[i] = in[i + 1] /\ i + 1 \in 1 .. Len(in)
           /\ Len(in) = 1 => Tail(in) = <<>>
           /\ Len(in) # 1 => Tail(in) # <<>> /\ Tail(in)[Len(Tail(in))] = in[Len(in)]
<1>1. /\ Head(in) = in[1] /\ in[1] \in Packets /\ Tail(in) \in Seq(Packets)
      /\ Len(in) \in Nat \ {0} /\ Len(Tail(in)) = Len(in) - 1
      /\ \A i \in 1 .. Len(Tail(in)) : Tail(in)[i] = in[i + 1]
  BY HeadTailProperties, EmptySeq
<1>2. \A i \in 1 .. Len(Tail(in)) : i + 1 \in 1 .. Len(in)
  BY <1>1
<1>3. Len(in) = 1 => Tail(in) = <<>>
  BY TailOfOne
<1>4. ASSUME Len(in) # 1 PROVE Tail(in) # <<>> /\ Tail(in)[Len(Tail(in))] = in[Len(in)]
  <2>1. Len(Tail(in)) \in Nat \ {0} /\ Len(Tail(in)) + 1 = Len(in)
    BY <1>1, <1>4
  <2>2. Tail(in) # <<>> /\ Len(Tail(in)) \in 1 .. Len(Tail(in))
    BY <1>1, <2>1, NonEmpty
  <2> QED
    BY <1>1, <2>1, <2>2
<1> QED
  BY <1>1, <1>2, <1>3, <1>4

(* A packet of the stream of a GET is read.                                   *)
LEMMA StreamRead ==
    ASSUME NEW in \in Seq(Packets), in # <<>>, NEW ow, NEW st,
           \/ GetStream(in, 2, ow, st)
           \/ GetStream(in, 1, ow, st) /\ in[1].code = "more"
    PROVE  GetStream(Tail(in), 1, ow, st)
<1> DEFINE t == Tail(in)
<1>1. /\ Len(in) \in Nat \ {0} /\ Len(t) = Len(in) - 1
      /\ \A i \in 1 .. Len(t) : t[i] = in[i + 1] /\ i + 1 \in 1 .. Len(in)
      /\ Len(in) # 1 => t[Len(t)] = in[Len(in)]
  BY TailIs
<1> HIDE DEF t
<1>2. GetStream(in, 2, ow, st)
  <2>1. ASSUME GetStream(in, 1, ow, st), in[1].code = "more" PROVE GetStream(in, 2, ow, st)
    <3>1. \A j \in 2 .. Len(in) : j \in 1 .. Len(in)
      BY <1>1
    <3>2. in[Len(in)].code # "more" => 2 <= Len(in)
      BY <1>1, <2>1
    <3> QED
      BY <2>1, <3>1, <3>2 DEF GetStream
  <2> QED
    BY <2>1
<1>3. \A i \in 1 .. Len(t) : i + 1 \in 2 .. Len(in) /\ (i # Len(t) => i + 1 # Len(in))
  BY <1>1
<1>4. \A i \in 1 .. Len(t) : Answers(t[i], {"GET"}) /\ ~t[i].srm
  BY <1>1, <1>2, <1>3 DEF GetStream
<1>5. CASE Len(ow) = 1 /\ ow[1] = "GET" /\ st = "on" /\ \A j \in 2 .. Len(in) : in[j].code = "more"
  BY <1>1, <1>3, <1>4, <1>5 DEF GetStream
<1>6. CASE /\ ow = <<>> /\ st = "no" /\ 2 <= Len(in) /\ in[Len(in)].code # "more"
           /\ \A j \in 2 .. Len(in) : j # Len(in) => in[j].code = "more"
  <2>1. 1 <= Len(t) /\ t[Len(t)].code # "more"
    BY <1>1, <1>6
  <2>2. \A j \in 1 .. Len(t) : j # Len(t) => t[j].code = "more"
    BY <1>1, <1>3, <1>6
  <2> QED
    BY <1>4, <1>6, <2>1, <2>2 DEF GetStream
<1> QED
  BY <1>2, <1>5, <1>6 DEF GetStream, t

LEMMA AnsweredIs ==
    ASSUME NEW k \in Connection
    PROVE  /\ Answered(k) \in Connection /\ Same(k, Answered(k)) /\ ~Answered(k).busy
           /\ Answered(k).abort = k.abort /\ Answered(k).writeMbuf = k.writeMbuf
           /\ Answered(k).blocks = k.blocks
  BY DEF Answered, Connection, Same

SrmSet(k, l, p) ==
    /\ l \in Connection /\ l.life = k.life /\ l.state = k.state /\ l.abort = k.abort
    /\ l.busy = k.busy /\ l.writeMbuf = k.writeMbuf /\ l.blocks = k.blocks
    /\ l.crossed = k.crossed /\ l.final = k.final
    /\ l.disconnectingLowerLayer = k.disconnectingLowerLayer
    /\ l.srm = IF p.srm THEN "enabled" ELSE k.srm

LEMMA WithSrmIs ==
    ASSUME NEW k \in Connection, NEW p
    PROVE  SrmSet(k, WithSrm(k, p), p)
  BY DEF SrmSet, WithSrm, Connection

(* The end of an operation.                                                  *)
LEMMA EndSound ==
    ASSUME NEW k \in Connection, ~k.crossed, k.life = "alive", k.abort = "NO_ABORT",
           NEW l \in Connection, l.state = "CONNECTED", ~l.busy, l.abort = "NO_ABORT",
           l.writeMbuf = k.writeMbuf, l.life = k.life,
           NEW in, NEW ow, NEW st, Quiet(k, in, ow), st \in {"no", "over"}
    PROVE  Sound(l, in, ow, st)
  BY DEF Sound, Always, Protocol, Idle, Quiet

LEMMA GetResponseSound ==
    ASSUME NEW k \in Connection, k.state = "GETTING", Live(k), k.abort = "NO_ABORT",
           NEW in \in Seq(Packets), in # <<>>, NEW ow, NEW st, Gets(k, in, ow, st),
           NEW l \in GetResponse(k, in[1])
    PROVE  l \in Connection /\ l.blocks = k.blocks /\ Sound(l, Tail(in), ow, st)
<1> DEFINE p == in[1]
           state == IF p.code = "more" THEN k.state ELSE "CONNECTED"
           m == [Answered(k) EXCEPT !.state = state]
<1>1. l = WithSrm([Answered(k) EXCEPT !.state = IF p.code = "more" THEN @ ELSE "CONNECTED"], p)
  BY DEF GetResponse
<1>2. Answered(k).state = k.state
  BY AnsweredIs DEF Same
<1>3. l = WithSrm(m, p)
  BY <1>1, <1>2
<1>4. state \in States /\ (p.code = "more" => state = "GETTING") /\ (p.code # "more" => state = "CONNECTED")
  BY DEF States, Usable, InProgress
<1>5. /\ Len(in) \in Nat \ {0} /\ Len(in) = 1 => Tail(in) = <<>>
  BY TailIs
<1> HIDE DEF state, p
<1>6. /\ m \in Connection /\ m.life = k.life /\ m.state = state /\ m.abort = k.abort /\ ~m.busy
      /\ m.writeMbuf = k.writeMbuf /\ m.blocks = k.blocks /\ m.crossed = k.crossed /\ m.srm = k.srm
      /\ m.disconnectingLowerLayer = k.disconnectingLowerLayer
  BY <1>4, AnsweredIs DEF Connection, Same
<1> HIDE DEF m
<1>7. /\ l \in Connection /\ l.life = k.life /\ l.state = state /\ l.abort = k.abort /\ ~l.busy
      /\ l.writeMbuf = k.writeMbuf /\ l.blocks = k.blocks /\ l.crossed = k.crossed
      /\ l.srm = IF p.srm THEN "enabled" ELSE k.srm
  <2>1. SrmSet(m, l, p)
    BY <1>3, <1>6, WithSrmIs
  <2> QED
    BY <1>6, <2>1 DEF SrmSet
<1>8. k.writeMbuf = None /\ ~k.crossed /\ k.life = "alive"
  BY DEF Live, Gets, Quiet, One, Written, Owed, Answered1
<1>9. ASSUME p.code = "more", Gets(l, Tail(in), ow, st) PROVE Sound(l, Tail(in), ow, st)
  BY <1>4, <1>7, <1>8, <1>9 DEF Sound, Always, Protocol
<1>10. ASSUME p.code # "more", ow = <<>>, Tail(in) = <<>>, st = "no" PROVE Sound(l, Tail(in), ow, st)
  <2>1. Quiet(k, Tail(in), ow)
    BY <1>8, <1>10 DEF Quiet
  <2> QED
    BY <1>4, <1>7, <1>8, <1>10, <2>1, EndSound
<1>11. CASE k.srm = "enabled"
  <2>1. GetStream(in, 1, ow, st)
    BY <1>11 DEF Gets
  <2>2. CASE p.code = "more"
    <3>1. GetStream(Tail(in), 1, ow, st)
      BY <2>1, <2>2, StreamRead DEF p
    <3>2. Gets(l, Tail(in), ow, st)
      BY <1>7, <1>8, <1>11, <3>1 DEF Gets
    <3> QED
      BY <1>7, <1>9, <2>2, <3>2
  <2>3. CASE p.code # "more"
    <3>1. Len(in) = 1 /\ ow = <<>> /\ st = "no"
      <4>1. 1 \in 1 .. Len(in)
        BY <1>5
      <4> QED
        BY <1>5, <2>1, <2>3, <4>1 DEF GetStream, p
    <3> QED
      BY <1>5, <1>7, <1>10, <2>3, <3>1
  <2> QED
    BY <2>2, <2>3
<1>12. CASE k.srm # "enabled" /\ One(k, in, ow, {"GET"}) /\ Fresh(k, st) /\ ~p.srm
  <2>1. ow = <<>> /\ Len(in) = 1 /\ st = "no"
    BY <1>8, <1>12 DEF One, Written, Owed, Answered1, Fresh
  <2>2. Gets(l, Tail(in), ow, st)
    BY <1>5, <1>7, <1>8, <1>12, <2>1 DEF Gets, Quiet
  <2> QED
    BY <1>5, <1>7, <1>9, <1>10, <2>1, <2>2
<1>13. CASE /\ k.srm # "enabled" /\ Answers(p, {"GET"}) /\ p.srm /\ GetStream(in, 2, ow, st)
  <2>1. p.code = "more" /\ l.srm = "enabled"
    BY <1>7, <1>13 DEF Answers
  <2>2. GetStream(Tail(in), 1, ow, st)
    BY <1>13, StreamRead
  <2>3. Gets(l, Tail(in), ow, st)
    BY <1>7, <1>8, <2>1, <2>2 DEF Gets
  <2> QED
    BY <1>7, <1>9, <2>1, <2>3
<1> QED
  BY <1>11, <1>12, <1>13 DEF Gets, Quiet, p

LEMMA PutResponseSound ==
    ASSUME NEW k \in Connection, k.state = "PUTTING", Live(k), k.abort = "NO_ABORT",
           NEW in \in Seq(Packets), in # <<>>, NEW ow, NEW st, Puts1(k, in, ow, st),
           NEW l \in PutResponse(k, in[1])
    PROVE  l \in Connection /\ l.blocks = k.blocks /\ Sound(l, Tail(in), ow, st)
<1> DEFINE p == in[1]
           t == Tail(in)
           a == Answered(k)
<1>1. Len(in) = 1 => t = <<>>
  BY TailIs
<1>2. /\ a \in Connection /\ Same(k, a) /\ ~a.busy /\ a.abort = k.abort
      /\ a.writeMbuf = k.writeMbuf /\ a.blocks = k.blocks
  BY AnsweredIs
<1>3. \/ p.code # "more" /\ l = [a EXCEPT !.state = "CONNECTED"]
      \/ /\ p.code = "more" /\ k.segment
         /\ \E packet \in {"PUT", "FINAL"} :
               l = [SendPacket(WithSrm(k, p), packet) EXCEPT !.segment = FALSE]
      \/ p.code = "more" /\ l = WithSrm(a, p)
  BY DEF PutResponse
<1> HIDE DEF a
<1>4. /\ k.writeMbuf = None /\ ow = <<>> /\ Len(in) = 1 /\ Answers(p, {"PUT", "FINAL"})
      /\ k.srm = "enabled" => st = "no" /\ Answers(p, {"FINAL"})
      /\ k.srm # "enabled" => st = IF p.srm THEN "on" ELSE "no"
  BY DEF Puts1, Quiet, Written, Owed, Answered1, Answers
<1> HIDE DEF p, t
<1>5. t = <<>> /\ Quiet(k, t, ow) /\ k.life = "alive" /\ ~k.crossed
  BY <1>1, <1>4 DEF Quiet, Live
<1>6. CASE p.code # "more" /\ l = [a EXCEPT !.state = "CONNECTED"]
  <2>1. /\ l \in Connection /\ l.state = "CONNECTED" /\ l.blocks = k.blocks /\ ~l.busy
        /\ l.abort = "NO_ABORT" /\ l.writeMbuf = k.writeMbuf /\ l.life = k.life
    BY <1>2, <1>6 DEF Connection, Same, States, Usable
  <2>2. st = "no"
    BY <1>4, <1>6 DEF Answers
  <2> QED
    BY <1>5, <2>1, <2>2, EndSound DEF t
<1>7. ASSUME p.code = "more" PROVE k.srm # "enabled" /\ st = IF p.srm THEN "on" ELSE "no"
  BY <1>4, <1>7, CodesAre DEF Answers
<1>8. ASSUME NEW packet \in {"PUT", "FINAL"}, p.code = "more",
             l = [SendPacket(WithSrm(k, p), packet) EXCEPT !.segment = FALSE]
      PROVE  l \in Connection /\ l.blocks = k.blocks /\ Sound(l, t, ow, st)
  <2> DEFINE w == WithSrm(k, p)
             s == SendPacket(w, packet)
  <2>1. /\ w \in Connection /\ w.life = k.life /\ w.state = k.state /\ w.abort = k.abort
        /\ w.busy = k.busy /\ w.writeMbuf = k.writeMbuf /\ w.blocks = k.blocks
        /\ w.crossed = k.crossed /\ w.srm = IF p.srm THEN "enabled" ELSE k.srm
    BY WithSrmIs DEF SrmSet
  <2> HIDE DEF w
  <2>2. Always(w, t, ow, st)
    BY <1>4, <1>5, <2>1 DEF Always
  <2>3. Quiet(w, t, ow) /\ MayFollow(w, packet, st)
    BY <1>5, <1>7, <1>8, <2>1 DEF Quiet, MayFollow
  <2>4. s \in Connection /\ s.blocks = w.blocks /\ Sound(s, t, ow, st)
    BY <2>1, <2>2, <2>3, SendSound DEF Requests
  <2>5. l = [s EXCEPT !.segment = FALSE]
    BY <1>8 DEF w
  <2> HIDE DEF s
  <2>6. l \in Connection /\ Still(s, l)
    BY <2>4, <2>5 DEF Connection, Still, Same
  <2>7. l.blocks = k.blocks
    BY <2>1, <2>4, <2>6 DEF Still
  <2> QED
    BY <2>4, <2>6, <2>7, StillSound
<1>9. CASE p.code = "more" /\ l = WithSrm(a, p)
  <2>1. /\ l \in Connection /\ l.life = k.life /\ l.state = k.state /\ l.abort = k.abort
        /\ ~l.busy /\ l.writeMbuf = k.writeMbuf /\ l.blocks = k.blocks
        /\ l.crossed = k.crossed /\ l.srm = IF p.srm THEN "enabled" ELSE k.srm
    <3>1. SrmSet(a, l, p)
      BY <1>2, <1>9, WithSrmIs
    <3> QED
      BY <1>2, <3>1 DEF SrmSet, Same
  <2>2. Always(l, t, ow, st)
    BY <1>4, <1>5, <2>1 DEF Always
  <2>3. Quiet(l, t, ow)
    BY <1>5, <2>1 DEF Quiet
  <2>4. Puts1(l, t, ow, st)
    BY <1>7, <1>9, <2>1, <2>3 DEF Puts1
  <2> QED
    BY <2>1, <2>2, <2>4 DEF Sound, Protocol, t
<1> QED
  BY <1>3, <1>6, <1>8, <1>9 DEF t

LEMMA AbortingSound ==
    ASSUME NEW k \in Connection, k.state = "ABORTING", Live(k),
           NEW in \in Seq(Packets), in # <<>>, NEW ow, NEW st, Aborts(k, in, ow, st),
           Always(k, in, ow, st), NEW l \in Aborting(k, in[1])
    PROVE  l \in Connection /\ Len(l.blocks) <= Len(k.blocks) /\ Sound(l, Tail(in), ow, st)
<1> DEFINE p == in[1]
           t == Tail(in)
<1>1. /\ Len(in) \in Nat \ {0} /\ Len(t) = Len(in) - 1
      /\ \A i \in 1 .. Len(t) : t[i] = in[i + 1] /\ i + 1 \in 1 .. Len(in)
      /\ Len(in) = 1 => t = <<>>
      /\ Len(in) # 1 => t # <<>> /\ t[Len(t)] = in[Len(in)]
  BY TailIs
<1>2. \/ p.code = "ok" /\ l = [AbortConfirm(k) EXCEPT !.crossed = p.to \in Puts]
      \/ p.code # "ok" /\ l = [k EXCEPT !.timeoutCB = TRUE]
  BY DEF Aborting, IsAbortResponse
<1> HIDE DEF t
<1>3. CASE p.code = "ok" /\ l = [AbortConfirm(k) EXCEPT !.crossed = p.to \in Puts]
  <2> DEFINE blocks == IF k.abortingState = "BULK_PUTTING" THEN <<>> ELSE k.blocks
             crossed == p.to \in Puts
             m == [k EXCEPT !.state = "CONNECTED", !.abort = "NO_ABORT", !.busy = FALSE,
                            !.blocks = blocks, !.waits = None, !.abortAsked = FALSE]
  <2>1. blocks \in Seq(Blocks) /\ Len(blocks) <= Len(k.blocks) /\ crossed \in BOOLEAN
    BY DEF Connection
  <2>2. AbortConfirm(k) = m
    BY DEF AbortConfirm
  <2> HIDE DEF blocks
  <2>3. /\ m \in Connection /\ m.state = "CONNECTED" /\ m.abort = "NO_ABORT" /\ ~m.busy
        /\ m.blocks = blocks /\ m.life = k.life /\ m.writeMbuf = k.writeMbuf
    BY <2>1 DEF Connection, States, Usable
  <2>4. l = [m EXCEPT !.crossed = crossed]
    BY <1>3, <2>2
  <2> HIDE DEF m, crossed
  <2>5. /\ l \in Connection /\ l.state = "CONNECTED" /\ l.abort = "NO_ABORT" /\ ~l.busy
        /\ l.blocks = blocks /\ l.life = k.life /\ l.writeMbuf = k.writeMbuf /\ l.crossed = crossed
    BY <2>1, <2>3, <2>4 DEF Connection
  <2>6. CASE crossed
    <3>1. Always(l, t, ow, st) /\ ~Live(l)
      BY <2>5, <2>6 DEF Always, Live
    <3> QED
      BY <2>1, <2>5, <3>1 DEF Sound, t
  <2>7. CASE ~crossed
    <3>1. 1 \in 1 .. Len(in) /\ p.to \notin Puts
      BY <1>1, <2>7 DEF crossed
    <3>2. ~LeftUnread(in, Len(in))
      BY <1>3, <3>1 DEF LeftUnread
    <3>3. /\ k.writeMbuf = None /\ ow = <<>> /\ st = "no" /\ LeftUnread(in, Len(in) - 1)
      BY <3>2 DEF Aborts
    <3>4. Len(in) = 1
      <4>1. 1 \notin 1 .. Len(in) - 1
        BY <1>3, <3>1, <3>3 DEF LeftUnread
      <4> QED
        BY <1>1, <4>1
    <3>5. Quiet(l, t, ow)
      BY <1>1, <2>5, <3>3, <3>4 DEF Quiet
    <3>6. Always(l, t, ow, st) /\ Idle(l, t, ow, st)
      BY <2>5, <2>7, <3>3, <3>5 DEF Always, Idle, Live, Quiet
    <3> QED
      BY <2>1, <2>5, <3>6 DEF Sound, Protocol, t
  <2> QED
    BY <2>6, <2>7
<1>4. CASE p.code # "ok" /\ l = [k EXCEPT !.timeoutCB = TRUE]
  <2>1. l \in Connection /\ Still(k, l)
    BY <1>4 DEF Connection, Still, Same
  <2>2. LeftUnread(in, Len(in)) => LeftUnread(t, Len(t))
    BY <1>1 DEF LeftUnread
  <2>3. ASSUME k.writeMbuf = None, ow = <<>>, in[Len(in)].to = "ABORT", in[Len(in)].code = "ok",
               st = "no", LeftUnread(in, Len(in) - 1)
        PROVE  Aborts(k, t, ow, st)
    <3>1. Len(in) # 1
      BY <1>4, <2>3
    <3>2. LeftUnread(t, Len(t) - 1)
      <4>1. \A i \in 1 .. Len(t) - 1 : i \in 1 .. Len(t) /\ i + 1 \in 1 .. Len(in) - 1
        BY <1>1
      <4> QED
        BY <1>1, <2>3, <4>1 DEF LeftUnread
    <3> QED
      BY <1>1, <2>3, <3>1, <3>2 DEF Aborts
  <2>4. Aborts(k, t, ow, st)
    BY <2>2, <2>3 DEF Aborts
  <2>5. Always(k, t, ow, st)
    BY DEF Always
  <2>6. Sound(k, t, ow, st)
    BY <2>4, <2>5 DEF Sound, Protocol
  <2>7. Sound(l, t, ow, st) /\ l.blocks = k.blocks /\ Len(k.blocks) \in Nat
    BY <2>1, <2>6, StillSound DEF Still, Connection
  <2> QED
    BY <2>1, <2>7 DEF t
<1> QED
  BY <1>2, <1>3, <1>4

LEMMA BulkPutResponseSound ==
    ASSUME NEW k \in Connection, k.state = "BULK_PUTTING", Live(k),
           NEW in \in Seq(Packets), in # <<>>, NEW ow \in Seq(Requests), NEW st,
           Sound(k, in, ow, st), NEW l \in BulkPutResponse(k, in[1])
    PROVE  l \in Connection /\ Len(l.blocks) <= Len(k.blocks) /\ Sound(l, Tail(in), ow, st)
<1> DEFINE p == in[1]
           t == Tail(in)
           busy == [k EXCEPT !.busy = TRUE]
           confirmed == ConfirmBulkPuts(busy, p.code = "more")
           ended == [Answered(confirmed) EXCEPT !.state = "CONNECTED",
                                                !.status = @ /\ confirmed.blocks = <<>>]
           failed == [k EXCEPT !.busy = TRUE, !.status = FALSE]
           free == FreeOf(confirmed)
<1>1. /\ t \in Seq(Packets) /\ Len(in) \in Nat \ {0} /\ (Len(in) = 1 => t = <<>>)
      /\ Len(t) = Len(in) - 1
      /\ \A i \in 1 .. Len(t) : t[i] = in[i + 1] /\ i + 1 \in 1 .. Len(in)
  BY TailIs
<1>2. CanConfirmAllBulkPuts(k) <=> NoneSent(k)
  BY DEF CanConfirmAllBulkPuts, NoneSent, Connection
<1>3. IF k.abort # "NO_ABORT" THEN l = (IF CanConfirmAllBulkPuts(k) THEN SendAbort(k) ELSE k)
      ELSE IF \/ p.code = "error"
              \/ p.code = "denied" /\ ~CanConfirmAllBulkPuts(k)
              \/ p.code = "more" /\ k.srm = "enabled"
      THEN l = FatalObexError(failed)
      ELSE IF p.code # "more" THEN l = ended
      ELSE l = SendBulk(free)
  BY DEF BulkPutResponse, FreeOf
<1>4. BulkPuts(k, in, ow, st) /\ Always(k, t, ow, st) /\ ~k.crossed /\ k.life = "alive"
  BY DEF Sound, Protocol, Always, Live
<1>5. /\ busy \in Connection /\ Same(k, busy) /\ busy.abort = k.abort /\ busy.busy
      /\ busy.writeMbuf = k.writeMbuf /\ busy.blocks = k.blocks
  BY DEF Connection, Same
<1>6. /\ failed \in Connection /\ Same(k, failed) /\ failed.abort = k.abort
      /\ failed.writeMbuf = k.writeMbuf /\ failed.blocks = k.blocks
  BY DEF Connection, Same
<1> HIDE DEF busy, failed
<1>7. /\ confirmed \in Connection /\ Same(busy, confirmed) /\ confirmed.abort = k.abort
      /\ confirmed.writeMbuf = k.writeMbuf /\ Len(confirmed.blocks) <= Len(k.blocks)
  BY <1>5, ConfirmBulkPutsIs
<1> HIDE DEF t
<1>8. Len(k.blocks) \in Nat
  BY DEF Connection
<1>9. CASE k.abort # "NO_ABORT" /\ NoneSent(k) /\ l = SendAbort(k)
  <2>1. LeftOwed(ow, Len(ow)) /\ LeftUnread(in, Len(in))
    BY LeftOfOperation DEF Sound
  <2>2. LeftUnread(t, Len(t))
    BY <1>1, <2>1 DEF LeftUnread
  <2>3. /\ SendAbort(k) \in Connection /\ SendAbort(k).blocks = k.blocks
        /\ Sound(SendAbort(k), t, ow, st)
    BY <1>4, <2>1, <2>2, SendAbortSound DEF InProgress
  <2> QED
    BY <1>8, <1>9, <2>3 DEF t
<1>10. CASE k.abort # "NO_ABORT" /\ ~NoneSent(k) /\ l = k
  <2>1. k.writeMbuf # None
    BY <1>4, <1>10 DEF BulkPuts
  <2>2. k.srm = "enabled" /\ st = "over" /\ ow = <<>> /\ Len(in) = 1
    BY <1>4, <2>1 DEF BulkPuts, Quiet, One, Written, Owed, Answered1
  <2>3. BulkPuts(k, t, ow, st)
    BY <1>1, <1>4, <2>2 DEF BulkPuts
  <2> QED
    BY <1>4, <1>8, <1>10, <2>3 DEF Sound, Protocol, t
<1>11. CASE l = FatalObexError(failed)
  <2>1. Always(failed, t, ow, st)
    BY <1>4, <1>6 DEF Always, Same, failed
  <2>2. /\ FatalObexError(failed) \in Connection /\ FatalObexError(failed).blocks = failed.blocks
        /\ Sound(FatalObexError(failed), t, ow, st)
    BY <1>6, <2>1, FatalSound
  <2> QED
    BY <1>6, <1>8, <1>11, <2>2 DEF t
<1>12. CASE /\ k.abort = "NO_ABORT" /\ p.code \notin {"more", "error"}
            /\ p.code = "denied" => NoneSent(k)
            /\ l = ended
  <2> DEFINE a == Answered(confirmed)
             status == a.status /\ confirmed.blocks = <<>>
  <2>1. /\ a \in Connection /\ Same(confirmed, a) /\ ~a.busy /\ a.abort = confirmed.abort
        /\ a.writeMbuf = confirmed.writeMbuf /\ a.blocks = confirmed.blocks
    BY <1>7, AnsweredIs
  <2>2. l = [a EXCEPT !.state = "CONNECTED", !.status = status] /\ status \in BOOLEAN
    BY <1>12
  <2> HIDE DEF a, status, confirmed
  <2>3. /\ l \in Connection /\ l.state = "CONNECTED" /\ ~l.busy /\ l.abort = a.abort
        /\ l.writeMbuf = a.writeMbuf /\ l.life = a.life /\ l.blocks = a.blocks
    BY <2>1, <2>2 DEF Connection, States, Usable
  <2>4. Quiet(k, t, ow) /\ st \in {"no", "over"}
    <3>1. CASE k.srm # "enabled"
      BY <1>1, <1>4, <3>1 DEF BulkPuts, Quiet, One, Written, Owed, Answered1
    <3>2. CASE k.srm = "enabled" /\ st = "no" /\ Answered1(k, in, ow, {"LAST"})
      BY <1>1, <3>2 DEF Quiet, Answered1
    <3>3. CASE k.srm = "enabled" /\ st = "over" /\ ow = <<>> /\ Len(in) = 1
               /\ in[1].code \in {"denied", "error"}
      <4>1. NoneSent(k)
        BY <1>12, <3>3
      <4>2. k.writeMbuf = None
        BY <1>4, <4>1 DEF BulkPuts
      <4> QED
        BY <1>1, <3>3, <4>2 DEF Quiet
    <3> QED
      BY <1>4, <3>1, <3>2, <3>3 DEF BulkPuts, Owed
  <2>5. /\ l.abort = "NO_ABORT" /\ l.writeMbuf = k.writeMbuf /\ l.life = k.life
        /\ l.blocks = confirmed.blocks
    BY <1>5, <1>7, <1>12, <2>1, <2>3 DEF Same
  <2>6. Sound(l, t, ow, st)
    BY <1>4, <1>12, <2>3, <2>4, <2>5, EndSound
  <2> QED
    BY <1>7, <2>3, <2>5, <2>6 DEF t
<1>13. CASE k.abort = "NO_ABORT" /\ k.srm # "enabled" /\ l = SendBulk(free)
  <2>1. Quiet(k, t, ow) /\ st = "no"
    BY <1>1, <1>4, <1>13 DEF BulkPuts, Quiet, One, Written, Owed, Answered1
  <2>2. Sound(busy, t, ow, st)
    <3>1. Always(busy, t, ow, st)
      BY <1>4, <1>5 DEF Always, Same
    <3>2. BulkPuts(busy, t, ow, st)
      <4>1. NoneSent(busy) <=> NoneSent(k)
        BY <1>5 DEF NoneSent
      <4> QED
        BY <1>4, <1>5, <1>13, <2>1, <4>1 DEF BulkPuts, Quiet, Same, None
    <3> QED
      BY <1>5, <3>1, <3>2 DEF Sound, Protocol, Same
  <2>3. Sound(confirmed, t, ow, st)
    BY <1>5, <2>1, <2>2, ConfirmBulkPutsSound DEF Same, Quiet
  <2> HIDE DEF confirmed
  <2>4. /\ free \in Connection /\ Same(confirmed, free) /\ free.abort = confirmed.abort /\ ~free.busy
        /\ free.writeMbuf = confirmed.writeMbuf /\ free.blocks = confirmed.blocks
    BY <1>7, FreeIs
  <2> HIDE DEF free
  <2>5. free.state = "BULK_PUTTING" /\ free.srm # "enabled" /\ free.writeMbuf = None
    BY <1>5, <1>7, <1>13, <2>1, <2>4 DEF Same, Quiet
  <2>6. Always(free, t, ow, st)
    BY <2>3, <2>4, <2>5 DEF Sound, Always, Same, Quiet
  <2>7. ASSUME Live(free) PROVE BulkPuts(free, t, ow, st)
    <3>1. BulkPuts(confirmed, t, ow, st)
      BY <2>3, <2>4, <2>5, <2>7 DEF Sound, Protocol, Live, Same
    <3>2. NoneSent(free) <=> NoneSent(confirmed)
      BY <2>4 DEF NoneSent
    <3> QED
      BY <2>1, <2>4, <2>5, <3>1, <3>2 DEF BulkPuts, Quiet, None
  <2>8. Sound(free, t, ow, st)
    BY <2>5, <2>6, <2>7 DEF Sound, Protocol
  <2>9. Sound(SendBulk(free), t, ow, st)
    BY <2>4, <2>5, <2>8, SendBulkSound
  <2>10. SendBulk(free) \in Connection /\ Len(SendBulk(free).blocks) = Len(free.blocks)
    BY <2>4, SendBulkIs
  <2> QED
    BY <1>7, <1>13, <2>4, <2>9, <2>10 DEF t
<1> HIDE DEF ended, free
<1> QED
  BY <1>2, <1>3, <1>9, <1>10, <1>11, <1>12, <1>13

LEMMA ConnectResponseSound ==
    ASSUME NEW k \in Connection, k.state = "LOWER_LAYER_CONNECTED", Live(k),
           NEW in \in Seq(Packets), in # <<>>, NEW ow, NEW st, Connects(k, in, ow, st),
           Always(k, Tail(in), ow, st), NEW l \in ConnectResponse(k, in[1])
    PROVE  l \in Connection /\ l.blocks = k.blocks /\ Sound(l, Tail(in), ow, st)
<1> DEFINE t == Tail(in)
           a == Answered(k)
<1>1. l \in {[a EXCEPT !.state = "CONNECTED"], [a EXCEPT !.challenged = TRUE], FatalObexError(k)}
  BY DEF ConnectResponse
<1>2. /\ a \in Connection /\ Same(k, a) /\ ~a.busy /\ a.abort = k.abort
      /\ a.writeMbuf = k.writeMbuf /\ a.blocks = k.blocks
  BY AnsweredIs
<1>3. Len(in) = 1 => t = <<>>
  BY TailIs
<1> HIDE DEF a, t
<1>4. Quiet(k, t, ow) /\ st = "no" /\ k.abort = "NO_ABORT" /\ k.life = "alive" /\ ~k.crossed
  BY <1>3 DEF Connects, One, Written, Owed, Answered1, Quiet, Live
<1>5. CASE l = [a EXCEPT !.state = "CONNECTED"]
  <2>1. /\ l \in Connection /\ l.state = "CONNECTED" /\ ~l.busy /\ l.abort = "NO_ABORT"
        /\ l.writeMbuf = k.writeMbuf /\ l.life = k.life /\ l.blocks = k.blocks
    BY <1>2, <1>4, <1>5 DEF Connection, Same, States, Usable
  <2> QED
    BY <1>4, <2>1, EndSound DEF t
<1>6. CASE l = [a EXCEPT !.challenged = TRUE]
  <2>1. /\ l \in Connection /\ l.state = k.state /\ ~l.busy /\ l.abort = k.abort
        /\ l.writeMbuf = k.writeMbuf /\ l.life = k.life /\ l.blocks = k.blocks /\ l.crossed = k.crossed
    BY <1>2, <1>6 DEF Connection, Same
  <2> QED
    BY <1>4, <2>1 DEF Sound, Always, Protocol, Connects, Quiet, t
<1>7. CASE l = FatalObexError(k)
  BY <1>7, FatalSound
<1> QED
  BY <1>1, <1>5, <1>6, <1>7

(* LowerRecvDataInd, whatever the state.                                      *)
LEMMA ResponseSound ==
    ASSUME NEW k \in Connection, k.life = "alive",
           NEW in \in Seq(Packets), in # <<>>, NEW ow \in Seq(Requests), NEW st,
           Sound(k, in, ow, st), NEW l \in Response(k, in[1])
    PROVE  l \in Connection /\ Len(l.blocks) <= Len(k.blocks) /\ Sound(l, Tail(in), ow, st)
<1> DEFINE p == in[1]
           t == Tail(in)
<1>1. Always(k, t, ow, st) /\ Len(k.blocks) \in Nat
  BY DEF Sound, Always, Quiet, Connection
<1>2. \A m : m \in Connection /\ m.blocks = k.blocks => Len(m.blocks) <= Len(k.blocks)
  BY <1>1
<1>3. CASE k.disconnectingLowerLayer
  <2>1. l = k
    BY <1>3 DEF Response
  <2> QED
    BY <1>1, <1>3, <2>1 DEF Sound, Live
<1>4. CASE /\ ~k.disconnectingLowerLayer
           /\ k.state \in {"CONNECTED", "DISCONNECTING", "INVALID_CONNECTION", "LOWER_LAYER_CONNECTING"}
  <2>1. l = FatalObexError(k)
    BY <1>4 DEF Response
  <2> QED
    BY <1>1, <1>2, <2>1, FatalSound
<1>5. CASE /\ ~k.disconnectingLowerLayer
           /\ k.state \notin {"CONNECTED", "DISCONNECTING", "INVALID_CONNECTION",
                              "LOWER_LAYER_CONNECTING"}
  <2>1. Live(k) /\ Protocol(k, in, ow, st) /\ ~k.crossed
    BY <1>5 DEF Sound, Always, Live
  <2>2. CASE k.state = "LOWER_LAYER_CONNECTED"
    <3>1. l \in ConnectResponse(k, p) /\ Connects(k, in, ow, st)
      BY <1>5, <2>1, <2>2 DEF Response, Protocol
    <3> QED
      BY <1>1, <1>2, <2>1, <2>2, <3>1, ConnectResponseSound
  <2>3. CASE k.state = "BULK_PUTTING"
    <3>1. l \in BulkPutResponse(k, p)
      BY <1>5, <2>3 DEF Response
    <3> QED
      BY <2>1, <2>3, <3>1, BulkPutResponseSound
  <2>4. CASE k.state \in {"PUTTING", "GETTING"} /\ k.abort # "NO_ABORT"
    <3>1. l = SendAbort(k)
      BY <1>5, <2>4 DEF Response
    <3>2. LeftOwed(ow, Len(ow)) /\ LeftUnread(in, Len(in))
      BY <2>1, <2>4, LeftOfOperation
    <3>3. LeftUnread(t, Len(t))
      BY <3>2, TailIs DEF LeftUnread
    <3>4. /\ SendAbort(k) \in Connection /\ SendAbort(k).blocks = k.blocks
          /\ Sound(SendAbort(k), t, ow, st)
      BY <1>1, <2>4, <3>2, <3>3, SendAbortSound DEF InProgress
    <3> QED
      BY <1>2, <3>1, <3>4
  <2>5. CASE k.state = "PUTTING" /\ k.abort = "NO_ABORT"
    <3>1. l \in PutResponse(k, p) /\ Puts1(k, in, ow, st)
      BY <1>5, <2>1, <2>5 DEF Response, Protocol
    <3> QED
      BY <1>2, <2>1, <2>5, <3>1, PutResponseSound
  <2>6. CASE k.state = "GETTING" /\ k.abort = "NO_ABORT"
    <3>1. l \in GetResponse(k, p) /\ Gets(k, in, ow, st)
      BY <1>5, <2>1, <2>6 DEF Response, Protocol
    <3> QED
      BY <1>2, <2>1, <2>6, <3>1, GetResponseSound
  <2>7. CASE k.state \in {"SETTING_PATH", "DO_ACTION"}
    <3> DEFINE a == Answered(k)
    <3>1. l = [a EXCEPT !.state = "CONNECTED"]
      BY <1>5, <2>7 DEF Response
    <3>2. /\ a \in Connection /\ Same(k, a) /\ ~a.busy /\ a.abort = k.abort
          /\ a.writeMbuf = k.writeMbuf /\ a.blocks = k.blocks
      BY AnsweredIs
    <3> HIDE DEF a
    <3>3. Simple(k, in, ow, st) /\ k.abort = "NO_ABORT"
      BY <2>1, <2>7 DEF Protocol, Simple
    <3>4. /\ l \in Connection /\ l.state = "CONNECTED" /\ ~l.busy /\ l.abort = "NO_ABORT"
          /\ l.writeMbuf = k.writeMbuf /\ l.life = k.life /\ l.blocks = k.blocks
      BY <3>1, <3>2, <3>3 DEF Connection, Same, States, Usable
    <3>5. Quiet(k, t, ow) /\ st = "no"
      BY <3>3, TailIs DEF Simple, Fresh, One, Written, Owed, Answered1, Quiet
    <3>6. Sound(l, t, ow, st)
      BY <2>1, <3>3, <3>4, <3>5, EndSound
    <3> QED
      BY <1>2, <3>4, <3>6
  <2>8. CASE k.state = "ABORTING"
    <3>1. l \in Aborting(k, p) /\ Aborts(k, in, ow, st)
      BY <1>5, <2>1, <2>8 DEF Response, Protocol
    <3> QED
      BY <2>1, <2>8, <3>1, AbortingSound DEF Sound
  <2> QED
    BY <1>5, <2>2, <2>3, <2>4, <2>5, <2>6, <2>7, <2>8 DEF Connection, States, Usable, InProgress
<1> QED
  BY <1>3, <1>4, <1>5

LEMMA RecvDataSound == ASSUME IInv, LowerTransportRecvDataInd PROVE IInv'
<1> DEFINE k == [c EXCEPT !.timeoutCB = FALSE]
<1>0. /\ c \in Connection /\ Len(c.blocks) <= MaxBlocks /\ Sound(c, inbound, owed, stream) /\ Typed
      /\ inbound \in Seq(Packets) /\ owed \in Seq(Requests) /\ Len(inbound) <= MaxInbound
  BY DEF IInv, Typed
<1>1. /\ c.life = "alive" /\ inbound # <<>> /\ inbound' = Tail(inbound)
      /\ UNCHANGED <<owed, stream>> /\ c' \in Response(k, Head(inbound))
  BY DEF LowerTransportRecvDataInd
<1>2. k \in Connection /\ Still(c, k)
  BY <1>0 DEF Connection, Still, Same
<1> HIDE DEF k
<1>3. Sound(k, inbound, owed, stream) /\ k.life = "alive" /\ k.blocks = c.blocks
  BY <1>0, <1>1, <1>2, StillSound DEF Still, Same
<1>4. /\ Head(inbound) = inbound[1] /\ Tail(inbound) \in Seq(Packets)
      /\ Len(inbound) \in Nat /\ Len(Tail(inbound)) = Len(inbound) - 1
  BY <1>0, <1>1, TailIs
<1>5. c' \in Response(k, inbound[1])
  BY <1>1, <1>4
<1>6. c' \in Connection /\ Len(c'.blocks) <= Len(k.blocks) /\ Sound(c', Tail(inbound), owed, stream)
  BY <1>0, <1>1, <1>2, <1>3, <1>5, ResponseSound
<1>7. Len(c'.blocks) \in Nat /\ Len(c.blocks) \in Nat /\ MaxBlocks \in Nat /\ MaxInbound \in Nat
  BY <1>0, <1>6, ObexAssumption DEF Connection
<1>8. Len(c'.blocks) <= MaxBlocks
  BY <1>0, <1>3, <1>6, <1>7
<1>9. Len(Tail(inbound)) <= MaxInbound
  BY <1>0, <1>4, <1>7
<1>10. Typed'
  BY <1>0, <1>1, <1>4, <1>6, <1>8, <1>9 DEF Typed
<1>11. Sound(c, inbound, owed, stream)'
  BY <1>1, <1>6
<1> QED
  BY <1>10, <1>11 DEF IInv

-----------------------------------------------------------------------------
LEMMA NextSound == ASSUME IInv, [Next]_vars PROVE IInv'
<1>1. CASE UpperLayer
  <2>1. CASE OI_OBEXCLI_Connect
    BY <2>1, ConnectSound
  <2>2. CASE OI_OBEXCLI_Authentication
    BY <2>2, AuthenticationSound
  <2>3. CASE OI_OBEXCLI_Get
    BY <2>3, GetSound
  <2>4. CASE OI_OBEXCLI_Put
    BY <2>4, PutSound
  <2>5. CASE PutTerminates
    BY <2>5, PutTerminatesSound
  <2>6. CASE OI_OBEXCLI_BulkPut
    BY <2>6, BulkPutSound
  <2>7. CASE BulkPutTerminates
    BY <2>7, BulkPutTerminatesSound
  <2>8. ASSUME NEW s \in {"SETTING_PATH", "DO_ACTION"}, SimpleRequest(s) PROVE IInv'
    BY <2>8, SimpleRequestSound
  <2>9. CASE OI_OBEXCLI_Abort
    BY <2>9, UserAbortSound
  <2>10. CASE OI_OBEXCLI_Disconnect
    BY <2>10, DisconnectSound
  <2> QED
    BY <1>1, <2>1, <2>2, <2>3, <2>4, <2>5, <2>6, <2>7, <2>8, <2>9, <2>10 DEF UpperLayer
<1>2. CASE SocketThread
  <2>1. CASE LowerTransportConnectCfm
    BY <2>1, ConnectCfmSound
  <2>2. CASE LowerTransportSendMbuf
    BY <2>2, SendMbufSound
  <2>3. CASE LowerTransportRecvDataInd
    BY <2>3, RecvDataSound
  <2>4. CASE LowerTransportDisconnectInd
    BY <2>4, FreeSound DEF LowerTransportDisconnectInd
  <2> QED
    BY <1>2, <2>1, <2>2, <2>3, <2>4 DEF SocketThread
<1>3. CASE Dispatcher
  BY <1>3, DispatcherSound
<1>4. CASE ServerAnswers
  BY <1>4, ServerAnswersSound
<1>5. CASE ServerGivesUp
  BY <1>5, ServerGivesUpSound
<1>6. CASE UNCHANGED vars
  <2>1. c' = c /\ inbound' = inbound /\ owed' = owed /\ stream' = stream
    BY <1>6 DEF vars
  <2> QED
    BY <2>1 DEF IInv, Typed
<1> QED
  BY <1>1, <1>2, <1>3, <1>4, <1>5, <1>6 DEF Next

(* In every state the requests of the connection, with what the server owes   *)
(* and what is unread, are those its state of obexcli.c allows.               *)
THEOREM SpecIInv == Spec => []IInv
<1>1. Init => IInv
  BY InitSound
<1>2. IInv /\ [Next]_vars => IInv'
  BY NextSound
<1> QED
  BY <1>1, <1>2, PTL DEF Spec

LEMMA IInvIsQuiet == IInv => QuietWire
<1> SUFFICES ASSUME IInv PROVE QuietWire
  OBVIOUS
<1>1. c \in Connection /\ Len(c.blocks) <= MaxBlocks /\ Sound(c, inbound, owed, stream)
      /\ Len(inbound) <= MaxInbound
  BY DEF IInv, Typed
<1>2. TypeOK
  <2>1. \A i \in DOMAIN c.blocks : c.blocks[i] \in Blocks
    BY <1>1 DEF Connection
  <2> QED
    BY <1>1, <2>1 DEF TypeOK, Connection, States, Blocks
<1>3. ~c.busy /\ ~c.crossed => c.writeMbuf = None
  BY <1>1 DEF Sound, Always
<1>4. ASSUME c.state = "CONNECTED", ~c.disconnectingLowerLayer, ~c.crossed
      PROVE  owed = <<>> /\ inbound = <<>>
  <2>1. Live(c)
    BY <1>1, <1>4 DEF Sound, Always, Live
  <2> QED
    BY <1>1, <1>4, <2>1 DEF Sound, Protocol, Idle, Quiet
<1> QED
  BY <1>2, <1>3, <1>4 DEF QuietWire

(* LowerRecvDataInd goes by the state alone: when the client may start the     *)
(* next operation no response to the last one is owed or unread, whatever was  *)
(* aborted, streamed or ended early, for any number of blocks and packets; and *)
(* LowerWrite never refuses a request of an operation that goes on.            *)
THEOREM SpecQuietWire == Spec => []QuietWire
  BY SpecIInv, IInvIsQuiet, PTL
=============================================================================
