------------------------------ MODULE ObexClient ------------------------------
(***************************************************************************)
(* One connection of the OBEX client (obex_profiles/profiles/obex/obexcli.c)  *)
(* on the sockets of obex_lower_socket.c: connecting with authentication,     *)
(* GET, PUT, bulk PUT, SETPATH and ACTION, the abort of an operation, the      *)
(* response timeout and the ways in which the connection ends.                *)
(*                                                                          *)
(* Three kinds of threads enter the code, one at a time (they hold the token  *)
(* of oi_wrapper.c): the socket thread, the dispatcher that runs timers and   *)
(* deferred functions, and the callers of the API.  A handler with the         *)
(* callbacks it makes is one step.                                          *)
(*                                                                          *)
(* Left out: headers and bodies, the parameters of single response mode       *)
(* (SRM) that suspend it, memory that runs out, and calls that the upper       *)
(* layer makes in the callbacks of FreeConnection.  A block of a bulk PUT      *)
(* fills one packet.  What follows an abort that was confirmed by the response *)
(* to a PUT is not followed (crossed).                                      *)
(***************************************************************************)
EXTENDS Naturals, Sequences, FiniteSets

CONSTANTS
    MaxBlocks,  \* bound of the blocks of a bulk PUT that are not yet confirmed
    MaxInbound  \* bound of the packets of the server on their way

ASSUME ObexAssumption == MaxBlocks \in Nat \ {0} /\ MaxInbound \in Nat \ {0}

VARIABLES
    c,        \* OBEXCLI_CONNECTION with what it points to, see Closed
    inbound,  \* external: packets of the server that are not yet read
    owed,     \* external: requests the server has not answered
    stream    \* external: SRM at the server, see ServerReads

vars == <<c, inbound, owed, stream>>

None == "none"

(* No connection.  waits and abortAsked are history: the upper layer waits    *)
(* for a callback ("odd" or "even", in turn, for the next one of a bulk PUT),  *)
(* or for that of its abort; crossed, an abort was confirmed by the response   *)
(* to a PUT.                                                                *)
Closed ==
    [life |-> "none",      \* or "alive", or "crashed": freed memory is used
     state |-> "INVALID_CONNECTION",
     abort |-> "NO_ABORT", abortingState |-> "INVALID_CONNECTION",
     busy |-> FALSE,
     srm |-> "no",         \* or "supported", "enabled"
     timeoutCB |-> FALSE,  \* the timer is registered
     challenged |-> FALSE, \* the upper layer is asked for a password
     segment |-> FALSE,    \* bodySegment: the PUT needs one more packet
     blocks |-> <<>>,      \* bulkPut.head: "queued", "sent" or "confirmed"
     final |-> FALSE,      \* the last of the blocks is final
     status |-> TRUE,      \* bulkPut.status is OI_OK
     disconnectingLowerLayer |-> FALSE,
     writeMbuf |-> None,   \* the packet to be written
     deferred |-> 0,       \* calls of the dispatcher to disconnect; 2 is more than one
     error |-> FALSE,      \* CommandError is registered
     waits |-> None, abortAsked |-> FALSE, crossed |-> FALSE]

Init == c = Closed /\ inbound = <<>> /\ owed = <<>> /\ stream = "no"

Waiting(w) == IF w = None THEN "odd" ELSE w
Other(w) == IF w = "odd" THEN "even" ELSE "odd"

Puts == {"PUT", "BULK", "FINAL", "LAST"}
InProgress == {"GETTING", "PUTTING", "SETTING_PATH", "BULK_PUTTING", "DO_ACTION"}
Usable == InProgress \union {"CONNECTED", "ABORTING"}   \* state >= OBEX_CONNECTED

-----------------------------------------------------------------------------
(* Sending and failing, as functions of the connection.                     *)

(* A disconnect request is sent without a timer.                             *)
SendPacket(k, packet) ==
    [k EXCEPT !.writeMbuf = packet, !.timeoutCB = @ \/ packet # "DISCONNECT",
              !.busy = TRUE]

FatalObexError(k) ==
    [k EXCEPT !.abort = "NO_ABORT", !.disconnectingLowerLayer = TRUE,
              !.deferred = IF @ = 0 THEN 1 ELSE 2]

SendAbort(k) ==
    LET aborting == [k EXCEPT !.abortingState = k.state, !.state = "ABORTING", !.busy = TRUE]
    IN  IF k.abort = "ABORT_SENT" \/ k.state \notin InProgress THEN k
        ELSE IF k.writeMbuf # None THEN FatalObexError(aborting)
        ELSE [SendPacket(aborting, "ABORT") EXCEPT !.abort = "ABORT_SENT"]

AbortConfirm(k) ==
    [k EXCEPT !.state = "CONNECTED", !.abort = "NO_ABORT", !.busy = FALSE,
              !.blocks = IF k.abortingState = "BULK_PUTTING" THEN <<>> ELSE @,
              !.waits = None, !.abortAsked = FALSE]

CanConfirmAllBulkPuts(k) == \A i \in DOMAIN k.blocks : k.blocks[i] # "sent"

(* The blocks that are confirmed go back to the upper layer; a final one      *)
(* only with an end of the operation.                                       *)
ConfirmBulkPuts(k, goesOn) ==
    LET stays == {i \in DOMAIN k.blocks :
                    \/ k.blocks[i] # "confirmed"
                    \/ goesOn /\ k.final /\ i = Len(k.blocks)}
        left == IF stays = {} THEN <<>>
                ELSE SubSeq(k.blocks, CHOOSE i \in stays : \A j \in stays : i <= j,
                            Len(k.blocks))
    IN  [k EXCEPT !.blocks = left, !.waits = IF left = <<>> THEN None
                                   ELSE IF Len(left) < Len(k.blocks) THEN Other(@) ELSE @]

SendBulk(k) ==
    LET queued == {i \in DOMAIN k.blocks : k.blocks[i] = "queued"}
        next == CHOOSE i \in queued : \A j \in queued : i <= j
        isFinal == k.final /\ next = Len(k.blocks)
        timed == isFinal \/ k.srm # "enabled"
    IN  IF k.blocks = <<>> THEN k
        ELSE IF queued = {} THEN [k EXCEPT !.timeoutCB = @ \/ k.srm # "enabled"]
        ELSE [k EXCEPT !.blocks[next] = "sent", !.busy = TRUE,
                       !.writeMbuf = IF isFinal THEN "LAST" ELSE "BULK",
                       !.timeoutCB = @ \/ timed]

(* The end of the connection.  A second deferred disconnect and an error that *)
(* is to be reported remain with the dispatcher and use the freed memory.     *)
FreeConnection(k) ==
    /\ c' = IF k.deferred = 2 \/ k.error THEN [Closed EXCEPT !.life = "crashed"] ELSE Closed
    /\ inbound' = <<>> /\ owed' = <<>> /\ stream' = "no"

-----------------------------------------------------------------------------
(* The upper layer.                                                         *)

Calls(states) ==
    /\ c.life = "alive" /\ ~c.crossed /\ c.state \in states
    /\ UNCHANGED <<inbound, owed, stream>>

(* No packet is being written then (QuietWire), so that none is refused.      *)
MaySend == ~c.busy

OI_OBEXCLI_Connect ==
    /\ c.life = "none"
    /\ \E srm \in {"no", "supported"} :
        c' = [Closed EXCEPT !.life = "alive", !.state = "LOWER_LAYER_CONNECTING",
                            !.srm = srm, !.waits = Waiting(@)]
    /\ UNCHANGED <<inbound, owed, stream>>

(* Without a password the attempt is given up, by a deferred call.           *)
OI_OBEXCLI_Authentication ==
    /\ Calls({"LOWER_LAYER_CONNECTED"}) /\ c.challenged /\ MaySend
    /\ LET answers == [c EXCEPT !.challenged = FALSE, !.waits = Waiting(@)]
       IN  c' \in {SendPacket(answers, "CONNECT"), [answers EXCEPT !.error = TRUE]}

(* A new operation starts without SRM.                                      *)
Starts(k, state) ==
    IF k.state # "CONNECTED" THEN k
    ELSE [k EXCEPT !.state = state, !.srm = IF @ = "enabled" THEN "supported" ELSE @]

OI_OBEXCLI_Get ==
    /\ Calls({"CONNECTED", "GETTING"}) /\ ~c.busy /\ c.abort = "NO_ABORT"
    /\ IF c.state = "GETTING" /\ c.srm = "enabled"
       THEN c' = [c EXCEPT !.timeoutCB = TRUE, !.waits = Waiting(@)]
       ELSE /\ MaySend
            /\ c' = [SendPacket(Starts(c, "GETTING"), "GET") EXCEPT !.waits = Waiting(@)]

OI_OBEXCLI_Put ==
    /\ Calls({"CONNECTED", "PUTTING"}) /\ MaySend /\ c.abort = "NO_ABORT"
    /\ \E packet \in {"PUT", "FINAL"}, segment \in BOOLEAN :
        /\ segment => packet = "PUT"
        /\ c' = [SendPacket(Starts(c, "PUTTING"), packet)
                    EXCEPT !.segment = segment, !.waits = Waiting(@)]

(* Put with an error status.                                                *)
PutTerminates ==
    /\ Calls({"PUTTING"}) /\ ~c.busy /\ c.abort = "NO_ABORT"
    /\ c' = [SendAbort(c) EXCEPT !.waits = Waiting(@)]

Bulk(k) == IF k.state # "PUTTING" THEN k
           ELSE [k EXCEPT !.state = "BULK_PUTTING", !.blocks = <<>>,
                          !.final = FALSE, !.status = TRUE]

BulkPutAllowed ==
    /\ c.abort = "NO_ABORT"
    /\ c.state = "PUTTING" => ~c.busy

OI_OBEXCLI_BulkPut ==
    /\ Calls({"PUTTING", "BULK_PUTTING"}) /\ BulkPutAllowed
    /\ c.state = "BULK_PUTTING" => ~c.final /\ Len(c.blocks) < MaxBlocks
    /\ \E final \in BOOLEAN :
        LET put == [Bulk(c) EXCEPT !.blocks = Append(@, "queued"), !.final = final,
                                   !.waits = Waiting(@)]
        IN  c' = IF c.busy THEN put ELSE SendBulk(put)

(* BulkPut with an error status.                                            *)
BulkPutTerminates ==
    /\ Calls({"PUTTING", "BULK_PUTTING"}) /\ BulkPutAllowed
    /\ LET put == [Bulk(c) EXCEPT !.abort = "ABORT_PENDING", !.status = FALSE, !.waits = Waiting(@)]
       IN  c' = IF CanConfirmAllBulkPuts(put) THEN SendAbort(put) ELSE put

(* SETPATH and ACTION.                                                      *)
SimpleRequest(state) ==
    /\ Calls({"CONNECTED"}) /\ MaySend
    /\ c' = [SendPacket([c EXCEPT !.state = state], state) EXCEPT !.waits = Waiting(@)]

OI_OBEXCLI_Abort ==
    /\ Calls({"GETTING", "PUTTING", "BULK_PUTTING"})
    /\ c' = [IF c.busy THEN [c EXCEPT !.abort = "ABORT_PENDING"] ELSE SendAbort(c)
                EXCEPT !.abortAsked = TRUE]

(* During an operation the lower layer is disconnected at once.              *)
OI_OBEXCLI_Disconnect ==
    /\ Calls(Usable)
    /\ c' = IF c.state # "CONNECTED" \/ c.writeMbuf # None THEN FatalObexError(c)
            ELSE [SendPacket(c, "DISCONNECT") EXCEPT !.state = "DISCONNECTING"]

UpperLayer ==
    \/ OI_OBEXCLI_Connect \/ OI_OBEXCLI_Authentication
    \/ OI_OBEXCLI_Get \/ OI_OBEXCLI_Put \/ PutTerminates
    \/ OI_OBEXCLI_BulkPut \/ BulkPutTerminates
    \/ \E s \in {"SETTING_PATH", "DO_ACTION"} : SimpleRequest(s)
    \/ OI_OBEXCLI_Abort \/ OI_OBEXCLI_Disconnect

-----------------------------------------------------------------------------
(* Responses of the server, as the connections they may lead to.             *)

Answered(k) == [k EXCEPT !.busy = FALSE, !.waits = None]

WithSrm(k, p) == IF p.srm THEN [k EXCEPT !.srm = "enabled"] ELSE k

(* A server that is not satisfied challenges the client, and the upper layer  *)
(* is asked for a password if it has enabled authentication.                 *)
ConnectResponse(k, p) ==
    CASE p.code = "ok" -> {[Answered(k) EXCEPT !.state = "CONNECTED"]}
      [] p.code = "challenge" -> {[Answered(k) EXCEPT !.challenged = TRUE], FatalObexError(k)}
      [] OTHER -> {FatalObexError(k)}

GetResponse(k, p) ==
    {WithSrm([Answered(k) EXCEPT !.state = IF p.code = "more" THEN @ ELSE "CONNECTED"], p)}

(* A body that did not fit in the packet goes on in the next.                 *)
PutResponse(k, p) ==
    IF p.code # "more" THEN {[Answered(k) EXCEPT !.state = "CONNECTED"]}
    ELSE IF k.segment
         THEN {[SendPacket(WithSrm(k, p), packet) EXCEPT !.segment = FALSE] :
                  packet \in {"PUT", "FINAL"}}
         ELSE {WithSrm(Answered(k), p)}

(* Blocks that are left when the server ends the operation are forgotten: the *)
(* upper layer hears of an error, with the blocks that are confirmed.         *)
BulkPutResponse(k, p) ==
    LET confirmed == ConfirmBulkPuts([k EXCEPT !.busy = TRUE], p.code = "more")
        ended == [Answered(confirmed) EXCEPT
                     !.state = "CONNECTED",
                     !.status = @ /\ confirmed.blocks = <<>>]
    IN  IF k.abort # "NO_ABORT"
        THEN {IF CanConfirmAllBulkPuts(k) THEN SendAbort(k) ELSE k}
        ELSE IF \/ p.code = "error"
                \/ p.code = "denied" /\ ~CanConfirmAllBulkPuts(k)
                \/ p.code = "more" /\ k.srm = "enabled"
        THEN {FatalObexError([k EXCEPT !.busy = TRUE, !.status = FALSE])}
        ELSE IF p.code # "more" THEN {ended}
        ELSE {SendBulk([confirmed EXCEPT !.busy = FALSE])}

(* Defect for QuietWire: the length of the response is not compared.          *)
IsAbortResponseAny(p) == p.code \in {"ok", "okdata"}

(* Of an abort: an OK without headers.                                      *)
IsAbortResponse(p) == p.code = "ok"


(* What comes in while aborting is discarded, and the timer set anew.         *)
Aborting(k, p) ==
    {IF IsAbortResponse(p) THEN [AbortConfirm(k) EXCEPT !.crossed = p.to \in Puts]
     ELSE [k EXCEPT !.timeoutCB = TRUE]}

Response(k, p) ==
    IF k.disconnectingLowerLayer THEN {k}
    ELSE IF k.state \in {"PUTTING", "GETTING"} /\ k.abort # "NO_ABORT" THEN {SendAbort(k)}
    ELSE CASE k.state = "LOWER_LAYER_CONNECTED" -> ConnectResponse(k, p)
           [] k.state = "BULK_PUTTING" -> BulkPutResponse(k, p)
           [] k.state = "PUTTING" -> PutResponse(k, p)
           [] k.state = "GETTING" -> GetResponse(k, p)
           [] k.state \in {"SETTING_PATH", "DO_ACTION"} ->
                 {[Answered(k) EXCEPT !.state = "CONNECTED"]}
           [] k.state = "ABORTING" -> Aborting(k, p)
           [] OTHER -> {FatalObexError(k)}

-----------------------------------------------------------------------------
(* The socket thread.                                                       *)

(* All that was sent is now confirmed.  An error, that of an abort too, waits *)
(* for this.                                                                *)
BulkPutWriteCfm(k, ok) ==
    LET sent == [k EXCEPT !.blocks = [i \in DOMAIN @ |->
                                        IF @[i] = "sent" THEN "confirmed" ELSE @[i]],
                          !.status = @ /\ ok /\ k.abort = "NO_ABORT"]
    IN  IF ~sent.status
        THEN IF k.abort # "NO_ABORT" THEN SendAbort(sent) ELSE FatalObexError(sent)
        ELSE IF k.srm # "enabled" THEN sent
        ELSE SendBulk([ConfirmBulkPuts(sent, TRUE) EXCEPT !.busy = FALSE])

LowerWriteCfm(k, ok) ==
    IF k.state = "BULK_PUTTING" THEN BulkPutWriteCfm(k, ok)
    ELSE IF ok THEN k ELSE FatalObexError(k)

(* External: what the server does with a packet.  stream is "on" when it has  *)
(* enabled SRM for the operation and "bulk" when a block has come since; then *)
(* it answers no PUT but the final one.  It is "over" when it has ended the    *)
(* operation unasked, and ignores the rest.  An abort ends a GET in SRM.       *)
ServerReads(packet) ==
    LET ofBulk == packet \in {"BULK", "LAST"}
        streaming == stream \in {"on", "bulk"}
    IN  /\ owed' = IF \/ streaming /\ packet \in {"PUT", "BULK"}
                      \/ stream = "over" /\ ofBulk
                   THEN owed
                   ELSE IF streaming /\ packet = "ABORT" /\ owed = <<"GET">>
                   THEN <<"ABORT">>
                   ELSE Append(owed, packet)
        /\ stream' = IF packet = "ABORT" \/ (stream = "over" /\ ~ofBulk) THEN "no"
                     ELSE IF stream = "on" /\ packet = "BULK" THEN "bulk"
                     ELSE stream

(* The lower link is established, or not.  The upper layer may require        *)
(* authentication.                                                          *)
LowerTransportConnectCfm ==
    /\ c.life = "alive" /\ c.state = "LOWER_LAYER_CONNECTING"
    /\ LET up == [c EXCEPT !.state = "LOWER_LAYER_CONNECTED"]
       IN  \/ /\ c' \in {SendPacket(up, "CONNECT"), [Answered(up) EXCEPT !.challenged = TRUE]}
              /\ UNCHANGED <<inbound, owed, stream>>
           \/ FreeConnection(c)

LowerTransportSendMbuf ==
    /\ c.life = "alive" /\ c.writeMbuf # None
    /\ UNCHANGED inbound
    /\ LET written == [c EXCEPT !.writeMbuf = None]
       IN  \/ c' = LowerWriteCfm(written, TRUE) /\ ServerReads(c.writeMbuf)
           \/ c' = LowerWriteCfm(written, FALSE) /\ UNCHANGED <<owed, stream>>

LowerTransportRecvDataInd ==
    /\ c.life = "alive" /\ inbound # <<>>
    /\ c' \in Response([c EXCEPT !.timeoutCB = FALSE], Head(inbound))
    /\ inbound' = Tail(inbound)
    /\ UNCHANGED <<owed, stream>>

(* The socket reports the end of the link; its deferred end is cancelled.     *)
LowerTransportDisconnectInd ==
    /\ c.life = "alive" /\ c.state # "LOWER_LAYER_CONNECTING"
    /\ FreeConnection(c)

-----------------------------------------------------------------------------
(* The dispatcher.                                                          *)

ResponseTimeout ==
    /\ c.life = "alive" /\ c.timeoutCB
    /\ c' = FatalObexError([c EXCEPT !.timeoutCB = FALSE])
    /\ UNCHANGED <<inbound, owed, stream>>

CommandError ==
    /\ c.life = "alive" /\ c.error
    /\ c' = FatalObexError([c EXCEPT !.error = FALSE])
    /\ UNCHANGED <<inbound, owed, stream>>

DeferredLowerTransportDisconnectInd ==
    /\ c.life = "alive" /\ c.deferred > 0
    /\ FreeConnection(c)

-----------------------------------------------------------------------------
(* External: the server.                                                    *)

Codes(request) ==
    CASE request = "CONNECT" -> {"ok", "challenge", "error"}
      [] request = "GET" -> {"more", "okdata", "error"}
      [] request \in {"PUT", "BULK"} -> {"more", "ok", "denied", "error"}
      [] request \in {"FINAL", "LAST"} -> {"ok", "denied", "error"}
      [] request = "ABORT" -> {"ok"}
      [] OTHER -> {"ok", "error"}

(* SRM is enabled in a response of an operation that goes on.  A GET in SRM   *)
(* goes on by itself.                                                       *)
ServerAnswers ==
    /\ owed # <<>> /\ Len(inbound) < MaxInbound
    /\ \E code \in Codes(Head(owed)), srm \in BOOLEAN :
        LET goesOn == Head(owed) = "GET" /\ code = "more" /\ (stream = "on" \/ srm)
        IN  /\ srm => /\ c.srm # "no" /\ stream = "no"
                      /\ Head(owed) \in {"GET", "PUT"} /\ code = "more"
            /\ inbound' = Append(inbound, [to |-> Head(owed), code |-> code, srm |-> srm])
            /\ owed' = IF goesOn THEN owed ELSE Tail(owed)
            /\ stream' = IF srm THEN "on" ELSE IF code # "more" THEN "no" ELSE stream
    /\ UNCHANGED c

(* A bulk PUT in SRM is ended before its final block.                        *)
ServerGivesUp ==
    /\ stream = "bulk" /\ owed = <<>> /\ Len(inbound) < MaxInbound
    /\ \E code \in {"denied", "error"} :
        inbound' = Append(inbound, [to |-> None, code |-> code, srm |-> FALSE])
    /\ stream' = "over"
    /\ UNCHANGED <<c, owed>>

-----------------------------------------------------------------------------
SocketThread ==
    \/ LowerTransportConnectCfm \/ LowerTransportSendMbuf
    \/ LowerTransportRecvDataInd \/ LowerTransportDisconnectInd

Dispatcher == ResponseTimeout \/ CommandError \/ DeferredLowerTransportDisconnectInd

Next == UpperLayer \/ SocketThread \/ Dispatcher \/ ServerAnswers \/ ServerGivesUp

(* The socket thread and the dispatcher do what they are there for.  Nothing   *)
(* is assumed of the server, the link and the upper layer.  The timer runs    *)
(* out if it stays registered: SRM data that comes in for ever while an abort  *)
(* is out does not put it off, as the server ends with the abort.             *)
Fairness ==
    /\ WF_vars(LowerTransportConnectCfm) /\ WF_vars(LowerTransportSendMbuf)
    /\ WF_vars(LowerTransportRecvDataInd)
    /\ WF_vars(ResponseTimeout) /\ WF_vars(CommandError)
    /\ WF_vars(DeferredLowerTransportDisconnectInd)

Spec == Init /\ [][Next]_vars /\ Fairness

-----------------------------------------------------------------------------
TypeOK ==
    /\ c.life \in {"none", "alive", "crashed"}
    /\ c.state \in Usable \union {"INVALID_CONNECTION", "LOWER_LAYER_CONNECTING",
                                  "LOWER_LAYER_CONNECTED", "DISCONNECTING"}
    /\ c.abort \in {"NO_ABORT", "ABORT_PENDING", "ABORT_SENT"}
    /\ Len(c.blocks) <= MaxBlocks
    /\ \A i \in DOMAIN c.blocks : c.blocks[i] \in {"queued", "sent", "confirmed"}
    /\ c.deferred \in 0..2
    /\ Len(inbound) <= MaxInbound

(* When the client is ready for the next operation nothing of the last one is *)
(* on its way: no response can be taken for that to another operation (the    *)
(* switch of LowerRecvDataInd goes by the state alone), whatever was aborted, *)
(* streamed or ended early.  In the middle of an operation no request is      *)
(* refused since another is being written (LowerWrite).                      *)
QuietWire ==
    /\ TypeOK
    /\ c.state \in Usable /\ ~c.busy /\ ~c.crossed => c.writeMbuf = None
    /\ c.state = "CONNECTED" /\ ~c.busy /\ ~c.disconnectingLowerLayer /\ ~c.crossed =>
           owed = <<>> /\ inbound = <<>>


(* AbortConfirm: "This should be the response to the abort command."          *)
AbortConfirmedByItsResponse == ~c.crossed
=============================================================================
