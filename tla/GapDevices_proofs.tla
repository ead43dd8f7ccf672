-------------------------- MODULE GapDevices_proofs --------------------------
(***************************************************************************)
(* Safety of GapDevices for any set of devices and any length of the queues. *)
(*                                                                          *)
(* What the user knows is behind what the GAP thread knows, which is behind  *)
(* the stack, by what waits in the two queues.  The last event of a queue    *)
(* that says something of a matter (a discovery, the bond of a device)       *)
(* decides what its reader will think of it once the queue is empty.  The    *)
(* invariant is that this is the truth of whoever writes into the queue.     *)
(***************************************************************************)
EXTENDS GapDevices, SequenceTheorems, TLAPS

Bonds == {"NONE", "BONDING", "BONDED"}

Events ==
    [id : {"API_ENABLE", "API_DISABLE", "API_START_INQUIRY", "API_STOP_INQUIRY",
           "PROFILES_STARTED", "ENABLED", "DISABLED"}, about : {NoDevice}]
    \union [id : {"DISCOVERY_STATE", "ADAPTER_STATE"}, about : BOOLEAN]
    \union [id : {"API_CREATE_BOND", "DEVICE_FOUND", "REMOTE_PROPERTIES"}, about : Device]
    \union [id : {"BOND_STATE"}, about : [device : Device, bond : Bonds]]
    \union [id : {"ADAPTER_PROPERTIES"}, about : SUBSET Device]

-----------------------------------------------------------------------------
(* What an event says of a matter: that it is so, that it is not, or nothing. *)

Words == {"yes", "no"}
Word(b) == IF b THEN "yes" ELSE "no"

IsOff(e) == e.id = "DISABLED" \/ (e.id = "ADAPTER_STATE" /\ ~e.about)

OfDiscovery ==
    [e \in Events |-> IF e.id = "DISCOVERY_STATE" THEN Word(e.about)
                      ELSE IF IsOff(e) THEN "no" ELSE "silent"]

OfBond(d) ==
    [e \in Events |->
        IF e.id = "BOND_STATE" /\ e.about.device = d /\ e.about.bond # "BONDING"
        THEN Word(e.about.bond = "BONDED")
        ELSE IF e.id = "ADAPTER_PROPERTIES" /\ d \in e.about THEN "yes"
        ELSE IF IsOff(e) THEN "no" ELSE "silent"]

(* What is thought of a matter after an event.                               *)
Then(says, e, word) == IF says[e] = "silent" THEN word ELSE says[e]

(* The events of a queue lead from one thought of a matter to another.       *)
Leads(queue, says, from, to) ==
    \/ /\ \A i \in 1 .. Len(queue) : says[queue[i]] = "silent"
       /\ from = to
    \/ \E i \in 1 .. Len(queue) :
          /\ says[queue[i]] = to /\ to # "silent"
          /\ \A j \in 1 .. Len(queue) : i < j => says[queue[j]] = "silent"

-----------------------------------------------------------------------------
(* The parts of the inductive invariant.                                     *)

QueuesOK == gapEvents \in Seq(Events) /\ mainEvents \in Seq(Events)

(* Each device found is listed once.                                         *)
InquirySound ==
    /\ inquiry_list \in Seq(Device) /\ inq_db_count = Len(inquiry_list)
    /\ \A i, j \in 1 .. Len(inquiry_list) : inquiry_list[i] = inquiry_list[j] => i = j

(* The state of the bonds and their list are two records of the same.        *)
TableSound ==
    \A d \in Device : /\ bond_state[d] = "BONDED" => d \in bonded_devices
                      /\ bond_state[d] = "NONE" => d \notin bonded_devices

(* Turning on or off: it is one event or with the stack, and the adapter is   *)
(* meanwhile as that event has it.                                           *)
SwitchIds == {"API_ENABLE", "API_DISABLE", "ADAPTER_STATE", "PROFILES_STARTED", "ENABLED", "DISABLED"}
NoSwitch(queue) == \A i \in 1 .. Len(queue) : queue[i].id \notin SwitchIds
OneSwitch(queue) ==
    \A i, j \in 1 .. Len(queue) : queue[i].id \in SwitchIds /\ queue[j].id \in SwitchIds => i = j

Fits(e, state) ==
    e.id \in SwitchIds => state = IF e.id = "API_ENABLE" \/ IsOff(e) THEN "off" ELSE "on"
AllFit(queue, state) == \A i \in 1 .. Len(queue) : Fits(queue[i], state)

Handshake ==
    /\ OneSwitch(gapEvents) /\ OneSwitch(mainEvents)
    /\ NoSwitch(gapEvents) \/ NoSwitch(mainEvents)
    /\ ~switching \/ adapter \in {"starting", "stopping"} =>
          NoSwitch(gapEvents) /\ NoSwitch(mainEvents)
    /\ AllFit(gapEvents, adapter) /\ AllFit(mainEvents, adapter)
    /\ ~switching => adapter = IF bt_state THEN "on" ELSE "off"
    /\ gapState = "ON" => adapter = "on"

StackIsUp == adapter \in {"on", "stopping"}
Bonded(d) == StackIsUp /\ d \in bonds

StackSound == pairing # NoDevice => StackIsUp

DiscoveryLeads ==
    \E heard, last \in Words :
        /\ Leads(mainEvents, OfDiscovery, Word(bt_discovery_state), heard)
        /\ Leads(gapEvents, OfDiscovery, heard, last)
        /\ ~misled => last = Word(scanning)

BondsLead ==
    \A d \in Device : Leads(gapEvents, OfBond(d), Word(d \in bonded_devices), Word(Bonded(d)))

UserLeads ==
    \A d \in Device : \E heard \in Words :
        /\ Leads(mainEvents, OfBond(d), Word(d \in user_bonded), heard)
        /\ heard = "yes" => d \in bonded_devices
        /\ heard = "no" /\ d \in bonded_devices => d \in broadcast

QueuesLead == QueuesOK /\ DiscoveryLeads /\ BondsLead /\ UserLeads

IInv ==
    DevicesTypeOK /\ InquirySound /\ TableSound /\ Handshake /\ StackSound /\ QueuesLead

-----------------------------------------------------------------------------
(* Lemmas about queues.                                                      *)

LEMMA TailOfQueue ==
    ASSUME NEW queue \in Seq(Events), queue # <<>>
    PROVE  /\ Tail(queue) \in Seq(Events) /\ Head(queue) = queue[1] /\ Head(queue) \in Events
           /\ Len(queue) \in Nat \ {0} /\ Len(Tail(queue)) = Len(queue) - 1
           /\ \A i \in 1 .. Len(Tail(queue)) :
                 Tail(queue)[i] = queue[i + 1] /\ i + 1 \in 1 .. Len(queue)
           /\ \A i \in 1 .. Len(queue) : i # 1 =>
                 i - 1 \in 1 .. Len(Tail(queue)) /\ Tail(queue)[i - 1] = queue[i]
<1>1. /\ Tail(queue) \in Seq(Events) /\ Head(queue) = queue[1] /\ Head(queue) \in Events
      /\ Len(queue) \in Nat \ {0} /\ Len(Tail(queue)) = Len(queue) - 1
      /\ \A i \in 1 .. Len(Tail(queue)) : Tail(queue)[i] = queue[i + 1]
  BY HeadTailProperties
<1> QED
  BY <1>1

LEMMA JoinOfQueues ==
    ASSUME NEW queue \in Seq(Events), NEW more \in Seq(Events)
    PROVE  /\ queue \o more \in Seq(Events) /\ Len(queue) \in Nat /\ Len(more) \in Nat
           /\ Len(queue \o more) = Len(queue) + Len(more)
           /\ \A i \in 1 .. Len(queue) : (queue \o more)[i] = queue[i]
           /\ \A i \in 1 .. Len(more) : (queue \o more)[Len(queue) + i] = more[i]
           /\ \A i \in 1 .. Len(queue \o more) : i \notin 1 .. Len(queue) =>
                 i - Len(queue) \in 1 .. Len(more) /\ (queue \o more)[i] = more[i - Len(queue)]
  BY ConcatProperties

LEMMA LeadsJoin ==
    ASSUME NEW queue \in Seq(Events), NEW more \in Seq(Events), NEW says,
           NEW a, NEW b, NEW c, Leads(queue, says, a, b), Leads(more, says, b, c)
    PROVE  Leads(queue \o more, says, a, c)
<1> DEFINE both == queue \o more
<1>1. /\ Len(queue) \in Nat /\ Len(more) \in Nat /\ Len(both) = Len(queue) + Len(more)
      /\ \A i \in 1 .. Len(queue) : both[i] = queue[i]
      /\ \A i \in 1 .. Len(more) : both[Len(queue) + i] = more[i]
      /\ \A i \in 1 .. Len(both) : i \notin 1 .. Len(queue) =>
            i - Len(queue) \in 1 .. Len(more) /\ both[i] = more[i - Len(queue)]
  BY JoinOfQueues
<1> HIDE DEF both
<1>2. CASE (\A i \in 1 .. Len(more) : says[more[i]] = "silent") /\ b = c
  <2>1. CASE (\A i \in 1 .. Len(queue) : says[queue[i]] = "silent") /\ a = b
    BY <1>1, <1>2, <2>1 DEF Leads, both
  <2>2. ASSUME NEW i \in 1 .. Len(queue), says[queue[i]] = b, b # "silent",
               \A j \in 1 .. Len(queue) : i < j => says[queue[j]] = "silent"
        PROVE  Leads(both, says, a, c)
    <3>1. i \in 1 .. Len(both) /\ says[both[i]] = c /\ c # "silent"
      BY <1>1, <1>2, <2>2
    <3>2. ASSUME NEW j \in 1 .. Len(both), i < j PROVE says[both[j]] = "silent"
      <4>1. CASE j \in 1 .. Len(queue)
        BY <1>1, <2>2, <3>2, <4>1
      <4>2. CASE j \notin 1 .. Len(queue)
        BY <1>1, <1>2, <4>2
      <4> QED
        BY <4>1, <4>2
    <3> QED
      BY <3>1, <3>2 DEF Leads
  <2> QED
    BY <2>1, <2>2 DEF Leads, both
<1>3. ASSUME NEW i \in 1 .. Len(more), says[more[i]] = c, c # "silent",
             \A j \in 1 .. Len(more) : i < j => says[more[j]] = "silent"
      PROVE  Leads(both, says, a, c)
  <2>1. Len(queue) + i \in 1 .. Len(both) /\ says[both[Len(queue) + i]] = c
    BY <1>1, <1>3
  <2>2. ASSUME NEW j \in 1 .. Len(both), Len(queue) + i < j PROVE says[both[j]] = "silent"
    <3>1. j \notin 1 .. Len(queue) /\ i < j - Len(queue)
      BY <1>1, <2>2
    <3>2. j - Len(queue) \in 1 .. Len(more) /\ both[j] = more[j - Len(queue)]
      BY <1>1, <3>1
    <3>3. says[more[j - Len(queue)]] = "silent"
      BY <1>3, <3>1, <3>2
    <3> QED
      BY <3>2, <3>3
  <2> QED
    BY <1>3, <2>1, <2>2 DEF Leads
<1> QED
  BY <1>2, <1>3 DEF Leads, both

LEMMA LeadsRest ==
    ASSUME NEW queue \in Seq(Events), queue # <<>>, NEW says, NEW a, NEW b,
           Leads(queue, says, a, b)
    PROVE  Leads(Tail(queue), says, Then(says, Head(queue), a), b)
<1>1. /\ Head(queue) = queue[1] /\ Len(queue) \in Nat \ {0} /\ Len(Tail(queue)) = Len(queue) - 1
      /\ \A i \in 1 .. Len(Tail(queue)) :
            Tail(queue)[i] = queue[i + 1] /\ i + 1 \in 1 .. Len(queue)
      /\ \A i \in 1 .. Len(queue) : i # 1 =>
            i - 1 \in 1 .. Len(Tail(queue)) /\ Tail(queue)[i - 1] = queue[i]
  BY TailOfQueue
<1>2. CASE (\A i \in 1 .. Len(queue) : says[queue[i]] = "silent") /\ a = b
  BY <1>1, <1>2 DEF Leads, Then
<1>3. ASSUME NEW i \in 1 .. Len(queue), says[queue[i]] = b, b # "silent",
             \A j \in 1 .. Len(queue) : i < j => says[queue[j]] = "silent"
      PROVE  Leads(Tail(queue), says, Then(says, Head(queue), a), b)
  <2>1. CASE i = 1
    BY <1>1, <1>3, <2>1 DEF Leads, Then
  <2>2. CASE i # 1
    <3>1. i - 1 \in 1 .. Len(Tail(queue)) /\ Tail(queue)[i - 1] = queue[i]
      BY <1>1, <2>2
    <3>2. \A j \in 1 .. Len(Tail(queue)) : i - 1 < j => says[Tail(queue)[j]] = "silent"
      BY <1>1, <1>3
    <3> QED
      BY <1>3, <3>1, <3>2 DEF Leads
  <2> QED
    BY <2>1, <2>2
<1> QED
  BY <1>2, <1>3 DEF Leads

LEMMA LeadsShort ==
    ASSUME NEW says, NEW a, NEW e, NEW f
    PROVE  /\ Leads(<<>>, says, a, a)
           /\ Leads(<<e>>, says, a, Then(says, e, a))
           /\ Leads(<<e, f>>, says, a, Then(says, f, Then(says, e, a)))
<1>1. Leads(<<>>, says, a, a)
  BY DEF Leads
<1>2. Leads(<<e>>, says, a, Then(says, e, a))
  <2>1. Len(<<e>>) = 1 /\ <<e>>[1] = e
    OBVIOUS
  <2> QED
    BY <2>1 DEF Leads, Then
<1>3. Leads(<<e, f>>, says, a, Then(says, f, Then(says, e, a)))
  <2>1. Len(<<e, f>>) = 2 /\ <<e, f>>[1] = e /\ <<e, f>>[2] = f
    OBVIOUS
  <2> QED
    BY <2>1 DEF Leads, Then
<1> QED
  BY <1>1, <1>2, <1>3

LEMMA SwitchRest ==
    ASSUME NEW queue \in Seq(Events), queue # <<>>, NEW state
    PROVE  /\ NoSwitch(queue) => NoSwitch(Tail(queue)) /\ Head(queue).id \notin SwitchIds
           /\ OneSwitch(queue) => /\ OneSwitch(Tail(queue))
                                  /\ Head(queue).id \in SwitchIds => NoSwitch(Tail(queue))
           /\ AllFit(queue, state) => AllFit(Tail(queue), state) /\ Fits(Head(queue), state)
<1>1. /\ Head(queue) = queue[1] /\ Len(queue) \in Nat \ {0} /\ Len(Tail(queue)) = Len(queue) - 1
      /\ \A i \in 1 .. Len(Tail(queue)) :
            Tail(queue)[i] = queue[i + 1] /\ i + 1 \in 1 .. Len(queue)
  BY TailOfQueue
<1>2. NoSwitch(queue) => NoSwitch(Tail(queue)) /\ Head(queue).id \notin SwitchIds
  BY <1>1 DEF NoSwitch
<1>3. OneSwitch(queue) => OneSwitch(Tail(queue))
  <2> SUFFICES ASSUME OneSwitch(queue), NEW i \in 1 .. Len(Tail(queue)), NEW j \in 1 .. Len(Tail(queue)),
                      Tail(queue)[i].id \in SwitchIds, Tail(queue)[j].id \in SwitchIds
               PROVE  i = j
    BY DEF OneSwitch
  <2>1. i + 1 = j + 1
    BY <1>1 DEF OneSwitch
  <2> QED
    BY <1>1, <2>1
<1>4. OneSwitch(queue) /\ Head(queue).id \in SwitchIds => NoSwitch(Tail(queue))
  <2> SUFFICES ASSUME OneSwitch(queue), Head(queue).id \in SwitchIds,
                      NEW i \in 1 .. Len(Tail(queue)), Tail(queue)[i].id \in SwitchIds
               PROVE  FALSE
    BY DEF NoSwitch
  <2>1. i + 1 = 1
    BY <1>1 DEF OneSwitch
  <2> QED
    BY <1>1, <2>1
<1>5. AllFit(queue, state) => AllFit(Tail(queue), state) /\ Fits(Head(queue), state)
  BY <1>1 DEF AllFit
<1> QED
  BY <1>2, <1>3, <1>4, <1>5

LEMMA SwitchJoin ==
    ASSUME NEW queue \in Seq(Events), NEW more \in Seq(Events), NEW state
    PROVE  /\ NoSwitch(queue) /\ NoSwitch(more) => NoSwitch(queue \o more)
           /\ OneSwitch(queue) /\ NoSwitch(more) => OneSwitch(queue \o more)
           /\ NoSwitch(queue) /\ OneSwitch(more) => OneSwitch(queue \o more)
           /\ AllFit(queue, state) /\ AllFit(more, state) => AllFit(queue \o more, state)
           /\ NoSwitch(queue) => AllFit(queue, state)
<1> DEFINE both == queue \o more
<1>1. /\ Len(queue) \in Nat /\ Len(more) \in Nat /\ Len(both) = Len(queue) + Len(more)
      /\ \A i \in 1 .. Len(queue) : both[i] = queue[i]
      /\ \A i \in 1 .. Len(both) : i \notin 1 .. Len(queue) =>
            i - Len(queue) \in 1 .. Len(more) /\ both[i] = more[i - Len(queue)]
  BY JoinOfQueues
<1> HIDE DEF both
<1>2. NoSwitch(queue) /\ NoSwitch(more) => NoSwitch(both)
  BY <1>1 DEF NoSwitch
<1>3. OneSwitch(queue) /\ NoSwitch(more) => OneSwitch(both)
  BY <1>1 DEF NoSwitch, OneSwitch
<1>4. NoSwitch(queue) /\ OneSwitch(more) => OneSwitch(both)
  <2> SUFFICES ASSUME NoSwitch(queue), OneSwitch(more), NEW i \in 1 .. Len(both), NEW j \in 1 .. Len(both),
                      both[i].id \in SwitchIds, both[j].id \in SwitchIds
               PROVE  i = j
    BY DEF OneSwitch
  <2>1. i \notin 1 .. Len(queue) /\ j \notin 1 .. Len(queue)
    BY <1>1 DEF NoSwitch
  <2>2. i - Len(queue) = j - Len(queue)
    BY <1>1, <2>1 DEF OneSwitch
  <2> QED
    BY <1>1, <2>2
<1>5. AllFit(queue, state) /\ AllFit(more, state) => AllFit(both, state)
  BY <1>1 DEF AllFit
<1>6. NoSwitch(queue) => AllFit(queue, state)
  BY DEF NoSwitch, AllFit, Fits
<1> QED
  BY <1>2, <1>3, <1>4, <1>5, <1>6 DEF both

LEMMA NothingMore ==
    ASSUME NEW queue \in Seq(Events)
    PROVE  queue \o <<>> = queue /\ <<>> \in Seq(Events) /\ NoSwitch(<<>>)
  BY DEF NoSwitch

LEMMA NoSwitchIn ==
    ASSUME NEW e \in Events, e.id \notin SwitchIds
    PROVE  <<e>> \in Seq(Events) /\ NoSwitch(<<e>>)
  BY DEF NoSwitch

LEMMA SwitchShort ==
    ASSUME NEW e, NEW f, NEW state
    PROVE  /\ NoSwitch(<<>>) /\ OneSwitch(<<>>) /\ AllFit(<<>>, state)
           /\ OneSwitch(<<e>>) /\ (Fits(e, state) => AllFit(<<e>>, state))
           /\ e.id \notin SwitchIds => /\ NoSwitch(<<e>>) /\ OneSwitch(<<e, f>>)
                                       /\ Fits(f, state) => AllFit(<<e, f>>, state)
                                       /\ f.id \notin SwitchIds => NoSwitch(<<e, f>>)
<1>1. /\ Len(<<>>) = 0 /\ Len(<<e>>) = 1 /\ <<e>>[1] = e
      /\ Len(<<e, f>>) = 2 /\ <<e, f>>[1] = e /\ <<e, f>>[2] = f
  OBVIOUS
<1> QED
  BY <1>1 DEF NoSwitch, OneSwitch, AllFit, Fits

-----------------------------------------------------------------------------
(* The three ways in which events move, and what is to be shown of the       *)
(* events for the parts of the invariant that are about both queues.         *)

(* What is posted to the GAP thread says what the step has done.             *)
DiscoveryTold(more) ==
    \A word \in Words : (~misled => word = Word(scanning)) =>
        \E new \in Words : /\ Leads(more, OfDiscovery, word, new)
                           /\ ~misled' => new = Word(scanning')

BondsTold(more) ==
    \A d \in Device : Leads(more, OfBond(d), Word(Bonded(d)), Word(Bonded(d)'))

(* What the user will think of the bond of d is justified.                   *)
Justified(d, heard) ==
    /\ heard = "yes" => d \in bonded_devices
    /\ heard = "no" /\ d \in bonded_devices => d \in broadcast

(* What the GAP thread tells the user is what it has heard of a discovery,    *)
(* and what it makes of the bonds in its own table.                          *)
DiscoveryPassed(told) ==
    \A word \in Words : Leads(told, OfDiscovery, word, Then(OfDiscovery, Head(gapEvents), word))

BondsPassed(told) ==
    \A d \in Device :
        /\ Word(d \in bonded_devices')
             = Then(OfBond(d), Head(gapEvents), Word(d \in bonded_devices))
        /\ \A heard \in Words : Justified(d, heard) =>
              \E new \in Words : Leads(told, OfBond(d), heard, new) /\ Justified(d, new)'

LEMMA Verdicts ==
    ASSUME NEW e \in Events, NEW word \in Words
    PROVE  /\ Then(OfDiscovery, e, word) \in Words
           /\ \A d \in Device : Then(OfBond(d), e, word) \in Words
  BY DEF Then, OfDiscovery, OfBond, Words, Word

(* The user asks, or the stack tells.                                        *)
LEMMA PostingLeads ==
    ASSUME QueuesLead, NEW more \in Seq(Events), gapEvents' = gapEvents \o more,
           UNCHANGED <<mainEvents, bt_discovery_state, user_bonded, bonded_devices, broadcast>>,
           DiscoveryTold(more), BondsTold(more)
    PROVE  QueuesLead'
<1>1. gapEvents \in Seq(Events) /\ QueuesOK'
  BY JoinOfQueues DEF QueuesLead, QueuesOK
<1>2. DiscoveryLeads'
  <2>1. PICK heard \in Words, last \in Words :
           /\ Leads(mainEvents, OfDiscovery, Word(bt_discovery_state), heard)
           /\ Leads(gapEvents, OfDiscovery, heard, last)
           /\ ~misled => last = Word(scanning)
    BY DEF QueuesLead, DiscoveryLeads
  <2>2. PICK new \in Words : Leads(more, OfDiscovery, last, new) /\ (~misled' => new = Word(scanning'))
    BY <2>1 DEF DiscoveryTold
  <2>3. Leads(gapEvents', OfDiscovery, heard, new)
    BY <1>1, <2>1, <2>2, LeadsJoin
  <2> QED
    BY <2>1, <2>2, <2>3 DEF DiscoveryLeads
<1>3. BondsLead'
  <2> SUFFICES ASSUME NEW d \in Device
               PROVE  Leads(gapEvents', OfBond(d), Word(d \in bonded_devices'), Word(Bonded(d)'))
    BY DEF BondsLead
  <2>1. /\ Leads(gapEvents, OfBond(d), Word(d \in bonded_devices), Word(Bonded(d)))
        /\ Leads(more, OfBond(d), Word(Bonded(d)), Word(Bonded(d)'))
    BY DEF QueuesLead, BondsLead, BondsTold
  <2> QED
    BY <1>1, <2>1, LeadsJoin
<1>4. UserLeads'
  BY DEF QueuesLead, UserLeads
<1> QED
  BY <1>1, <1>2, <1>3, <1>4 DEF QueuesLead

(* The GAP thread handles an event, tells the user, and the stack that it    *)
(* called tells something back.                                             *)
LEMMA HandlingLeads ==
    ASSUME QueuesLead, gapEvents # <<>>, NEW more \in Seq(Events), NEW told \in Seq(Events),
           gapEvents' = Tail(gapEvents) \o more, mainEvents' = mainEvents \o told,
           UNCHANGED <<bt_discovery_state, user_bonded>>,
           DiscoveryPassed(told), BondsPassed(told), DiscoveryTold(more), BondsTold(more)
    PROVE  QueuesLead'
<1>1. /\ gapEvents \in Seq(Events) /\ Tail(gapEvents) \in Seq(Events) /\ mainEvents \in Seq(Events)
      /\ Head(gapEvents) \in Events /\ QueuesOK'
  BY TailOfQueue, JoinOfQueues DEF QueuesLead, QueuesOK
<1>2. DiscoveryLeads'
  <2>1. PICK heard \in Words, last \in Words :
           /\ Leads(mainEvents, OfDiscovery, Word(bt_discovery_state), heard)
           /\ Leads(gapEvents, OfDiscovery, heard, last)
           /\ ~misled => last = Word(scanning)
    BY DEF QueuesLead, DiscoveryLeads
  <2>2. PICK new \in Words : Leads(more, OfDiscovery, last, new) /\ (~misled' => new = Word(scanning'))
    BY <2>1 DEF DiscoveryTold
  <2>3. Then(OfDiscovery, Head(gapEvents), heard) \in Words
    BY <1>1, Verdicts
  <2>4. Leads(mainEvents', OfDiscovery, Word(bt_discovery_state'), Then(OfDiscovery, Head(gapEvents), heard))
    BY <1>1, <2>1, LeadsJoin DEF DiscoveryPassed
  <2>5. Leads(Tail(gapEvents), OfDiscovery, Then(OfDiscovery, Head(gapEvents), heard), last)
    BY <1>1, <2>1, LeadsRest
  <2>6. Leads(gapEvents', OfDiscovery, Then(OfDiscovery, Head(gapEvents), heard), new)
    BY <1>1, <2>2, <2>5, LeadsJoin
  <2> QED
    BY <2>2, <2>3, <2>4, <2>6 DEF DiscoveryLeads
<1>3. BondsLead'
  <2> SUFFICES ASSUME NEW d \in Device
               PROVE  Leads(gapEvents', OfBond(d), Word(d \in bonded_devices'), Word(Bonded(d)'))
    BY DEF BondsLead
  <2>1. /\ Leads(gapEvents, OfBond(d), Word(d \in bonded_devices), Word(Bonded(d)))
        /\ Leads(more, OfBond(d), Word(Bonded(d)), Word(Bonded(d)'))
    BY DEF QueuesLead, BondsLead, BondsTold
  <2>2. Leads(Tail(gapEvents), OfBond(d), Word(d \in bonded_devices'), Word(Bonded(d)))
    BY <1>1, <2>1, LeadsRest DEF BondsPassed
  <2> QED
    BY <1>1, <2>1, <2>2, LeadsJoin
<1>4. UserLeads'
  <2> SUFFICES ASSUME NEW d \in Device
               PROVE  \E heard \in Words :
                         /\ Leads(mainEvents', OfBond(d), Word(d \in user_bonded'), heard)
                         /\ Justified(d, heard)'
    BY DEF UserLeads, Justified
  <2>1. PICK heard \in Words :
           Leads(mainEvents, OfBond(d), Word(d \in user_bonded), heard) /\ Justified(d, heard)
    BY DEF QueuesLead, UserLeads, Justified
  <2>2. PICK new \in Words : Leads(told, OfBond(d), heard, new) /\ Justified(d, new)'
    BY <2>1 DEF BondsPassed
  <2>3. Leads(mainEvents', OfBond(d), Word(d \in user_bonded'), new)
    BY <1>1, <2>1, <2>2, LeadsJoin
  <2> QED
    BY <2>2, <2>3
<1> QED
  BY <1>1, <1>2, <1>3, <1>4 DEF QueuesLead

(* The main thread hears an event.                                           *)
LEMMA HearingLeads ==
    ASSUME QueuesLead, mainEvents # <<>>, mainEvents' = Tail(mainEvents),
           UNCHANGED <<stackState, gapTable, gapEvents, misled>>,
           Word(bt_discovery_state') = Then(OfDiscovery, Head(mainEvents), Word(bt_discovery_state)),
           \A d \in Device :
              Word(d \in user_bonded') = Then(OfBond(d), Head(mainEvents), Word(d \in user_bonded))
    PROVE  QueuesLead'
<1>1. mainEvents \in Seq(Events) /\ QueuesOK'
  BY TailOfQueue DEF QueuesLead, QueuesOK
<1>2. DiscoveryLeads'
  <2>1. PICK heard \in Words, last \in Words :
           /\ Leads(mainEvents, OfDiscovery, Word(bt_discovery_state), heard)
           /\ Leads(gapEvents, OfDiscovery, heard, last)
           /\ ~misled => last = Word(scanning)
    BY DEF QueuesLead, DiscoveryLeads
  <2>2. Leads(mainEvents', OfDiscovery, Word(bt_discovery_state'), heard)
    BY <1>1, <2>1, LeadsRest
  <2> QED
    BY <2>1, <2>2 DEF DiscoveryLeads, stackState
<1>3. BondsLead'
  BY DEF QueuesLead, BondsLead, Bonded, StackIsUp, stackState, gapTable
<1>4. UserLeads'
  <2> SUFFICES ASSUME NEW d \in Device
               PROVE  \E heard \in Words :
                         /\ Leads(mainEvents', OfBond(d), Word(d \in user_bonded'), heard)
                         /\ Justified(d, heard)
    BY DEF UserLeads, Justified, gapTable
  <2>1. PICK heard \in Words :
           Leads(mainEvents, OfBond(d), Word(d \in user_bonded), heard) /\ Justified(d, heard)
    BY DEF QueuesLead, UserLeads, Justified
  <2>2. Leads(mainEvents', OfBond(d), Word(d \in user_bonded'), heard)
    BY <1>1, <2>1, LeadsRest
  <2> QED
    BY <2>1, <2>2
<1> QED
  BY <1>1, <1>2, <1>3, <1>4 DEF QueuesLead

(* Nothing of a switch moves.                                                *)
LEMMA SwitchWaits ==
    ASSUME QueuesOK, Handshake, NEW more \in Seq(Events), NEW told \in Seq(Events),
           NEW restOfGap \in {gapEvents, Tail(gapEvents)}, NEW restOfMain \in {mainEvents, Tail(mainEvents)},
           restOfGap # gapEvents => gapEvents # <<>>, restOfMain # mainEvents => mainEvents # <<>>,
           gapEvents' = restOfGap \o more, mainEvents' = restOfMain \o told,
           NoSwitch(more), NoSwitch(told), UNCHANGED <<adapter, gapState, switching, bt_state>>
    PROVE  Handshake'
<1>1. /\ restOfGap \in Seq(Events) /\ restOfMain \in Seq(Events)
      /\ OneSwitch(gapEvents) => OneSwitch(restOfGap)
      /\ OneSwitch(mainEvents) => OneSwitch(restOfMain)
      /\ NoSwitch(gapEvents) => NoSwitch(restOfGap)
      /\ NoSwitch(mainEvents) => NoSwitch(restOfMain)
      /\ AllFit(gapEvents, adapter) => AllFit(restOfGap, adapter)
      /\ AllFit(mainEvents, adapter) => AllFit(restOfMain, adapter)
  BY SwitchRest, TailOfQueue DEF QueuesOK
<1>2. AllFit(more, adapter) /\ AllFit(told, adapter)
  BY SwitchJoin
<1> QED
  BY <1>1, <1>2, SwitchJoin DEF Handshake

-----------------------------------------------------------------------------
(* The events one by one.                                                    *)

PlainIds == {"API_ENABLE", "API_DISABLE", "API_START_INQUIRY", "API_STOP_INQUIRY",
             "PROFILES_STARTED", "ENABLED", "DISABLED"}
DeviceIds == {"API_CREATE_BOND", "DEVICE_FOUND", "REMOTE_PROPERTIES"}

LEMMA EventsMade ==
    /\ \A id \in PlainIds : Ev(id, NoDevice) \in Events
    /\ \A id \in DeviceIds, d \in Device : Ev(id, d) \in Events
    /\ \A b \in BOOLEAN : Discovery(b) \in Events /\ Ev("ADAPTER_STATE", b) \in Events
    /\ \A d \in Device, b \in Bonds : BondState(d, b) \in Events
    /\ \A devices \in SUBSET Device : Ev("ADAPTER_PROPERTIES", devices) \in Events
  BY DEF Events, Ev, Discovery, BondState, PlainIds, DeviceIds

LEMMA EventsRead ==
    ASSUME NEW e \in Events
    PROVE  /\ e.id \in DeviceIds => e.about \in Device
           /\ e.id \in {"DISCOVERY_STATE", "ADAPTER_STATE"} => e.about \in BOOLEAN
           /\ e.id = "BOND_STATE" => /\ e.about.device \in Device /\ e.about.bond \in Bonds
           /\ e.id = "ADAPTER_PROPERTIES" => e.about \in SUBSET Device
  BY DEF Events, DeviceIds

(* What each kind of event says.                                             *)
LEMMA EventsSay ==
    ASSUME NEW e \in Events, NEW d \in Device
    PROVE  /\ e.id \in (PlainIds \ {"DISABLED"}) \union DeviceIds =>
                 OfDiscovery[e] = "silent" /\ OfBond(d)[e] = "silent" /\ ~IsOff(e)
           /\ e.id = "DISCOVERY_STATE" => OfDiscovery[e] = Word(e.about) /\ OfBond(d)[e] = "silent"
           /\ e.id = "DISABLED" => OfDiscovery[e] = "no" /\ OfBond(d)[e] = "no" /\ IsOff(e)
           /\ e.id = "ADAPTER_STATE" =>
                 /\ IsOff(e) = ~e.about
                 /\ e.about => OfDiscovery[e] = "silent" /\ OfBond(d)[e] = "silent"
                 /\ ~e.about => OfDiscovery[e] = "no" /\ OfBond(d)[e] = "no"
           /\ e.id = "ADAPTER_PROPERTIES" =>
                 OfDiscovery[e] = "silent" /\ OfBond(d)[e] = IF d \in e.about THEN "yes" ELSE "silent"
           /\ e.id = "BOND_STATE" =>
                 /\ OfDiscovery[e] = "silent"
                 /\ OfBond(d)[e] = IF e.about.device # d \/ e.about.bond = "BONDING" THEN "silent"
                                   ELSE Word(e.about.bond = "BONDED")
<1>1. CASE e.id \in (PlainIds \ {"DISABLED"}) \union DeviceIds
  BY <1>1 DEF OfDiscovery, OfBond, IsOff, PlainIds, DeviceIds
<1>2. CASE e.id = "DISCOVERY_STATE"
  BY <1>2 DEF OfDiscovery, OfBond, IsOff, PlainIds, DeviceIds
<1>3. CASE e.id = "DISABLED"
  BY <1>3 DEF OfDiscovery, OfBond, IsOff, PlainIds, DeviceIds
<1>4. CASE e.id = "ADAPTER_STATE"
  BY <1>4, EventsRead DEF OfDiscovery, OfBond, IsOff, PlainIds, DeviceIds
<1>5. CASE e.id = "ADAPTER_PROPERTIES"
  BY <1>5 DEF OfDiscovery, OfBond, IsOff, PlainIds, DeviceIds
<1>6. CASE e.id = "BOND_STATE"
  BY <1>6 DEF OfDiscovery, OfBond, IsOff, PlainIds, DeviceIds
<1> QED
  BY <1>1, <1>2, <1>3, <1>4, <1>5, <1>6 DEF PlainIds, DeviceIds

(* One event or none, posted.                                                *)
LEMMA ToldByOne ==
    ASSUME NEW e \in Events
    PROVE  /\ (\A word \in Words : (~misled => word = Word(scanning)) /\ ~misled' =>
                    Then(OfDiscovery, e, word) = Word(scanning'))
                 => DiscoveryTold(<<e>>)
           /\ (\A d \in Device : Then(OfBond(d), e, Word(Bonded(d))) = Word(Bonded(d)'))
                 => BondsTold(<<e>>)
<1>1. ASSUME \A word \in Words : (~misled => word = Word(scanning)) /\ ~misled' =>
                    Then(OfDiscovery, e, word) = Word(scanning')
      PROVE  DiscoveryTold(<<e>>)
  <2>1. \A word \in Words : /\ Then(OfDiscovery, e, word) \in Words
                            /\ Leads(<<e>>, OfDiscovery, word, Then(OfDiscovery, e, word))
    BY Verdicts, LeadsShort
  <2> QED
    BY <1>1, <2>1 DEF DiscoveryTold
<1>2. ASSUME \A d \in Device : Then(OfBond(d), e, Word(Bonded(d))) = Word(Bonded(d)')
      PROVE  BondsTold(<<e>>)
  <2>1. \A d \in Device : Leads(<<e>>, OfBond(d), Word(Bonded(d)), Then(OfBond(d), e, Word(Bonded(d))))
    BY LeadsShort
  <2> QED
    BY <1>2, <2>1 DEF BondsTold
<1> QED
  BY <1>1, <1>2

LEMMA ToldByNone ==
    ASSUME UNCHANGED <<scanning, misled>>, \A d \in Device : Bonded(d)' <=> Bonded(d)
    PROVE  DiscoveryTold(<<>>) /\ BondsTold(<<>>)
<1>1. \A says, word : Leads(<<>>, says, word, word)
  BY LeadsShort
<1>2. DiscoveryTold(<<>>)
  BY <1>1 DEF DiscoveryTold
<1>3. BondsTold(<<>>)
  <2>1. \A d \in Device : Word(Bonded(d)') = Word(Bonded(d))
    BY DEF Word
  <2> QED
    BY <1>1, <2>1 DEF BondsTold
<1> QED
  BY <1>2, <1>3

SaysNothing(e) == OfDiscovery[e] = "silent" /\ \A d \in Device : OfBond(d)[e] = "silent"

LEMMA SayNothing ==
    ASSUME NEW e \in Events, e.id \in (PlainIds \ {"DISABLED"}) \union DeviceIds
    PROVE  SaysNothing(e)
  BY DEF SaysNothing, OfDiscovery, OfBond, IsOff, PlainIds, DeviceIds

LEMMA BondingSaysNothing ==
    ASSUME NEW e \in Events, e.id = "BOND_STATE", e.about.bond = "BONDING"
    PROVE  SaysNothing(e)
  BY DEF SaysNothing, OfDiscovery, OfBond, IsOff

LEMMA ToldQuietly ==
    ASSUME UNCHANGED <<scanning, misled, bonds, adapter>>, NEW e \in Events, SaysNothing(e)
    PROVE  DiscoveryTold(<<e>>) /\ BondsTold(<<e>>)
  BY ToldByOne DEF SaysNothing, Then, Bonded, StackIsUp

-----------------------------------------------------------------------------
(* The user.                                                                 *)

(* The conjuncts of the invariant, for a step that posts to the GAP thread   *)
(* only.                                                                    *)
LEMMA PostsKeep ==
    ASSUME IInv, NEW more \in Seq(Events), gapEvents' = gapEvents \o more, DevicesTypeOK',
           DiscoveryTold(more), BondsTold(more), InquirySound', Handshake', StackSound',
           UNCHANGED <<mainEvents, bt_discovery_state, user_bonded, gapTable>>
    PROVE  IInv'
<1>1. QueuesLead'
  BY PostingLeads DEF IInv, gapTable
<1>2. TableSound'
  BY DEF IInv, TableSound, gapTable
<1> QED
  BY <1>1, <1>2 DEF IInv

(* A request that is no switch.                                              *)
LEMMA RequestsKeep ==
    ASSUME IInv, StartEnquiry \/ CancelEnquiry \/ \E d \in Bondable : StartPair(d)
    PROVE  IInv'
<1> USE DEF stackState, gapTable, inquiry, commandVars
<1>1. PICK e \in Events :
         /\ gapEvents' = gapEvents \o <<e>>
         /\ e.id \in {"API_START_INQUIRY", "API_STOP_INQUIRY", "API_CREATE_BOND"}
  <2>1. CASE StartEnquiry
    <3>1. Ev("API_START_INQUIRY", NoDevice) \in Events
      BY EventsMade DEF PlainIds
    <3> QED
      BY <2>1, <3>1 DEF StartEnquiry, Asks, Post, Ev
  <2>2. CASE CancelEnquiry
    <3>1. Ev("API_STOP_INQUIRY", NoDevice) \in Events
      BY EventsMade DEF PlainIds
    <3> QED
      BY <2>2, <3>1 DEF CancelEnquiry, Asks, Post, Ev
  <2>3. CASE \E d \in Bondable : StartPair(d)
    <3>1. PICK d \in Device : StartPair(d)
      BY <2>3, DevicesAssumption
    <3>2. Ev("API_CREATE_BOND", d) \in Events
      BY EventsMade DEF DeviceIds
    <3> QED
      BY <3>1, <3>2 DEF StartPair, Asks, Post, Ev
  <2> QED
    BY <2>1, <2>2, <2>3
<1>2. /\ UNCHANGED <<stackState, gapState, gapTable, mainEvents, misled, bt_state, switching,
                     bt_discovery_state, user_bonded, abandoned>>
      /\ \/ inquiry_list' = inquiry_list /\ inq_db_count' = inq_db_count
         \/ inquiry_list' = <<>> /\ inq_db_count' = 0
      /\ {enquiry_cmd', stop_enquiry_cmd', pairing_cmd'} \subseteq BOOLEAN
  <2>1. {enquiry_cmd, stop_enquiry_cmd, pairing_cmd} \subseteq BOOLEAN
    BY DEF IInv, DevicesTypeOK
  <2>2. CASE StartEnquiry
    <3>1. {enquiry_cmd', stop_enquiry_cmd', pairing_cmd'} \subseteq BOOLEAN
      BY <2>1, <2>2 DEF StartEnquiry
    <3> QED
      BY <2>2, <3>1 DEF StartEnquiry, Asks
  <2>3. CASE CancelEnquiry
    <3>1. {enquiry_cmd', stop_enquiry_cmd', pairing_cmd'} \subseteq BOOLEAN
      BY <2>1, <2>3 DEF CancelEnquiry
    <3> QED
      BY <2>3, <3>1 DEF CancelEnquiry, Asks
  <2>4. CASE \E d \in Bondable : StartPair(d)
    BY <2>1, <2>4 DEF StartPair, Asks
  <2> QED
    BY <2>2, <2>3, <2>4
<1>3. <<e>> \in Seq(Events) /\ NoSwitch(<<e>>)
  BY <1>1, NoSwitchIn DEF SwitchIds
<1>4. DiscoveryTold(<<e>>) /\ BondsTold(<<e>>)
  <2>1. SaysNothing(e)
    BY <1>1, SayNothing DEF PlainIds, DeviceIds
  <2> QED
    BY <1>2, <2>1, ToldQuietly
<1>5. InquirySound'
  <2>1. CASE inquiry_list' = inquiry_list /\ inq_db_count' = inq_db_count
    BY <2>1 DEF IInv, InquirySound
  <2>2. CASE inquiry_list' = <<>> /\ inq_db_count' = 0
    BY <2>2 DEF InquirySound
  <2> QED
    BY <1>2, <2>1, <2>2
<1>6. DevicesTypeOK'
  BY <1>2 DEF IInv, DevicesTypeOK, Listed
<1>7. Handshake'
  <2>1. mainEvents' = mainEvents \o <<>> /\ <<>> \in Seq(Events) /\ NoSwitch(<<>>)
    BY <1>2, NothingMore DEF IInv, QueuesLead, QueuesOK
  <2> QED
    BY <1>1, <1>2, <1>3, <2>1, SwitchWaits DEF IInv, QueuesLead
<1>8. StackSound'
  BY <1>2 DEF IInv, StackSound, StackIsUp
<1> QED
  BY <1>1, <1>2, <1>3, <1>4, <1>5, <1>6, <1>7, <1>8, PostsKeep

(* Turning on or off begins with nothing else of the kind under way.         *)
LEMMA SwitchAdapterKeeps == ASSUME IInv, SwitchAdapter PROVE IInv'
<1> USE DEF stackState, gapTable, inquiry, commandVars
<1> DEFINE e == Ev(IF bt_state THEN "API_DISABLE" ELSE "API_ENABLE", NoDevice)
<1>1. /\ gapEvents' = gapEvents \o <<e>> /\ ~switching /\ switching' = TRUE
      /\ UNCHANGED <<stackState, gapState, gapTable, mainEvents, misled, bt_state, commandVars,
                     bt_discovery_state, user_bonded, inquiry, abandoned>>
  BY DEF SwitchAdapter, Asks, Post
<1>2. /\ e \in Events /\ e.id = IF bt_state THEN "API_DISABLE" ELSE "API_ENABLE"
      /\ <<e>> \in Seq(Events)
  BY EventsMade DEF Ev, PlainIds
<1> HIDE DEF e
<1>3. DiscoveryTold(<<e>>) /\ BondsTold(<<e>>)
  <2>1. SaysNothing(e)
    BY <1>2, SayNothing DEF PlainIds
  <2> QED
    BY <1>1, <1>2, <2>1, ToldQuietly
<1>4. InquirySound' /\ StackSound'
  BY <1>1 DEF IInv, InquirySound, StackSound, StackIsUp
<1>5. DevicesTypeOK'
  BY <1>1 DEF IInv, DevicesTypeOK, Listed
<1>6. Handshake'
  <2>1. /\ NoSwitch(gapEvents) /\ NoSwitch(mainEvents) /\ adapter = IF bt_state THEN "on" ELSE "off"
        /\ gapEvents \in Seq(Events) /\ OneSwitch(mainEvents)
    BY <1>1 DEF IInv, Handshake, QueuesLead, QueuesOK
  <2>2. Fits(e, adapter)
    BY <1>2, <2>1 DEF Fits, IsOff
  <2>3. OneSwitch(gapEvents') /\ AllFit(gapEvents', adapter')
    BY <1>1, <1>2, <2>1, <2>2, SwitchShort, SwitchJoin
  <2> QED
    BY <1>1, <2>1, <2>3 DEF IInv, Handshake
<1> QED
  BY <1>1, <1>2, <1>3, <1>4, <1>5, <1>6, PostsKeep

-----------------------------------------------------------------------------
(* The stack, while it is on.                                                *)

(* Not a switch: one event is posted.                                        *)
LEMMA TellingKeeps ==
    ASSUME IInv, NEW e \in Events, gapEvents' = gapEvents \o <<e>>, e.id \notin SwitchIds,
           DiscoveryTold(<<e>>), BondsTold(<<e>>), StackSound',
           bonds' \subseteq Device, pairing' \in Device \union {NoDevice}, scanning' \in BOOLEAN,
           misled' \in BOOLEAN,
           UNCHANGED <<adapter, gapState, gapTable, mainEvents, mainState, abandoned>>
    PROVE  IInv'
<1> USE DEF gapTable, mainState, inquiry, commandVars
<1>1. <<e>> \in Seq(Events) /\ NoSwitch(<<e>>)
  BY NoSwitchIn
<1>2. InquirySound'
  BY DEF IInv, InquirySound
<1>3. DevicesTypeOK'
  BY DEF IInv, DevicesTypeOK, Listed
<1>4. Handshake'
  <2>1. mainEvents' = mainEvents \o <<>> /\ <<>> \in Seq(Events) /\ NoSwitch(<<>>)
    BY NothingMore DEF IInv, QueuesLead, QueuesOK
  <2> QED
    BY <1>1, <2>1, SwitchWaits DEF IInv, QueuesLead
<1> QED
  BY <1>1, <1>2, <1>3, <1>4, PostsKeep

(* The end of a bond, by the user or by the stack itself.                    *)
LEMMA BondEndsKeeps ==
    ASSUME IInv, NEW d \in Bondable, HandleUnPair(d) \/ BondIsLost(d) PROVE IInv'
<1> USE DEF stackState
<1> DEFINE e == BondState(d, "NONE")
<1>1. /\ adapter = "on" /\ bonds' = bonds \ {d} /\ gapEvents' = gapEvents \o <<e>>
      /\ UNCHANGED <<adapter, pairing, scanning, gapState, gapTable, mainEvents, mainState,
                     misled, abandoned>>
  BY DEF HandleUnPair, BondIsLost, BondEnds, Post
<1>2. /\ e \in Events /\ e.id = "BOND_STATE" /\ e.about.device = d /\ e.about.bond = "NONE"
      /\ d \in Device
  BY EventsMade, DevicesAssumption DEF BondState, Ev, Bonds
<1> HIDE DEF e
<1>3. DiscoveryTold(<<e>>)
  <2>1. OfDiscovery[e] = "silent"
    BY <1>2, EventsSay
  <2> QED
    BY <1>1, <1>2, <2>1, ToldByOne DEF Then
<1>4. BondsTold(<<e>>)
  <2>1. \A x \in Device : OfBond(x)[e] = IF x = d THEN "no" ELSE "silent"
    BY <1>2, EventsSay DEF Word
  <2>2. \A x \in Device : Bonded(x)' <=> Bonded(x) /\ x # d
    BY <1>1 DEF Bonded, StackIsUp
  <2> QED
    BY <1>2, <2>1, <2>2, ToldByOne DEF Then, Word
<1>5. StackSound' /\ bonds' \subseteq Device /\ pairing' \in Device \union {NoDevice}
      /\ scanning' \in BOOLEAN /\ misled' \in BOOLEAN
  BY <1>1 DEF IInv, StackSound, StackIsUp, DevicesTypeOK
<1> QED
  BY <1>1, <1>2, <1>3, <1>4, <1>5, TellingKeeps DEF SwitchIds

(* A discovery's results, and its end.                                       *)
LEMMA DiscoveryKeeps ==
    ASSUME IInv, DiscoveryEnds \/ \E d \in Device : DeviceFoundCb(d) \/ NameIsKnown(d)
    PROVE  IInv'
<1>1. CASE DiscoveryEnds
  <2> DEFINE e == Discovery(FALSE)
  <2>1. /\ scanning' = FALSE /\ misled' = FALSE /\ gapEvents' = gapEvents \o <<e>>
        /\ UNCHANGED <<adapter, bonds, pairing, gapState, gapTable, mainEvents, mainState, abandoned>>
    BY <1>1 DEF DiscoveryEnds, StackTells, Post
  <2>2. e \in Events /\ e.id = "DISCOVERY_STATE" /\ e.about = FALSE
    BY EventsMade DEF Discovery, Ev
  <2> HIDE DEF e
  <2>3. OfDiscovery[e] = "no" /\ \A x \in Device : OfBond(x)[e] = "silent"
    BY <2>2, EventsSay DEF OfDiscovery, Word
  <2>4. DiscoveryTold(<<e>>) /\ BondsTold(<<e>>)
    BY <2>1, <2>2, <2>3, ToldByOne DEF Then, Word, Bonded, StackIsUp
  <2>5. StackSound' /\ bonds' \subseteq Device /\ pairing' \in Device \union {NoDevice}
        /\ scanning' \in BOOLEAN /\ misled' \in BOOLEAN
    BY <2>1 DEF IInv, StackSound, StackIsUp, DevicesTypeOK
  <2> QED
    BY <2>1, <2>2, <2>4, <2>5, TellingKeeps DEF SwitchIds
<1>2. ASSUME NEW d \in Device, DeviceFoundCb(d) \/ NameIsKnown(d) PROVE IInv'
  <2>1. PICK e \in Events : e.id \in {"DEVICE_FOUND", "REMOTE_PROPERTIES"} /\ gapEvents' = gapEvents \o <<e>>
    BY <1>2, EventsMade DEF DeviceFoundCb, NameIsKnown, StackTells, Post, Ev, DeviceIds
  <2>2. UNCHANGED <<adapter, bonds, pairing, scanning, misled, gapState, gapTable, mainEvents,
                    mainState, abandoned>>
    BY <1>2 DEF DeviceFoundCb, NameIsKnown, StackTells
  <2>3. DiscoveryTold(<<e>>) /\ BondsTold(<<e>>)
    <3>1. SaysNothing(e)
      BY <2>1, SayNothing DEF DeviceIds
    <3> QED
      BY <2>2, <3>1, ToldQuietly
  <2>4. StackSound' /\ bonds' \subseteq Device /\ pairing' \in Device \union {NoDevice}
        /\ scanning' \in BOOLEAN /\ misled' \in BOOLEAN
    BY <2>2 DEF IInv, StackSound, StackIsUp, DevicesTypeOK
  <2> QED
    BY <2>1, <2>2, <2>3, <2>4, TellingKeeps DEF SwitchIds
<1> QED
  BY <1>1, <1>2

(* A pairing begins at a peer, and ends.                                     *)
LEMMA PairingKeeps ==
    ASSUME IInv, PairingIsOver \/ \E d \in Bondable : PeerPairs(d) PROVE IInv'
<1>1. CASE PairingIsOver
  <2>1. PICK bond \in {"BONDED", "NONE"} :
           /\ bonds' = IF bond = "BONDED" THEN bonds \union {pairing} ELSE bonds \ {pairing}
           /\ gapEvents' = gapEvents \o <<BondState(pairing, bond)>>
    BY <1>1 DEF PairingIsOver, StackTells, Post
  <2> DEFINE e == BondState(pairing, bond)
  <2>2. /\ pairing # NoDevice /\ pairing' = NoDevice
        /\ UNCHANGED <<adapter, scanning, misled, gapState, gapTable, mainEvents, mainState, abandoned>>
    BY <1>1 DEF PairingIsOver, StackTells
  <2>3. StackIsUp /\ pairing \in Device /\ bonds \subseteq Device
    BY <2>2 DEF IInv, StackSound, DevicesTypeOK
  <2>4. e \in Events /\ e.id = "BOND_STATE" /\ e.about.device = pairing /\ e.about.bond = bond
    BY <2>3, EventsMade DEF BondState, Ev, Bonds
  <2>5. gapEvents' = gapEvents \o <<e>>
    BY <2>1
  <2> HIDE DEF e
  <2>6. DiscoveryTold(<<e>>)
    <3>1. OfDiscovery[e] = "silent"
      BY <2>3, <2>4, EventsSay
    <3> QED
      BY <2>2, <2>4, <3>1, ToldByOne DEF Then
  <2>7. BondsTold(<<e>>)
    <3>1. \A x \in Device : OfBond(x)[e] = IF x = pairing THEN Word(bond = "BONDED") ELSE "silent"
      BY <2>4, EventsSay
    <3>2. \A x \in Device : Bonded(x)' <=> IF x = pairing THEN bond = "BONDED" ELSE Bonded(x)
      BY <2>1, <2>2, <2>3 DEF Bonded, StackIsUp
    <3> QED
      BY <2>4, <3>1, <3>2, ToldByOne DEF Then, Word
  <2>8. StackSound' /\ bonds' \subseteq Device /\ pairing' \in Device \union {NoDevice}
        /\ scanning' \in BOOLEAN /\ misled' \in BOOLEAN
    BY <2>1, <2>2, <2>3 DEF IInv, StackSound, DevicesTypeOK
  <2> QED
    BY <2>2, <2>4, <2>5, <2>6, <2>7, <2>8, TellingKeeps DEF SwitchIds
<1>2. ASSUME NEW d \in Bondable, PeerPairs(d) PROVE IInv'
  <2> DEFINE e == BondState(d, "BONDING")
  <2>1. /\ adapter = "on" /\ pairing' = d /\ gapEvents' = gapEvents \o <<e>>
        /\ UNCHANGED <<adapter, bonds, scanning, misled, gapState, gapTable, mainEvents, mainState, abandoned>>
    BY <1>2 DEF PeerPairs, StackTells, Post
  <2>2. e \in Events /\ e.id = "BOND_STATE" /\ e.about.bond = "BONDING" /\ d \in Device
    BY EventsMade, DevicesAssumption DEF BondState, Ev, Bonds
  <2> HIDE DEF e
  <2>3. DiscoveryTold(<<e>>) /\ BondsTold(<<e>>)
    <3>1. SaysNothing(e)
      BY <2>2, BondingSaysNothing
    <3> QED
      BY <2>1, <2>2, <3>1, ToldQuietly
  <2>4. StackSound' /\ bonds' \subseteq Device /\ pairing' \in Device \union {NoDevice}
        /\ scanning' \in BOOLEAN /\ misled' \in BOOLEAN
    BY <2>1, <2>2 DEF IInv, StackSound, StackIsUp, DevicesTypeOK
  <2> QED
    BY <2>1, <2>2, <2>3, <2>4, TellingKeeps DEF SwitchIds
<1> QED
  BY <1>1, <1>2

(* The stack tells of its bonds, then that it is on.                         *)
LEMMA StackTurnsOnKeeps == ASSUME IInv, StackTurnsOn PROVE IInv'
<1> USE DEF gapTable, mainState, inquiry, commandVars
<1> DEFINE p == Ev("ADAPTER_PROPERTIES", bonds)
           e == Ev("ADAPTER_STATE", TRUE)
<1>1. /\ adapter = "starting" /\ adapter' = "on" /\ gapEvents' = gapEvents \o <<p, e>>
      /\ UNCHANGED <<bonds, pairing, scanning, misled, gapState, gapTable, mainEvents, mainState,
                     abandoned>>
  BY DEF StackTurnsOn, Post
<1>2. /\ p \in Events /\ p.id = "ADAPTER_PROPERTIES" /\ p.about = bonds
      /\ e \in Events /\ e.id = "ADAPTER_STATE" /\ e.about = TRUE
  BY EventsMade DEF Ev, IInv, DevicesTypeOK
<1> HIDE DEF p, e
<1>3. <<p, e>> \in Seq(Events)
  BY <1>2
<1>4. DiscoveryTold(<<p, e>>)
  <2>1. OfDiscovery[p] = "silent" /\ OfDiscovery[e] = "silent"
    BY <1>2 DEF OfDiscovery, IsOff
  <2>2. \A word : Leads(<<p, e>>, OfDiscovery, word, word)
    BY <2>1, LeadsShort DEF Then
  <2> QED
    BY <1>1, <2>2 DEF DiscoveryTold
<1>5. BondsTold(<<p, e>>)
  <2> SUFFICES ASSUME NEW d \in Device
               PROVE  Leads(<<p, e>>, OfBond(d), Word(Bonded(d)), Word(Bonded(d)'))
    BY DEF BondsTold
  <2>1. OfBond(d)[p] = (IF d \in bonds THEN "yes" ELSE "silent") /\ OfBond(d)[e] = "silent"
    BY <1>2, EventsSay
  <2>2. Word(Bonded(d)) = "no" /\ Word(Bonded(d)') = IF d \in bonds THEN "yes" ELSE "no"
    BY <1>1 DEF Bonded, StackIsUp, Word
  <2>3. Then(OfBond(d), e, Then(OfBond(d), p, Word(Bonded(d)))) = Word(Bonded(d)')
    BY <2>1, <2>2 DEF Then
  <2> QED
    BY <2>3, LeadsShort
<1>6. InquirySound' /\ StackSound' /\ DevicesTypeOK'
  <2>1. InquirySound'
    BY <1>1 DEF IInv, InquirySound
  <2>2. StackSound'
    BY <1>1 DEF IInv, StackSound, StackIsUp
  <2>3. DevicesTypeOK'
    BY <1>1 DEF IInv, DevicesTypeOK, Listed
  <2> QED
    BY <2>1, <2>2, <2>3
<1>7. Handshake'
  <2>1. /\ NoSwitch(gapEvents) /\ NoSwitch(mainEvents) /\ switching
        /\ gapEvents \in Seq(Events) /\ mainEvents \in Seq(Events) /\ OneSwitch(mainEvents)
    BY <1>1 DEF IInv, Handshake, QueuesLead, QueuesOK
  <2>2. p.id \notin SwitchIds /\ Fits(e, adapter')
    BY <1>1, <1>2 DEF SwitchIds, Fits, IsOff
  <2>3. OneSwitch(<<p, e>>) /\ AllFit(<<p, e>>, adapter')
    BY <2>2, SwitchShort
  <2>4. AllFit(gapEvents, adapter') /\ AllFit(mainEvents, adapter')
    BY <2>1, SwitchJoin
  <2>5. OneSwitch(gapEvents') /\ AllFit(gapEvents', adapter')
    BY <1>1, <1>3, <2>1, <2>3, <2>4, SwitchJoin
  <2> QED
    BY <1>1, <2>1, <2>4, <2>5 DEF Handshake
<1> QED
  BY <1>1, <1>3, <1>4, <1>5, <1>6, <1>7, PostsKeep

(* Off, all is over: of the discovery and of the bonds nothing is left.      *)
LEMMA StackTurnsOffKeeps == ASSUME IInv, StackTurnsOff PROVE IInv'
<1> USE DEF gapTable, mainState, inquiry, commandVars
<1> DEFINE e == Ev("ADAPTER_STATE", FALSE)
<1>1. /\ adapter = "stopping" /\ adapter' = "off" /\ gapEvents' = gapEvents \o <<e>>
      /\ scanning' = FALSE /\ pairing' = NoDevice /\ misled' = FALSE /\ abandoned' = pairing_cmd
      /\ UNCHANGED <<bonds, gapState, gapTable, mainEvents, mainState>>
  BY DEF StackTurnsOff, Post
<1>2. e \in Events /\ e.id = "ADAPTER_STATE" /\ e.about = FALSE /\ <<e>> \in Seq(Events)
  <2>1. e \in Events
    BY EventsMade
  <2> QED
    BY <2>1 DEF Ev
<1> HIDE DEF e
<1>3. DiscoveryTold(<<e>>)
  <2>1. OfDiscovery[e] = "no"
    BY <1>2 DEF OfDiscovery, IsOff
  <2> QED
    BY <1>1, <1>2, <2>1, ToldByOne DEF Then, Word
<1>4. BondsTold(<<e>>)
  <2>1. \A d \in Device : OfBond(d)[e] = "no"
    BY <1>2, EventsSay
  <2>2. \A d \in Device : ~Bonded(d)'
    BY <1>1 DEF Bonded, StackIsUp
  <2> QED
    BY <1>2, <2>1, <2>2, ToldByOne DEF Then, Word
<1>5. InquirySound' /\ StackSound' /\ DevicesTypeOK'
  <2>1. InquirySound'
    BY <1>1 DEF IInv, InquirySound
  <2>2. StackSound'
    BY <1>1 DEF StackSound
  <2>3. DevicesTypeOK'
    <3>1. {scanning, bt_state, switching, enquiry_cmd, stop_enquiry_cmd, pairing_cmd,
           bt_discovery_state, misled, abandoned}' \subseteq BOOLEAN
      BY <1>1 DEF IInv, DevicesTypeOK
    <3> QED
      BY <1>1, <3>1 DEF IInv, DevicesTypeOK, Listed
  <2> QED
    BY <2>1, <2>2, <2>3
<1>6. Handshake'
  <2>1. /\ NoSwitch(gapEvents) /\ NoSwitch(mainEvents) /\ switching /\ gapState # "ON"
        /\ gapEvents \in Seq(Events) /\ mainEvents \in Seq(Events) /\ OneSwitch(mainEvents)
    BY <1>1 DEF IInv, Handshake, QueuesLead, QueuesOK
  <2>2. Fits(e, adapter')
    BY <1>1, <1>2 DEF Fits, IsOff
  <2>3. OneSwitch(<<e>>) /\ AllFit(<<e>>, adapter')
    BY <2>2, SwitchShort
  <2>4. AllFit(gapEvents, adapter') /\ AllFit(mainEvents, adapter')
    BY <2>1, SwitchJoin
  <2>5. OneSwitch(gapEvents') /\ AllFit(gapEvents', adapter')
    BY <1>1, <1>2, <2>1, <2>3, <2>4, SwitchJoin
  <2> QED
    BY <1>1, <2>1, <2>4, <2>5 DEF Handshake
<1> QED
  BY <1>1, <1>2, <1>3, <1>4, <1>5, <1>6, PostsKeep

-----------------------------------------------------------------------------
(* The GAP thread.                                                           *)

(* The conjuncts of the invariant, for a step of the GAP thread.             *)
LEMMA HandlerKeeps ==
    ASSUME IInv, gapEvents # <<>>, NEW more \in Seq(Events), NEW told \in Seq(Events),
           gapEvents' = Tail(gapEvents) \o more, mainEvents' = mainEvents \o told,
           DiscoveryPassed(told), BondsPassed(told), DiscoveryTold(more), BondsTold(more),
           DevicesTypeOK', TableSound', Handshake', StackSound', UNCHANGED mainState
    PROVE  IInv'
<1> USE DEF mainState, inquiry, commandVars
<1>1. QueuesLead'
  BY HandlingLeads DEF IInv
<1>2. InquirySound'
  BY DEF IInv, InquirySound
<1> QED
  BY <1>1, <1>2 DEF IInv

(* Handled without a word to the user, of an event that says nothing.        *)
LEMMA PassedByNone ==
    ASSUME UNCHANGED gapTable, SaysNothing(Head(gapEvents))
    PROVE  DiscoveryPassed(<<>>) /\ BondsPassed(<<>>)
<1>1. \A says, word : Leads(<<>>, says, word, word)
  BY LeadsShort
<1> QED
  BY <1>1 DEF DiscoveryPassed, BondsPassed, SaysNothing, Then, Justified, gapTable

(* The user is told of what is no bond.                                      *)
LEMMA PassedOn ==
    ASSUME UNCHANGED gapTable, NEW e \in Events, OfDiscovery[e] = OfDiscovery[Head(gapEvents)],
           \A d \in Device : OfBond(d)[e] = "silent" /\ OfBond(d)[Head(gapEvents)] = "silent"
    PROVE  DiscoveryPassed(<<e>>) /\ BondsPassed(<<e>>)
<1>1. \A says, word : Leads(<<e>>, says, word, Then(says, e, word))
  BY LeadsShort
<1>2. DiscoveryPassed(<<e>>)
  BY <1>1 DEF DiscoveryPassed, Then
<1>3. BondsPassed(<<e>>)
  <2>1. \A d \in Device, heard \in Words : Leads(<<e>>, OfBond(d), heard, heard)
    BY <1>1 DEF Then
  <2> QED
    BY <2>1 DEF BondsPassed, Then, Justified, gapTable
<1> QED
  BY <1>2, <1>3

LEMMA HeadOfGap ==
    ASSUME IInv, NEW id, GapHandles(id)
    PROVE  /\ gapEvents # <<>> /\ gapEvents \in Seq(Events) /\ mainEvents \in Seq(Events)
           /\ Head(gapEvents) \in Events /\ Head(gapEvents).id = id /\ Tail(gapEvents) \in Seq(Events)
           /\ mainEvents \o <<>> = mainEvents
  BY TailOfQueue, NothingMore DEF IInv, QueuesLead, QueuesOK, GapHandles

(* A handler that moves nothing of a switch.                                 *)
LEMMA NoSwitchHandled ==
    ASSUME IInv, NEW id, GapHandles(id), NEW more \in Seq(Events), NEW told \in Seq(Events),
           gapEvents' = Tail(gapEvents) \o more, mainEvents' = mainEvents \o told,
           NoSwitch(more), NoSwitch(told), UNCHANGED <<adapter, gapState, switching, bt_state>>
    PROVE  Handshake'
<1>1. gapEvents # <<>>
  BY DEF GapHandles
<1> QED
  BY <1>1, SwitchWaits DEF IInv, QueuesLead

(* What is left of the switch once its event is taken.                       *)
LEMMA SwitchHandled ==
    ASSUME IInv, NEW id \in SwitchIds, GapHandles(id)
    PROVE  /\ NoSwitch(Tail(gapEvents)) /\ NoSwitch(mainEvents) /\ switching
           /\ Fits(Head(gapEvents), adapter)
           /\ adapter \in {"on", "off"}
<1>1. gapEvents # <<>> /\ gapEvents \in Seq(Events) /\ Head(gapEvents).id = id
  BY HeadOfGap
<1>2. ~NoSwitch(gapEvents) /\ NoSwitch(Tail(gapEvents)) /\ Fits(Head(gapEvents), adapter)
  BY <1>1, SwitchRest DEF IInv, Handshake
<1> QED
  BY <1>1, <1>2 DEF IInv, Handshake, DevicesTypeOK

(* The stack is asked to turn on or off.                                     *)
LEMMA SwitchRequestKeeps == ASSUME IInv, HandleEnableReq \/ HandleDisableReq PROVE IInv'
<1> USE DEF gapTable, mainState, inquiry, commandVars
<1>1. PICK id \in {"API_ENABLE", "API_DISABLE"} :
         /\ GapHandles(id) /\ gapEvents' = Tail(gapEvents) \o <<>>
         /\ id = "API_ENABLE" => adapter' = "starting" /\ gapState' = "TURNING_ON"
         /\ id = "API_DISABLE" => adapter' = "stopping" /\ gapState' = "TURNING_OFF"
  BY DEF HandleEnableReq, HandleDisableReq, ThenPost
<1>2. UNCHANGED <<bonds, pairing, scanning, gapTable, mainEvents, mainState, misled, abandoned>>
  BY DEF HandleEnableReq, HandleDisableReq
<1>3. /\ gapEvents # <<>> /\ gapEvents \in Seq(Events) /\ mainEvents \in Seq(Events)
      /\ Head(gapEvents) \in Events /\ Head(gapEvents).id = id /\ Tail(gapEvents) \in Seq(Events)
      /\ mainEvents' = mainEvents \o <<>> /\ <<>> \in Seq(Events)
  BY <1>1, <1>2, HeadOfGap, NothingMore
<1>4. /\ NoSwitch(Tail(gapEvents)) /\ NoSwitch(mainEvents) /\ switching
      /\ adapter = IF id = "API_ENABLE" THEN "off" ELSE "on"
  <2>1. Fits(Head(gapEvents), adapter) => adapter = IF id = "API_ENABLE" THEN "off" ELSE "on"
    BY <1>1, <1>3 DEF Fits, IsOff, SwitchIds
  <2> QED
    BY <1>1, <2>1, SwitchHandled DEF SwitchIds
<1>5. DiscoveryPassed(<<>>) /\ BondsPassed(<<>>)
  <2>1. SaysNothing(Head(gapEvents))
    BY <1>1, <1>3, SayNothing DEF PlainIds
  <2> QED
    BY <1>2, <2>1, PassedByNone
<1>6. DiscoveryTold(<<>>) /\ BondsTold(<<>>)
  <2>1. \A d \in Device : Bonded(d)' <=> Bonded(d)
    BY <1>1, <1>2, <1>4 DEF Bonded, StackIsUp
  <2> QED
    BY <1>2, <2>1, ToldByNone
<1>7. DevicesTypeOK'
  BY <1>1, <1>2 DEF IInv, DevicesTypeOK, Listed
<1>8. TableSound' /\ StackSound'
  BY <1>1, <1>2, <1>4 DEF IInv, TableSound, StackSound, StackIsUp
<1>9. Handshake'
  <2>1. NoSwitch(gapEvents') /\ NoSwitch(mainEvents')
    BY <1>1, <1>2, <1>3, <1>4, NothingMore
  <2>2. AllFit(gapEvents', adapter') /\ AllFit(mainEvents', adapter')
    BY <2>1 DEF NoSwitch, AllFit, Fits
  <2>3. OneSwitch(gapEvents') /\ OneSwitch(mainEvents')
    BY <2>1 DEF NoSwitch, OneSwitch
  <2> QED
    BY <1>1, <1>2, <1>4, <2>1, <2>2, <2>3 DEF Handshake
<1> QED
  BY <1>1, <1>2, <1>3, <1>5, <1>6, <1>7, <1>8, <1>9, HandlerKeeps

(* The stack is on, and the profiles are started.                            *)
LEMMA StateOnKeeps == ASSUME IInv, AdapterStateChanged, About PROVE IInv'
<1> USE DEF gapTable, mainState, inquiry, commandVars, stackState
<1> DEFINE e == Ev("PROFILES_STARTED", NoDevice)
<1>1. /\ GapHandles("ADAPTER_STATE") /\ gapEvents' = Tail(gapEvents) \o <<e>> /\ gapState' = "ON"
      /\ UNCHANGED <<stackState, gapTable, mainEvents, mainState, misled, abandoned>>
  BY DEF AdapterStateChanged, ThenPost
<1>2. e \in Events /\ e.id = "PROFILES_STARTED" /\ <<e>> \in Seq(Events)
  <2>1. e \in Events
    BY EventsMade DEF PlainIds
  <2> QED
    BY <2>1 DEF Ev
<1> HIDE DEF e
<1>3. /\ gapEvents # <<>> /\ gapEvents \in Seq(Events) /\ mainEvents \in Seq(Events)
      /\ Head(gapEvents) \in Events /\ Head(gapEvents).id = "ADAPTER_STATE" /\ Head(gapEvents).about
      /\ Tail(gapEvents) \in Seq(Events) /\ mainEvents' = mainEvents \o <<>> /\ <<>> \in Seq(Events)
  BY <1>1, HeadOfGap, NothingMore DEF About
<1>4. NoSwitch(Tail(gapEvents)) /\ NoSwitch(mainEvents) /\ switching /\ adapter = "on"
  <2>1. Fits(Head(gapEvents), adapter) => adapter = "on"
    BY <1>3 DEF Fits, IsOff, SwitchIds
  <2> QED
    BY <1>1, <2>1, SwitchHandled DEF SwitchIds
<1>5. DiscoveryPassed(<<>>) /\ BondsPassed(<<>>)
  <2>1. SaysNothing(Head(gapEvents))
    BY <1>3 DEF SaysNothing, OfDiscovery, OfBond, IsOff
  <2> QED
    BY <1>1, <2>1, PassedByNone
<1>6. DiscoveryTold(<<e>>) /\ BondsTold(<<e>>)
  <2>1. SaysNothing(e)
    BY <1>2, SayNothing DEF PlainIds
  <2> QED
    BY <1>1, <1>2, <2>1, ToldQuietly
<1>7. DevicesTypeOK'
  BY <1>1 DEF IInv, DevicesTypeOK, Listed
<1>8. TableSound' /\ StackSound'
  BY <1>1 DEF IInv, TableSound, StackSound, StackIsUp
<1>9. Handshake'
  <2>1. Fits(e, adapter')
    BY <1>1, <1>2, <1>4 DEF Fits, IsOff
  <2>2. OneSwitch(<<e>>) /\ AllFit(<<e>>, adapter')
    BY <2>1, SwitchShort
  <2>3. AllFit(Tail(gapEvents), adapter') /\ AllFit(mainEvents, adapter')
    BY <1>3, <1>4, SwitchJoin
  <2>4. OneSwitch(gapEvents') /\ AllFit(gapEvents', adapter')
    BY <1>1, <1>2, <1>3, <1>4, <2>2, <2>3, SwitchJoin
  <2>5. OneSwitch(mainEvents)
    BY DEF IInv, Handshake
  <2> QED
    BY <1>1, <1>4, <2>3, <2>4, <2>5 DEF Handshake
<1> QED
  BY <1>1, <1>2, <1>3, <1>5, <1>6, <1>7, <1>8, <1>9, HandlerKeeps

(* It is off: the table is cleared, and the user is told.                    *)
LEMMA StateOffKeeps == ASSUME IInv, AdapterStateChanged, ~About PROVE IInv'
<1> USE DEF gapTable, mainState, inquiry, commandVars, stackState
<1> DEFINE e == Ev("DISABLED", NoDevice)
<1>1. /\ GapHandles("ADAPTER_STATE") /\ gapEvents' = Tail(gapEvents) \o <<>>
      /\ mainEvents' = mainEvents \o <<e>> /\ gapState' = "OFF"
      /\ bonded_devices' = {} /\ broadcast' = {} /\ bond_state' = [d \in Device |-> "NONE"]
      /\ UNCHANGED <<stackState, mainState, misled, abandoned>>
  BY DEF AdapterStateChanged, ThenPost, TellUser
<1>2. e \in Events /\ e.id = "DISABLED" /\ <<e>> \in Seq(Events)
  <2>1. e \in Events
    BY EventsMade DEF PlainIds
  <2> QED
    BY <2>1 DEF Ev
<1> HIDE DEF e
<1>3. /\ gapEvents # <<>> /\ gapEvents \in Seq(Events) /\ mainEvents \in Seq(Events)
      /\ Head(gapEvents) \in Events /\ Head(gapEvents).id = "ADAPTER_STATE" /\ ~Head(gapEvents).about
      /\ Tail(gapEvents) \in Seq(Events) /\ Tail(gapEvents) \o <<>> = Tail(gapEvents) /\ <<>> \in Seq(Events)
  BY <1>1, HeadOfGap, NothingMore DEF About
<1>4. NoSwitch(Tail(gapEvents)) /\ NoSwitch(mainEvents) /\ switching /\ adapter = "off"
  <2>1. Fits(Head(gapEvents), adapter) => adapter = "off"
    BY <1>3 DEF Fits, IsOff, SwitchIds
  <2> QED
    BY <1>1, <2>1, SwitchHandled DEF SwitchIds
<1>5. /\ OfDiscovery[e] = "no" /\ OfDiscovery[Head(gapEvents)] = "no"
      /\ \A d \in Device : OfBond(d)[e] = "no" /\ OfBond(d)[Head(gapEvents)] = "no"
  BY <1>2, <1>3 DEF OfDiscovery, OfBond, IsOff
<1>6. \A says, word : Leads(<<e>>, says, word, Then(says, e, word))
  BY LeadsShort
<1>7. DiscoveryPassed(<<e>>)
  BY <1>5, <1>6 DEF DiscoveryPassed, Then
<1>8. BondsPassed(<<e>>)
  <2>1. \A d \in Device, heard \in Words : Leads(<<e>>, OfBond(d), heard, "no")
    BY <1>5, <1>6 DEF Then
  <2>2. \A d \in Device : Justified(d, "no")'
    BY <1>1 DEF Justified
  <2>3. \A d \in Device : Word(d \in bonded_devices') = Then(OfBond(d), Head(gapEvents), Word(d \in bonded_devices))
    BY <1>1, <1>5 DEF Word, Then
  <2> QED
    BY <2>1, <2>2, <2>3 DEF BondsPassed, Words
<1>9. DiscoveryTold(<<>>) /\ BondsTold(<<>>)
  <2>1. \A d \in Device : Bonded(d)' <=> Bonded(d)
    BY <1>1 DEF Bonded, StackIsUp
  <2> QED
    BY <1>1, <2>1, ToldByNone
<1>10. DevicesTypeOK'
  BY <1>1 DEF IInv, DevicesTypeOK, Listed
<1>11. TableSound' /\ StackSound'
  BY <1>1 DEF IInv, TableSound, StackSound, StackIsUp
<1>12. Handshake'
  <2>1. Fits(e, adapter')
    BY <1>1, <1>2, <1>4 DEF Fits, IsOff
  <2>2. OneSwitch(<<e>>) /\ AllFit(<<e>>, adapter')
    BY <2>1, SwitchShort
  <2>3. NoSwitch(gapEvents') /\ AllFit(gapEvents', adapter') /\ AllFit(mainEvents, adapter')
    <3>1. gapEvents' = Tail(gapEvents) /\ NoSwitch(gapEvents')
      BY <1>1, <1>3, <1>4
    <3>2. AllFit(gapEvents', adapter')
      BY <1>3, <3>1, SwitchJoin
    <3>3. AllFit(mainEvents, adapter')
      BY <1>3, <1>4, SwitchJoin
    <3> QED
      BY <3>1, <3>2, <3>3
  <2>4. OneSwitch(mainEvents') /\ AllFit(mainEvents', adapter')
    BY <1>1, <1>2, <1>3, <1>4, <2>2, <2>3, SwitchJoin
  <2>5. OneSwitch(gapEvents')
    BY <2>3 DEF NoSwitch, OneSwitch
  <2> QED
    BY <1>1, <1>4, <2>3, <2>4, <2>5 DEF Handshake
<1> QED
  BY <1>1, <1>2, <1>3, <1>7, <1>8, <1>9, <1>10, <1>11, <1>12, HandlerKeeps

(* The profiles are started, and the user is told that it is on.             *)
LEMMA ProfilesStartedKeeps == ASSUME IInv, ProfilesStarted PROVE IInv'
<1> USE DEF gapTable, mainState, inquiry, commandVars, stackState
<1> DEFINE e == Ev("ENABLED", NoDevice)
<1>1. /\ GapHandles("PROFILES_STARTED") /\ gapEvents' = Tail(gapEvents) \o <<>>
      /\ mainEvents' = mainEvents \o <<e>>
      /\ UNCHANGED <<stackState, gapState, gapTable, mainState, misled, abandoned>>
  BY DEF ProfilesStarted, ThenPost, TellUser
<1>2. e \in Events /\ e.id = "ENABLED" /\ <<e>> \in Seq(Events)
  <2>1. e \in Events
    BY EventsMade DEF PlainIds
  <2> QED
    BY <2>1 DEF Ev
<1> HIDE DEF e
<1>3. /\ gapEvents # <<>> /\ gapEvents \in Seq(Events) /\ mainEvents \in Seq(Events)
      /\ Head(gapEvents) \in Events /\ Head(gapEvents).id = "PROFILES_STARTED"
      /\ Tail(gapEvents) \in Seq(Events) /\ Tail(gapEvents) \o <<>> = Tail(gapEvents) /\ <<>> \in Seq(Events)
  BY <1>1, HeadOfGap, NothingMore
<1>4. NoSwitch(Tail(gapEvents)) /\ NoSwitch(mainEvents) /\ switching /\ adapter = "on"
  <2>1. Fits(Head(gapEvents), adapter) => adapter = "on"
    BY <1>3 DEF Fits, IsOff, SwitchIds
  <2> QED
    BY <1>1, <2>1, SwitchHandled DEF SwitchIds
<1>5. SaysNothing(e) /\ SaysNothing(Head(gapEvents))
  BY <1>2, <1>3, SayNothing DEF PlainIds
<1>6. DiscoveryPassed(<<e>>) /\ BondsPassed(<<e>>)
  BY <1>1, <1>2, <1>5, PassedOn DEF SaysNothing
<1>7. DiscoveryTold(<<>>) /\ BondsTold(<<>>)
  <2>1. \A d \in Device : Bonded(d)' <=> Bonded(d)
    BY <1>1 DEF Bonded, StackIsUp
  <2> QED
    BY <1>1, <2>1, ToldByNone
<1>8. DevicesTypeOK'
  BY <1>1 DEF IInv, DevicesTypeOK, Listed
<1>9. TableSound' /\ StackSound'
  BY <1>1 DEF IInv, TableSound, StackSound, StackIsUp
<1>10. Handshake'
  <2>1. Fits(e, adapter')
    BY <1>1, <1>2, <1>4 DEF Fits, IsOff
  <2>2. OneSwitch(<<e>>) /\ AllFit(<<e>>, adapter')
    BY <2>1, SwitchShort
  <2>3. NoSwitch(gapEvents') /\ AllFit(gapEvents', adapter') /\ AllFit(mainEvents, adapter')
    <3>1. gapEvents' = Tail(gapEvents)
      BY <1>1, <1>3
    <3>2. AllFit(Tail(gapEvents), adapter') /\ AllFit(mainEvents, adapter')
      BY <1>3, <1>4, SwitchJoin
    <3> QED
      BY <1>4, <3>1, <3>2
  <2>4. OneSwitch(mainEvents') /\ AllFit(mainEvents', adapter')
    BY <1>1, <1>2, <1>3, <1>4, <2>2, <2>3, SwitchJoin
  <2>5. OneSwitch(gapEvents')
    BY <2>3 DEF NoSwitch, OneSwitch
  <2> QED
    BY <1>1, <1>4, <2>3, <2>4, <2>5 DEF IInv, Handshake
<1> QED
  BY <1>1, <1>2, <1>3, <1>6, <1>7, <1>8, <1>9, <1>10, HandlerKeeps

(* A handler that leaves the table and the switch alone, and says what it has *)
(* done to the stack.                                                        *)
LEMMA CallsKeep ==
    ASSUME IInv, NEW id, GapHandles(id), SaysNothing(Head(gapEvents)),
           NEW more \in Seq(Events), NoSwitch(more), gapEvents' = Tail(gapEvents) \o more,
           DiscoveryTold(more), BondsTold(more), StackSound', pairing' \in Device \union {NoDevice},
           scanning' \in BOOLEAN, misled' \in BOOLEAN, abandoned' \in BOOLEAN,
           UNCHANGED <<adapter, bonds, gapState, gapTable, mainEvents, mainState>>
    PROVE  IInv'
<1> USE DEF gapTable, mainState, inquiry, commandVars
<1>1. /\ gapEvents # <<>> /\ mainEvents' = mainEvents \o <<>> /\ <<>> \in Seq(Events) /\ NoSwitch(<<>>)
  BY HeadOfGap, NothingMore
<1>2. DiscoveryPassed(<<>>) /\ BondsPassed(<<>>)
  BY PassedByNone
<1>3. DevicesTypeOK'
  <2>1. {scanning, bt_state, switching, enquiry_cmd, stop_enquiry_cmd, pairing_cmd,
         bt_discovery_state, misled, abandoned}' \subseteq BOOLEAN
    BY DEF IInv, DevicesTypeOK
  <2> QED
    BY <2>1 DEF IInv, DevicesTypeOK, Listed
<1>4. TableSound'
  BY DEF IInv, TableSound
<1>5. Handshake'
  BY <1>1, NoSwitchHandled
<1> QED
  BY <1>1, <1>2, <1>3, <1>4, <1>5, HandlerKeeps

(* The report, if there is one, is the last word on the discovery.           *)
LEMMA ReportsTold ==
    ASSUME NEW ends \in {<<>>, <<TRUE>>, <<FALSE>>}, Reports(ends),
           ends = <<>> => UNCHANGED scanning, UNCHANGED <<adapter, bonds>>,
           misled \in BOOLEAN, scanning' \in BOOLEAN
    PROVE  \E more \in Seq(Events) : /\ gapEvents' = Tail(gapEvents) \o more /\ NoSwitch(more)
                                     /\ DiscoveryTold(more) /\ BondsTold(more) /\ misled' \in BOOLEAN
<1>1. \A d \in Device : Bonded(d)' <=> Bonded(d)
  BY DEF Bonded, StackIsUp
<1>2. CASE ends = <<>>
  <2>1. [i \in DOMAIN ends |-> Discovery(ends[i])] = <<>>
    BY <1>2
  <2>2. gapEvents' = Tail(gapEvents) \o <<>> /\ misled' = misled /\ UNCHANGED scanning
    BY <1>2, <2>1 DEF Reports, ThenPost
  <2>3. DiscoveryTold(<<>>) /\ BondsTold(<<>>)
    BY <1>1, <2>2, ToldByNone
  <2>4. NoSwitch(<<>>) /\ <<>> \in Seq(Events)
    BY DEF NoSwitch
  <2> QED
    BY <2>2, <2>3, <2>4
<1>3. ASSUME NEW b \in BOOLEAN, ends = <<b>>
      PROVE  \E more \in Seq(Events) : /\ gapEvents' = Tail(gapEvents) \o more /\ NoSwitch(more)
                                       /\ DiscoveryTold(more) /\ BondsTold(more) /\ misled' \in BOOLEAN
  <2> DEFINE e == Discovery(b)
  <2>1. DOMAIN ends = 1 .. 1 /\ ends[1] = b /\ ends # <<>>
    BY <1>3
  <2>2. [i \in DOMAIN ends |-> Discovery(ends[i])] = <<e>>
    BY <2>1
  <2>3. gapEvents' = Tail(gapEvents) \o <<e>> /\ misled' = (b # scanning')
    BY <2>1, <2>2 DEF Reports, ThenPost
  <2>4. e \in Events /\ e.id = "DISCOVERY_STATE" /\ e.about = b
    BY EventsMade DEF Discovery, Ev
  <2> HIDE DEF e
  <2>5. OfDiscovery[e] = Word(b) /\ \A d \in Device : OfBond(d)[e] = "silent"
    BY <2>4, EventsSay DEF OfDiscovery
  <2>6. DiscoveryTold(<<e>>)
    BY <2>3, <2>4, <2>5, ToldByOne DEF Then, Word
  <2>7. BondsTold(<<e>>)
    BY <1>1, <2>4, <2>5, ToldByOne DEF Then, Word
  <2>8. <<e>> \in Seq(Events) /\ NoSwitch(<<e>>)
    BY <2>4, NoSwitchIn DEF SwitchIds
  <2> QED
    BY <2>3, <2>6, <2>7, <2>8
<1> QED
  BY <1>2, <1>3

(* A discovery is started or stopped, or that is refused.                    *)
LEMMA DiscoveryRequestKeeps == ASSUME IInv, HandleStartDiscovery \/ HandleStopDiscovery PROVE IInv'
<1> USE DEF gapTable, mainState, inquiry, commandVars
<1>1. PICK ends \in {<<>>, <<TRUE>>, <<FALSE>>} :
         Reports(ends) /\ (ends = <<>> => UNCHANGED scanning) /\ scanning' \in BOOLEAN
  <2>1. scanning \in BOOLEAN
    BY DEF IInv, DevicesTypeOK
  <2>2. CASE HandleStartDiscovery
    BY <2>1, <2>2 DEF HandleStartDiscovery
  <2>3. CASE HandleStopDiscovery
    BY <2>1, <2>3 DEF HandleStopDiscovery, EndsOfDiscovery
  <2> QED
    BY <2>2, <2>3
<1>2. PICK id \in {"API_START_INQUIRY", "API_STOP_INQUIRY"} : GapHandles(id)
  BY DEF HandleStartDiscovery, HandleStopDiscovery
<1>3. UNCHANGED <<adapter, bonds, pairing, gapState, gapTable, mainEvents, mainState, abandoned>>
  BY DEF HandleStartDiscovery, HandleStopDiscovery
<1>4. SaysNothing(Head(gapEvents))
  BY <1>2, HeadOfGap, SayNothing DEF PlainIds
<1>5. PICK more \in Seq(Events) : /\ gapEvents' = Tail(gapEvents) \o more /\ NoSwitch(more)
                                  /\ DiscoveryTold(more) /\ BondsTold(more) /\ misled' \in BOOLEAN
  BY <1>1, <1>3, ReportsTold DEF IInv, DevicesTypeOK
<1>6. StackSound' /\ pairing' \in Device \union {NoDevice} /\ abandoned' \in BOOLEAN
  BY <1>3 DEF IInv, StackSound, StackIsUp, DevicesTypeOK
<1> QED
  BY <1>1, <1>2, <1>3, <1>4, <1>5, <1>6, CallsKeep

(* A pairing: the stack may end its discovery, may begin to pair, both, or    *)
(* neither, and says so in that order.                                       *)
LEMMA CreateBondKeeps == ASSUME IInv, CreateBond PROVE IInv'
<1> USE DEF gapTable, mainState, inquiry, commandVars
<1>1. /\ GapHandles("API_CREATE_BOND")
      /\ UNCHANGED <<adapter, bonds, gapState, gapTable, mainEvents, mainState>>
  BY DEF CreateBond
<1>2. PICK ends \in {<<>>, <<FALSE>>}, accepts \in BOOLEAN :
         /\ ends # <<>> => adapter = "on"
         /\ accepts => adapter = "on" /\ pairing = NoDevice
         /\ scanning' = (scanning /\ ends = <<>>) /\ misled' = (misled /\ ends = <<>>)
         /\ pairing' = IF accepts THEN About ELSE pairing
         /\ ThenPost([i \in DOMAIN ends |-> Discovery(FALSE)]
                     \o IF accepts THEN <<BondState(About, "BONDING")>> ELSE <<>>)
         /\ abandoned' = (pairing_cmd /\ (abandoned \/ (~accepts /\ pairing = NoDevice)))
  <2>1. EndsOfDiscovery \subseteq {<<>>, <<FALSE>>}
    BY DEF EndsOfDiscovery
  <2> QED
    BY <2>1 DEF CreateBond
<1>3. /\ gapEvents \in Seq(Events) /\ Head(gapEvents) \in Events
      /\ Head(gapEvents).id = "API_CREATE_BOND" /\ About \in Device
  BY <1>1, HeadOfGap, EventsRead DEF About, DeviceIds
<1>4. SaysNothing(Head(gapEvents))
  BY <1>3, SayNothing DEF DeviceIds
<1> DEFINE report == [i \in DOMAIN ends |-> Discovery(FALSE)]
           answer == IF accepts THEN <<BondState(About, "BONDING")>> ELSE <<>>
<1>5. report \in Seq(Events) /\ NoSwitch(report) /\ DiscoveryTold(report) /\ BondsTold(report)
  <2>1. \A d \in Device : Bonded(d)' <=> Bonded(d)
    BY <1>1 DEF Bonded, StackIsUp
  <2>2. CASE ends = <<>>
    <3>1. report = <<>> /\ UNCHANGED <<scanning, misled>>
      BY <1>2, <2>2 DEF IInv, DevicesTypeOK
    <3> HIDE DEF report
    <3>2. DiscoveryTold(<<>>) /\ BondsTold(<<>>)
      BY <2>1, <3>1, ToldByNone
    <3> QED
      BY <3>1, <3>2 DEF NoSwitch
  <2>3. CASE ends = <<FALSE>>
    <3> DEFINE e == Discovery(FALSE)
    <3>1. ends # <<>> /\ DOMAIN ends = 1 .. 1
      BY <2>3
    <3>2. report = <<e>> /\ scanning' = FALSE /\ misled' = FALSE
      <4>1. \A x : [i \in 1 .. 1 |-> x] = <<x>>
        OBVIOUS
      <4> HIDE DEF e
      <4>3. report = [i \in 1 .. 1 |-> e]
        BY <3>1 DEF e
      <4>2. scanning' = FALSE /\ misled' = FALSE
        BY <1>2, <3>1
      <4> QED
        BY <4>1, <4>2, <4>3
    <3>3. e \in Events /\ e.id = "DISCOVERY_STATE" /\ e.about = FALSE
      BY EventsMade DEF Discovery, Ev
    <3> HIDE DEF e, report
    <3>4. OfDiscovery[e] = "no" /\ \A d \in Device : OfBond(d)[e] = "silent"
      BY <3>3, EventsSay DEF OfDiscovery, Word
    <3>5. DiscoveryTold(<<e>>)
      BY <3>2, <3>3, <3>4, ToldByOne DEF Then, Word
    <3>6. BondsTold(<<e>>)
      BY <2>1, <3>3, <3>4, ToldByOne DEF Then, Word
    <3>7. <<e>> \in Seq(Events) /\ NoSwitch(<<e>>)
      BY <3>3, NoSwitchIn DEF SwitchIds
    <3> QED
      BY <3>2, <3>5, <3>6, <3>7
  <2> QED
    BY <2>2, <2>3
<1>6. /\ answer \in Seq(Events) /\ NoSwitch(answer)
      /\ \A word : Leads(answer, OfDiscovery, word, word)
      /\ \A d \in Device : \A word : Leads(answer, OfBond(d), word, word)
  <2>1. CASE accepts
    <3> DEFINE e == BondState(About, "BONDING")
    <3>1. e \in Events /\ e.id = "BOND_STATE" /\ e.about.bond = "BONDING"
      BY <1>3, EventsMade DEF BondState, Ev, Bonds
    <3>2. answer = <<e>>
      BY <2>1
    <3> HIDE DEF e, answer
    <3>3. SaysNothing(e)
      BY <3>1, BondingSaysNothing
    <3>4. \A says, word : Leads(<<e>>, says, word, Then(says, e, word))
      BY LeadsShort
    <3>5. <<e>> \in Seq(Events) /\ NoSwitch(<<e>>)
      BY <3>1, NoSwitchIn DEF SwitchIds
    <3> QED
      BY <3>2, <3>3, <3>4, <3>5 DEF SaysNothing, Then
  <2>2. CASE ~accepts
    <3>1. answer = <<>>
      BY <2>2
    <3>2. \A says, word : Leads(<<>>, says, word, word)
      BY LeadsShort
    <3> QED
      BY <3>1, <3>2 DEF NoSwitch
  <2> QED
    BY <2>1, <2>2
<1>7. gapEvents' = Tail(gapEvents) \o (report \o answer)
  BY <1>2 DEF ThenPost
<1> HIDE DEF report, answer
<1>8. report \o answer \in Seq(Events) /\ NoSwitch(report \o answer)
  BY <1>5, <1>6, SwitchJoin, JoinOfQueues
<1>9. DiscoveryTold(report \o answer)
  <2>1. ASSUME NEW word \in Words, ~misled => word = Word(scanning)
        PROVE  \E new \in Words : /\ Leads(report \o answer, OfDiscovery, word, new)
                                  /\ ~misled' => new = Word(scanning')
    <3>1. PICK new \in Words : Leads(report, OfDiscovery, word, new) /\ (~misled' => new = Word(scanning'))
      BY <1>5, <2>1 DEF DiscoveryTold
    <3>2. Leads(report \o answer, OfDiscovery, word, new)
      BY <1>5, <1>6, <3>1, LeadsJoin
    <3> QED
      BY <3>1, <3>2
  <2> QED
    BY <2>1 DEF DiscoveryTold
<1>10. BondsTold(report \o answer)
  <2> SUFFICES ASSUME NEW d \in Device
               PROVE  Leads(report \o answer, OfBond(d), Word(Bonded(d)), Word(Bonded(d)'))
    BY DEF BondsTold
  <2>1. /\ Leads(report, OfBond(d), Word(Bonded(d)), Word(Bonded(d)'))
        /\ Leads(answer, OfBond(d), Word(Bonded(d)'), Word(Bonded(d)'))
    BY <1>5, <1>6 DEF BondsTold
  <2> QED
    BY <1>5, <1>6, <2>1, LeadsJoin
<1>11. StackSound'
  BY <1>1, <1>2 DEF IInv, StackSound, StackIsUp
<1>12. /\ pairing' \in Device \union {NoDevice}
       /\ scanning' \in BOOLEAN /\ misled' \in BOOLEAN /\ abandoned' \in BOOLEAN
  <2>1. pairing' \in Device \union {NoDevice}
    BY <1>2, <1>3 DEF IInv, DevicesTypeOK
  <2>2. scanning' \in BOOLEAN /\ misled' \in BOOLEAN /\ abandoned' \in BOOLEAN
    BY <1>2
  <2> QED
    BY <2>1, <2>2
<1> QED
  BY <1>1, <1>4, <1>7, <1>8, <1>9, <1>10, <1>11, <1>12, CallsKeep

(* A handler that calls nothing and posts nothing to its own thread.         *)
LEMMA ListensKeep ==
    ASSUME IInv, NEW id, GapHandles(id), NEW told \in Seq(Events), NoSwitch(told),
           gapEvents' = Tail(gapEvents) \o <<>>, mainEvents' = mainEvents \o told,
           DiscoveryPassed(told), BondsPassed(told), TableSound',
           bond_state' \in [Device -> Bonds], broadcast' \subseteq Device, bonded_devices' \subseteq Device,
           UNCHANGED <<stackState, gapState, mainState, misled, abandoned>>
    PROVE  IInv'
<1> USE DEF stackState, mainState, inquiry, commandVars
<1>1. /\ gapEvents # <<>> /\ <<>> \in Seq(Events) /\ NoSwitch(<<>>)
  BY HeadOfGap, NothingMore
<1>2. DiscoveryTold(<<>>) /\ BondsTold(<<>>)
  <2>1. \A d \in Device : Bonded(d)' <=> Bonded(d)
    BY DEF Bonded, StackIsUp
  <2> QED
    BY <2>1, ToldByNone
<1>3. DevicesTypeOK'
  BY DEF IInv, DevicesTypeOK, Listed, Bonds
<1>4. StackSound'
  BY DEF IInv, StackSound, StackIsUp
<1>5. Handshake'
  BY <1>1, NoSwitchHandled
<1> QED
  BY <1>1, <1>2, <1>3, <1>4, <1>5, HandlerKeeps

(* What is found of a discovery goes on to the user.                         *)
LEMMA FoundKeeps == ASSUME IInv, HandleDiscoveryStateChange \/ DeviceFound PROVE IInv'
<1> DEFINE e == Head(gapEvents)
<1>1. PICK id \in {"DISCOVERY_STATE", "DEVICE_FOUND"} : GapHandles(id)
  BY DEF HandleDiscoveryStateChange, DeviceFound
<1>2. /\ gapEvents' = Tail(gapEvents) \o <<>> /\ mainEvents' = mainEvents \o <<e>>
      /\ UNCHANGED <<stackState, gapState, gapTable, mainState, misled, abandoned>>
  BY DEF HandleDiscoveryStateChange, DeviceFound, ThenPost, TellUser
<1>3. e \in Events /\ e.id = id
  BY <1>1, HeadOfGap
<1>4. \A d \in Device : OfBond(d)[e] = "silent"
  BY <1>3, EventsSay DEF DeviceIds
<1> HIDE DEF e
<1>5. DiscoveryPassed(<<e>>) /\ BondsPassed(<<e>>)
  <2>1. \A d \in Device : OfBond(d)[Head(gapEvents)] = "silent"
    BY <1>4 DEF e
  <2>2. OfDiscovery[e] = OfDiscovery[Head(gapEvents)]
    BY DEF e
  <2> QED
    BY <1>2, <1>3, <1>4, <2>1, <2>2, PassedOn
<1>6. <<e>> \in Seq(Events) /\ NoSwitch(<<e>>)
  BY <1>3, NoSwitchIn DEF SwitchIds
<1>7. TableSound' /\ bond_state' \in [Device -> Bonds] /\ broadcast' \subseteq Device
      /\ bonded_devices' \subseteq Device
  BY <1>2 DEF IInv, TableSound, DevicesTypeOK, Bonds, gapTable
<1> QED
  BY <1>1, <1>2, <1>5, <1>6, <1>7, ListensKeep

(* A bond that is in the table already is not passed on; another is, and is   *)
(* what the table then says.                                                 *)
LEMMA BondStateKeeps == ASSUME IInv, HandleBondStateEvent PROVE IInv'
<1> USE DEF gapTable
<1> DEFINE e == Head(gapEvents)
<1>1. /\ GapHandles("BOND_STATE") /\ gapEvents' = Tail(gapEvents) \o <<>>
      /\ UNCHANGED <<stackState, gapState, mainState, misled, abandoned>>
  BY DEF HandleBondStateEvent, ThenPost
<1>2. /\ e \in Events /\ e.id = "BOND_STATE" /\ e = Head(gapEvents)
      /\ mainEvents \o <<>> = mainEvents /\ <<>> \in Seq(Events) /\ NoSwitch(<<>>)
  BY <1>1, HeadOfGap, NothingMore
<1>3. /\ bond_state \in [Device -> Bonds] /\ broadcast \subseteq Device /\ bonded_devices \subseteq Device
      /\ TableSound
  BY DEF IInv, DevicesTypeOK, Bonds
<1> DEFINE x == e.about.device
           b == e.about.bond
<1>4. \/ bond_state[x] = b /\ UNCHANGED <<gapTable, mainEvents>>
      \/ /\ bond_state[x] # b /\ BecomeBond({x}, b)
         /\ mainEvents' = mainEvents \o <<e>> /\ UNCHANGED broadcast
  BY DEF HandleBondStateEvent, About, TellUser
<1> HIDE DEF e
<1>5. x \in Device /\ b \in Bonds
  BY <1>2, EventsRead
<1>6. /\ OfDiscovery[e] = "silent"
      /\ \A d \in Device : OfBond(d)[e] = IF x # d \/ b = "BONDING" THEN "silent" ELSE Word(b = "BONDED")
  BY <1>2, <1>5, EventsSay
<1> HIDE DEF x, b
<1>7. CASE bond_state[x] = b /\ UNCHANGED <<gapTable, mainEvents>>
  <2>1. \A says, word : Leads(<<>>, says, word, word)
    BY LeadsShort
  <2>2. DiscoveryPassed(<<>>)
    BY <1>2, <1>6, <2>1 DEF DiscoveryPassed, Then
  <2>3. BondsPassed(<<>>)
    <3>1. ASSUME NEW d \in Device
          PROVE  Word(d \in bonded_devices) = Then(OfBond(d), e, Word(d \in bonded_devices))
      BY <1>3, <1>5, <1>6, <1>7 DEF Then, Word, TableSound, Bonds
    <3> QED
      BY <1>2, <1>7, <2>1, <3>1 DEF BondsPassed, Justified
  <2>4. TableSound' /\ bond_state' \in [Device -> Bonds] /\ broadcast' \subseteq Device
        /\ bonded_devices' \subseteq Device /\ mainEvents' = mainEvents \o <<>>
    BY <1>2, <1>3, <1>7 DEF TableSound
  <2> QED
    BY <1>1, <1>2, <2>2, <2>3, <2>4, ListensKeep
<1>8. CASE /\ bond_state[x] # b /\ BecomeBond({x}, b)
           /\ mainEvents' = mainEvents \o <<e>> /\ UNCHANGED broadcast
  <2>1. \A says, word : Leads(<<e>>, says, word, Then(says, e, word))
    BY LeadsShort
  <2>2. DiscoveryPassed(<<e>>)
    BY <1>2, <2>1 DEF DiscoveryPassed
  <2>3. /\ bond_state' = [d \in Device |-> IF d = x THEN b ELSE bond_state[d]]
        /\ b = "BONDED" => bonded_devices' = bonded_devices \union {x}
        /\ b = "NONE" => bonded_devices' = bonded_devices \ {x}
        /\ b = "BONDING" => bonded_devices' = bonded_devices
    BY <1>8 DEF BecomeBond
  <2>4. BondsPassed(<<e>>)
    <3>1. ASSUME NEW d \in Device
          PROVE  Word(d \in bonded_devices') = Then(OfBond(d), e, Word(d \in bonded_devices))
      BY <1>5, <1>6, <2>3 DEF Then, Word, Bonds
    <3>2. ASSUME NEW d \in Device, NEW heard \in Words, Justified(d, heard), NEW new \in Words,
                 new = Then(OfBond(d), e, heard)
          PROVE  Justified(d, new)'
      BY <1>5, <1>6, <1>8, <2>3, <3>2 DEF Then, Word, Words, Bonds, Justified
    <3>3. \A d \in Device, heard \in Words : Then(OfBond(d), e, heard) \in Words
      BY <1>2, Verdicts
    <3>4. ASSUME NEW d \in Device, NEW heard \in Words, Justified(d, heard)
          PROVE  \E new \in Words : Leads(<<e>>, OfBond(d), heard, new) /\ Justified(d, new)'
      BY <2>1, <3>2, <3>3, <3>4
    <3> QED
      BY <1>2, <3>1, <3>4 DEF BondsPassed
  <2>5. TableSound'
    BY <1>3, <1>5, <2>3 DEF TableSound, Bonds
  <2>6. bond_state' \in [Device -> Bonds] /\ broadcast' \subseteq Device /\ bonded_devices' \subseteq Device
    BY <1>3, <1>5, <1>8, <2>3 DEF Bonds
  <2>7. <<e>> \in Seq(Events) /\ NoSwitch(<<e>>)
    BY <1>2, NoSwitchIn DEF SwitchIds
  <2> QED
    BY <1>1, <1>2, <1>8, <2>2, <2>4, <2>5, <2>6, <2>7, ListensKeep
<1> QED
  BY <1>4, <1>7, <1>8

(* The bonds as the stack starts: the user is not told, but will be.         *)
LEMMA AdapterPropertiesKeeps == ASSUME IInv, AdapterPropertiesUpdate PROVE IInv'
<1> USE DEF gapTable
<1> DEFINE e == Head(gapEvents)
<1>1. /\ GapHandles("ADAPTER_PROPERTIES") /\ gapEvents' = Tail(gapEvents) \o <<>>
      /\ BecomeBond(e.about, "BONDED") /\ broadcast' = broadcast \union e.about
      /\ UNCHANGED <<stackState, gapState, mainEvents, mainState, misled, abandoned>>
  BY DEF AdapterPropertiesUpdate, ThenPost, About
<1>2. /\ e \in Events /\ e.id = "ADAPTER_PROPERTIES" /\ e = Head(gapEvents)
      /\ mainEvents \o <<>> = mainEvents /\ <<>> \in Seq(Events) /\ NoSwitch(<<>>)
  BY <1>1, HeadOfGap, NothingMore
<1> HIDE DEF e
<1>3. e.about \in SUBSET Device
  BY <1>2, EventsRead
<1>4. /\ OfDiscovery[e] = "silent"
      /\ \A d \in Device : OfBond(d)[e] = IF d \in e.about THEN "yes" ELSE "silent"
  BY <1>2, <1>3, EventsSay DEF OfDiscovery, IsOff
<1>5. /\ bond_state' = [d \in Device |-> IF d \in e.about THEN "BONDED" ELSE bond_state[d]]
      /\ bonded_devices' = bonded_devices \union e.about
  BY <1>1 DEF BecomeBond
<1>6. \A says, word : Leads(<<>>, says, word, word)
  BY LeadsShort
<1>7. DiscoveryPassed(<<>>)
  BY <1>2, <1>4, <1>6 DEF DiscoveryPassed, Then
<1>8. BondsPassed(<<>>)
  <2>1. ASSUME NEW d \in Device
        PROVE  Word(d \in bonded_devices') = Then(OfBond(d), e, Word(d \in bonded_devices))
    BY <1>4, <1>5 DEF Then, Word
  <2>2. ASSUME NEW d \in Device, NEW heard \in Words, Justified(d, heard) PROVE Justified(d, heard)'
    BY <1>1, <1>5, <2>2 DEF Justified
  <2> QED
    BY <1>2, <1>6, <2>1, <2>2 DEF BondsPassed
<1>9. TableSound' /\ bond_state' \in [Device -> Bonds] /\ broadcast' \subseteq Device
      /\ bonded_devices' \subseteq Device /\ mainEvents' = mainEvents \o <<>>
  <2>1. bond_state \in [Device -> Bonds] /\ broadcast \subseteq Device /\ bonded_devices \subseteq Device
        /\ TableSound
    BY DEF IInv, DevicesTypeOK, Bonds
  <2>2. TableSound'
    BY <1>5, <2>1 DEF TableSound
  <2> QED
    BY <1>1, <1>2, <1>3, <1>5, <2>1, <2>2 DEF Bonds
<1> QED
  BY <1>1, <1>2, <1>7, <1>8, <1>9, ListensKeep

(* A bonded device's name is known: the user is told of it, for good.        *)
LEMMA RemotePropertiesKeeps == ASSUME IInv, RemoteDeviceProperties PROVE IInv'
<1> USE DEF gapTable
<1>1. /\ GapHandles("REMOTE_PROPERTIES") /\ gapEvents' = Tail(gapEvents) \o <<>>
      /\ UNCHANGED <<stackState, gapState, bond_state, bonded_devices, mainState, misled, abandoned>>
  BY DEF RemoteDeviceProperties, ThenPost
<1>2. /\ Head(gapEvents) \in Events /\ Head(gapEvents).id = "REMOTE_PROPERTIES" /\ About \in Device
      /\ mainEvents \o <<>> = mainEvents /\ <<>> \in Seq(Events) /\ NoSwitch(<<>>)
  BY <1>1, HeadOfGap, NothingMore, EventsRead DEF About, DeviceIds
<1>3. SaysNothing(Head(gapEvents))
  BY <1>2, SayNothing DEF DeviceIds
<1>4. /\ bond_state \in [Device -> Bonds] /\ broadcast \subseteq Device /\ bonded_devices \subseteq Device
      /\ TableSound /\ TableSound'
  BY <1>1 DEF IInv, DevicesTypeOK, Bonds, TableSound
<1>5. CASE UNCHANGED <<mainEvents, broadcast>>
  <2>1. DiscoveryPassed(<<>>) /\ BondsPassed(<<>>)
    BY <1>1, <1>3, <1>5, PassedByNone
  <2> QED
    BY <1>1, <1>2, <1>4, <1>5, <2>1, ListensKeep
<1>6. CASE /\ bond_state[About] = "BONDED" /\ broadcast' = broadcast \ {About}
           /\ mainEvents' = mainEvents \o <<BondState(About, "BONDED")>>
  <2> DEFINE e == BondState(About, "BONDED")
  <2>1. e \in Events /\ e.id = "BOND_STATE" /\ e.about.device = About /\ e.about.bond = "BONDED"
    BY <1>2, EventsMade DEF BondState, Ev, Bonds
  <2>2. mainEvents' = mainEvents \o <<e>>
    BY <1>6
  <2> HIDE DEF e
  <2>3. /\ OfDiscovery[e] = "silent"
        /\ \A d \in Device : OfBond(d)[e] = IF d = About THEN "yes" ELSE "silent"
    BY <1>2, <2>1, EventsSay DEF Word
  <2>4. \A says, word : Leads(<<e>>, says, word, Then(says, e, word))
    BY LeadsShort
  <2>5. DiscoveryPassed(<<e>>)
    BY <1>3, <2>3, <2>4 DEF DiscoveryPassed, Then, SaysNothing
  <2>6. BondsPassed(<<e>>)
    <3>1. \A d \in Device : Word(d \in bonded_devices')
                               = Then(OfBond(d), Head(gapEvents), Word(d \in bonded_devices))
      BY <1>1, <1>3 DEF Then, SaysNothing
    <3>2. About \in bonded_devices
      BY <1>2, <1>4, <1>6 DEF TableSound
    <3>3. ASSUME NEW d \in Device, NEW heard \in Words, Justified(d, heard), NEW new \in Words,
                 new = Then(OfBond(d), e, heard)
          PROVE  Justified(d, new)'
      BY <1>1, <1>6, <2>3, <3>2, <3>3 DEF Then, Words, Justified
    <3>4. \A d \in Device, heard \in Words : Then(OfBond(d), e, heard) \in Words
      BY <2>1, Verdicts
    <3>5. ASSUME NEW d \in Device, NEW heard \in Words, Justified(d, heard)
          PROVE  \E new \in Words : Leads(<<e>>, OfBond(d), heard, new) /\ Justified(d, new)'
      BY <2>4, <3>3, <3>4, <3>5
    <3> QED
      BY <3>1, <3>5 DEF BondsPassed
  <2>7. <<e>> \in Seq(Events) /\ NoSwitch(<<e>>)
    BY <2>1, NoSwitchIn DEF SwitchIds
  <2> QED
    BY <1>1, <1>4, <1>6, <2>2, <2>5, <2>6, <2>7, ListensKeep
<1> QED
  BY <1>5, <1>6 DEF RemoteDeviceProperties, TellUser

-----------------------------------------------------------------------------
(* The main thread.                                                          *)

LEMMA HeadOfMain ==
    ASSUME IInv, NEW id, MainHears(id)
    PROVE  /\ mainEvents # <<>> /\ mainEvents \in Seq(Events) /\ gapEvents \in Seq(Events)
           /\ Head(mainEvents) \in Events /\ Head(mainEvents).id = id
           /\ Tail(mainEvents) \in Seq(Events) /\ mainEvents' = Tail(mainEvents)
           /\ UNCHANGED <<stackState, gapState, gapTable, gapEvents, misled>>
  BY TailOfQueue DEF IInv, QueuesLead, QueuesOK, MainHears

(* The conjuncts of the invariant, for a step of the main thread.            *)
LEMMA HearingKeeps ==
    ASSUME IInv, NEW id, MainHears(id),
           Word(bt_discovery_state') = Then(OfDiscovery, Head(mainEvents), Word(bt_discovery_state)),
           \A d \in Device :
              Word(d \in user_bonded') = Then(OfBond(d), Head(mainEvents), Word(d \in user_bonded)),
           InquirySound', Handshake', user_bonded' \subseteq Device,
           {bt_state, switching, enquiry_cmd, stop_enquiry_cmd, pairing_cmd, bt_discovery_state,
            abandoned}' \subseteq BOOLEAN
    PROVE  IInv'
<1>1. /\ mainEvents # <<>> /\ mainEvents' = Tail(mainEvents)
      /\ UNCHANGED <<stackState, gapState, gapTable, gapEvents, misled>>
  BY HeadOfMain
<1>2. QueuesLead'
  BY <1>1, HearingLeads DEF IInv
<1>3. TableSound' /\ StackSound'
  BY <1>1 DEF IInv, TableSound, StackSound, StackIsUp, stackState, gapTable
<1>4. DevicesTypeOK'
  <2>1. {scanning, bt_state, switching, enquiry_cmd, stop_enquiry_cmd, pairing_cmd,
         bt_discovery_state, misled, abandoned}' \subseteq BOOLEAN
    BY <1>1 DEF IInv, DevicesTypeOK, stackState
  <2>2. Listed' \subseteq Device
    <3>1. inquiry_list' \in Seq(Device)
      BY DEF InquirySound
    <3> QED
      BY <3>1 DEF Listed
  <2> QED
    BY <1>1, <2>1, <2>2 DEF IInv, DevicesTypeOK, stackState, gapTable
<1> QED
  BY <1>2, <1>3, <1>4 DEF IInv

(* A step that hears of no switch.                                           *)
LEMMA SwitchUnheard ==
    ASSUME IInv, NEW id, MainHears(id), id \notin SwitchIds, UNCHANGED <<switching, bt_state>>
    PROVE  Handshake'
<1>1. /\ mainEvents # <<>> /\ mainEvents' = Tail(mainEvents) \o <<>> /\ gapEvents' = gapEvents \o <<>>
      /\ <<>> \in Seq(Events) /\ NoSwitch(<<>>) /\ UNCHANGED <<adapter, gapState>>
  BY HeadOfMain, NothingMore DEF stackState
<1> QED
  BY <1>1, SwitchWaits DEF IInv, QueuesLead

(* A step that hears that a switch is over.                                  *)
LEMMA SwitchHeard ==
    ASSUME IInv, NEW id \in {"ENABLED", "DISABLED"}, MainHears(id), switching' = FALSE,
           bt_state' = (id = "ENABLED")
    PROVE  Handshake'
<1>1. /\ mainEvents # <<>> /\ mainEvents \in Seq(Events) /\ Head(mainEvents).id = id
      /\ mainEvents' = Tail(mainEvents) /\ UNCHANGED <<adapter, gapState, gapEvents>>
  BY HeadOfMain DEF stackState
<1>2. ~NoSwitch(mainEvents) /\ NoSwitch(Tail(mainEvents)) /\ Fits(Head(mainEvents), adapter)
  BY <1>1, SwitchRest DEF IInv, Handshake, SwitchIds
<1>3. NoSwitch(gapEvents) /\ OneSwitch(gapEvents) /\ (gapState = "ON" => adapter = "on")
  BY <1>2 DEF IInv, Handshake
<1>4. adapter = IF bt_state' THEN "on" ELSE "off"
  BY <1>1, <1>2 DEF Fits, IsOff, SwitchIds
<1>5. /\ OneSwitch(mainEvents') /\ AllFit(mainEvents', adapter)
      /\ AllFit(gapEvents, adapter)
  BY <1>1, <1>2, <1>3 DEF NoSwitch, OneSwitch, AllFit, Fits
<1> QED
  BY <1>1, <1>2, <1>3, <1>4, <1>5 DEF Handshake

LEMMA AdapterEnabledKeeps == ASSUME IInv, AdapterEnabled PROVE IInv'
<1>1. /\ MainHears("ENABLED") /\ bt_state' = TRUE /\ switching' = FALSE
      /\ UNCHANGED <<commandVars, bt_discovery_state, user_bonded, inquiry, abandoned>>
  BY DEF AdapterEnabled
<1>2. SaysNothing(Head(mainEvents))
  BY <1>1, HeadOfMain, SayNothing DEF PlainIds
<1>3. Handshake'
  BY <1>1, SwitchHeard
<1>4. InquirySound'
  BY <1>1 DEF IInv, InquirySound, inquiry
<1>5. user_bonded' \subseteq Device
      /\ {bt_state, switching, enquiry_cmd, stop_enquiry_cmd, pairing_cmd, bt_discovery_state,
          abandoned}' \subseteq BOOLEAN
  BY <1>1 DEF IInv, DevicesTypeOK, commandVars
<1>6. /\ Word(bt_discovery_state') = Then(OfDiscovery, Head(mainEvents), Word(bt_discovery_state))
      /\ \A d \in Device :
            Word(d \in user_bonded') = Then(OfBond(d), Head(mainEvents), Word(d \in user_bonded))
  BY <1>1, <1>2 DEF SaysNothing, Then
<1> QED
  BY <1>1, <1>3, <1>4, <1>5, <1>6, HearingKeeps

LEMMA AdapterDisabledKeeps == ASSUME IInv, AdapterDisabled PROVE IInv'
<1>1. /\ MainHears("DISABLED") /\ bt_state' = FALSE /\ switching' = FALSE
      /\ enquiry_cmd' = FALSE /\ stop_enquiry_cmd' = FALSE /\ bt_discovery_state' = FALSE
      /\ user_bonded' = {} /\ inquiry_list' = <<>> /\ inq_db_count' = 0
      /\ UNCHANGED <<pairing_cmd, abandoned>>
  BY DEF AdapterDisabled
<1>2. Head(mainEvents) \in Events /\ Head(mainEvents).id = "DISABLED"
  BY <1>1, HeadOfMain
<1>3. Handshake'
  BY <1>1, SwitchHeard
<1>4. InquirySound'
  BY <1>1 DEF InquirySound
<1>5. user_bonded' \subseteq Device
      /\ {bt_state, switching, enquiry_cmd, stop_enquiry_cmd, pairing_cmd, bt_discovery_state,
          abandoned}' \subseteq BOOLEAN
  BY <1>1 DEF IInv, DevicesTypeOK
<1>6. OfDiscovery[Head(mainEvents)] = "no" /\ \A d \in Device : OfBond(d)[Head(mainEvents)] = "no"
  BY <1>2, EventsSay DEF OfDiscovery, IsOff
<1>7. /\ Word(bt_discovery_state') = Then(OfDiscovery, Head(mainEvents), Word(bt_discovery_state))
      /\ \A d \in Device :
            Word(d \in user_bonded') = Then(OfBond(d), Head(mainEvents), Word(d \in user_bonded))
  BY <1>1, <1>6 DEF Then, Word
<1> QED
  BY <1>1, <1>3, <1>4, <1>5, <1>7, HearingKeeps

LEMMA InquiryStatusKeeps == ASSUME IInv, InquiryStatus PROVE IInv'
<1>1. /\ MainHears("DISCOVERY_STATE") /\ bt_discovery_state' = Told
      /\ enquiry_cmd' = (enquiry_cmd /\ Told) /\ stop_enquiry_cmd' = (stop_enquiry_cmd /\ Told)
      /\ UNCHANGED <<bt_state, switching, pairing_cmd, user_bonded, inquiry, abandoned>>
  BY DEF InquiryStatus
<1>2. /\ Head(mainEvents) \in Events /\ Head(mainEvents).id = "DISCOVERY_STATE"
      /\ Told \in BOOLEAN /\ Told = Head(mainEvents).about
  BY <1>1, HeadOfMain, EventsRead DEF Told
<1>3. Handshake'
  BY <1>1, SwitchUnheard DEF SwitchIds
<1>4. InquirySound'
  BY <1>1 DEF IInv, InquirySound, inquiry
<1>5. user_bonded' \subseteq Device
      /\ {bt_state, switching, enquiry_cmd, stop_enquiry_cmd, pairing_cmd, bt_discovery_state,
          abandoned}' \subseteq BOOLEAN
  <2>1. user_bonded' \subseteq Device /\ {bt_state, switching, pairing_cmd, abandoned}' \subseteq BOOLEAN
    BY <1>1 DEF IInv, DevicesTypeOK
  <2>2. enquiry_cmd' \in BOOLEAN /\ stop_enquiry_cmd' \in BOOLEAN /\ bt_discovery_state' \in BOOLEAN
    BY <1>1, <1>2
  <2> QED
    BY <2>1, <2>2
<1>6. /\ OfDiscovery[Head(mainEvents)] = Word(bt_discovery_state')
      /\ \A d \in Device : OfBond(d)[Head(mainEvents)] = "silent"
  BY <1>1, <1>2, EventsSay DEF OfDiscovery
<1>7. /\ Word(bt_discovery_state') = Then(OfDiscovery, Head(mainEvents), Word(bt_discovery_state))
      /\ \A d \in Device :
            Word(d \in user_bonded') = Then(OfBond(d), Head(mainEvents), Word(d \in user_bonded))
  BY <1>1, <1>6 DEF Then, Word
<1> QED
  BY <1>1, <1>3, <1>4, <1>5, <1>7, HearingKeeps

(* Only a device that is not in the list is put there.                       *)
LEMMA AddFoundedDeviceKeeps == ASSUME IInv, AddFoundedDevice PROVE IInv'
<1>1. /\ MainHears("DEVICE_FOUND")
      /\ UNCHANGED <<bt_state, switching, commandVars, bt_discovery_state, user_bonded, abandoned>>
      /\ \/ UNCHANGED inquiry
         \/ /\ Told \notin Listed
            /\ inquiry_list' = Append(inquiry_list, Told) /\ inq_db_count' = inq_db_count + 1
  BY DEF AddFoundedDevice
<1>2. SaysNothing(Head(mainEvents)) /\ Told \in Device
  BY <1>1, HeadOfMain, SayNothing, EventsRead DEF DeviceIds, Told
<1>3. Handshake'
  BY <1>1, SwitchUnheard DEF SwitchIds
<1>4. InquirySound'
  <2>1. InquirySound
    BY DEF IInv
  <2>2. CASE UNCHANGED inquiry
    BY <2>1, <2>2 DEF InquirySound, inquiry
  <2>3. CASE /\ Told \notin Listed
             /\ inquiry_list' = Append(inquiry_list, Told) /\ inq_db_count' = inq_db_count + 1
    <3> DEFINE n == Len(inquiry_list)
    <3>1. /\ inquiry_list \in Seq(Device) /\ n \in Nat /\ inq_db_count = n
          /\ \A i \in 1 .. n : inquiry_list[i] # Told
      BY <2>1, <2>3 DEF InquirySound, Listed
    <3>2. /\ inquiry_list' \in Seq(Device) /\ Len(inquiry_list') = n + 1
          /\ \A i \in 1 .. n : inquiry_list'[i] = inquiry_list[i]
          /\ inquiry_list'[n + 1] = Told
      BY <1>2, <2>3, <3>1, AppendProperties
    <3>3. \A i \in 1 .. n + 1 : i \in 1 .. n \/ i = n + 1
      BY <3>1
    <3>4. \A i, j \in 1 .. n : inquiry_list[i] = inquiry_list[j] => i = j
      BY <2>1 DEF InquirySound
    <3> HIDE DEF n
    <3>5. \A i, j \in 1 .. n + 1 : inquiry_list'[i] = inquiry_list'[j] => i = j
      BY <3>1, <3>2, <3>3, <3>4
    <3> QED
      BY <2>3, <3>1, <3>2, <3>5 DEF InquirySound
  <2> QED
    BY <1>1, <2>2, <2>3
<1>5. user_bonded' \subseteq Device
      /\ {bt_state, switching, enquiry_cmd, stop_enquiry_cmd, pairing_cmd, bt_discovery_state,
          abandoned}' \subseteq BOOLEAN
  BY <1>1 DEF IInv, DevicesTypeOK, commandVars
<1>6. /\ Word(bt_discovery_state') = Then(OfDiscovery, Head(mainEvents), Word(bt_discovery_state))
      /\ \A d \in Device :
            Word(d \in user_bonded') = Then(OfBond(d), Head(mainEvents), Word(d \in user_bonded))
  BY <1>1, <1>2 DEF SaysNothing, Then
<1> QED
  BY <1>1, <1>3, <1>4, <1>5, <1>6, HearingKeeps

(* The bond of a device, which may take an entry from the list.              *)
LEMMA HandleBondStateKeeps == ASSUME IInv, HandleBondState PROVE IInv'
<1> DEFINE x == Told.device
           b == Told.bond
<1>1. /\ MainHears("BOND_STATE") /\ abandoned' = (abandoned /\ pairing_cmd')
      /\ UNCHANGED <<bt_state, switching, enquiry_cmd, stop_enquiry_cmd, bt_discovery_state>>
  BY DEF HandleBondState
<1>2. /\ Head(mainEvents) \in Events /\ Head(mainEvents).id = "BOND_STATE"
      /\ x = Head(mainEvents).about.device /\ b = Head(mainEvents).about.bond
      /\ x \in Device /\ b \in Bonds
  BY <1>1, HeadOfMain, EventsRead DEF Told
<1>3. /\ b = "BONDED" => user_bonded' = user_bonded \union {x} /\ pairing_cmd' = FALSE
      /\ b = "NONE" => user_bonded' = user_bonded \ {x} /\ pairing_cmd' = FALSE
      /\ b = "BONDING" => user_bonded' = user_bonded /\ pairing_cmd' = pairing_cmd
  BY DEF HandleBondState
<1>4. \/ UNCHANGED inquiry
      \/ /\ x \in Listed
         /\ inquiry_list' = Tail(inquiry_list) /\ inq_db_count' = inq_db_count - 1
  BY <1>2 DEF HandleBondState, Bonds, inquiry
<1> HIDE DEF x, b
<1>5. Handshake'
  BY <1>1, SwitchUnheard DEF SwitchIds
<1>6. InquirySound'
  <2>1. InquirySound
    BY DEF IInv
  <2>2. CASE UNCHANGED inquiry
    BY <2>1, <2>2 DEF InquirySound, inquiry
  <2>3. CASE /\ x \in Listed
             /\ inquiry_list' = Tail(inquiry_list) /\ inq_db_count' = inq_db_count - 1
    <3>1. inquiry_list \in Seq(Device) /\ inquiry_list # <<>> /\ inq_db_count = Len(inquiry_list)
      BY <2>1, <2>3 DEF InquirySound, Listed
    <3>2. /\ inquiry_list' \in Seq(Device) /\ Len(inquiry_list) \in Nat \ {0}
          /\ Len(inquiry_list') = Len(inquiry_list) - 1
          /\ \A i \in 1 .. Len(inquiry_list') : inquiry_list'[i] = inquiry_list[i + 1]
      BY <2>3, <3>1, HeadTailProperties
    <3>3. \A i, j \in 1 .. Len(inquiry_list') : inquiry_list'[i] = inquiry_list'[j] => i = j
      <4> SUFFICES ASSUME NEW i \in 1 .. Len(inquiry_list'), NEW j \in 1 .. Len(inquiry_list'),
                          inquiry_list'[i] = inquiry_list'[j]
                   PROVE  i = j
        OBVIOUS
      <4>1. i + 1 \in 1 .. Len(inquiry_list) /\ j + 1 \in 1 .. Len(inquiry_list)
        BY <3>2
      <4>2. i + 1 = j + 1
        BY <2>1, <3>2, <4>1 DEF InquirySound
      <4> QED
        BY <3>2, <4>2
    <3> QED
      BY <2>3, <3>1, <3>2, <3>3 DEF InquirySound
  <2> QED
    BY <1>4, <2>2, <2>3
<1>7. user_bonded' \subseteq Device
      /\ {bt_state, switching, enquiry_cmd, stop_enquiry_cmd, pairing_cmd, bt_discovery_state,
          abandoned}' \subseteq BOOLEAN
  <2>1. /\ user_bonded \subseteq Device
        /\ {bt_state, switching, enquiry_cmd, stop_enquiry_cmd, bt_discovery_state}' \subseteq BOOLEAN
        /\ pairing_cmd \in BOOLEAN
    BY <1>1 DEF IInv, DevicesTypeOK
  <2>2. user_bonded' \subseteq Device /\ pairing_cmd' \in BOOLEAN
    BY <1>2, <1>3, <2>1 DEF Bonds
  <2>3. abandoned' \in BOOLEAN
    BY <1>1
  <2> QED
    BY <2>1, <2>2, <2>3
<1>8. /\ OfDiscovery[Head(mainEvents)] = "silent"
      /\ \A d \in Device : OfBond(d)[Head(mainEvents)]
                             = IF x # d \/ b = "BONDING" THEN "silent" ELSE Word(b = "BONDED")
  BY <1>2, EventsSay
<1>9. /\ Word(bt_discovery_state') = Then(OfDiscovery, Head(mainEvents), Word(bt_discovery_state))
      /\ \A d \in Device :
            Word(d \in user_bonded') = Then(OfBond(d), Head(mainEvents), Word(d \in user_bonded))
  BY <1>1, <1>2, <1>3, <1>8 DEF Then, Word, Bonds
<1> QED
  BY <1>1, <1>5, <1>6, <1>7, <1>9, HearingKeeps

-----------------------------------------------------------------------------
(* The invariant.                                                            *)

LEMMA InitIInv == ASSUME DevicesInit PROVE IInv
<1> USE DEF DevicesInit
<1>1. DevicesTypeOK
  <2>1. {scanning, bt_state, switching, enquiry_cmd, stop_enquiry_cmd, pairing_cmd,
         bt_discovery_state, misled, abandoned} \subseteq BOOLEAN
    OBVIOUS
  <2>2. Listed \subseteq Device
    BY DEF Listed
  <2> QED
    BY <2>1, <2>2 DEF DevicesTypeOK
<1>2. InquirySound /\ TableSound /\ StackSound
  BY DEF InquirySound, TableSound, StackSound
<1>3. Handshake
  <2>1. NoSwitch(gapEvents) /\ NoSwitch(mainEvents)
    BY DEF NoSwitch
  <2>2. /\ OneSwitch(gapEvents) /\ OneSwitch(mainEvents)
        /\ AllFit(gapEvents, adapter) /\ AllFit(mainEvents, adapter)
    BY DEF OneSwitch, AllFit
  <2> QED
    BY <2>1, <2>2 DEF Handshake
<1>4. QueuesLead
  <2>1. \A says, word : Leads(<<>>, says, word, word)
    BY LeadsShort
  <2>2. QueuesOK
    BY DEF QueuesOK
  <2>3. DiscoveryLeads
    BY <2>1 DEF DiscoveryLeads, Words, Word
  <2>4. BondsLead
    BY <2>1 DEF BondsLead, Word, Bonded, StackIsUp
  <2>5. UserLeads
    BY <2>1 DEF UserLeads, Words, Word
  <2> QED
    BY <2>2, <2>3, <2>4, <2>5 DEF QueuesLead
<1> QED
  BY <1>1, <1>2, <1>3, <1>4 DEF IInv

LEMMA StutterIInv == ASSUME IInv, UNCHANGED deviceVars PROVE IInv'
<1> USE DEF deviceVars, stackState, gapTable, mainState, commandVars, inquiry
<1>1. DevicesTypeOK' /\ InquirySound' /\ TableSound' /\ StackSound'
  BY DEF IInv, DevicesTypeOK, Listed, InquirySound, TableSound, StackSound, StackIsUp
<1>2. Handshake'
  BY DEF IInv, Handshake
<1>3. QueuesLead'
  <2>1. \A d \in Device : Word(Bonded(d)') = Word(Bonded(d))
    BY DEF Word, Bonded, StackIsUp
  <2>2. QueuesOK' /\ DiscoveryLeads' /\ UserLeads'
    BY DEF IInv, QueuesLead, QueuesOK, DiscoveryLeads, UserLeads
  <2>3. BondsLead'
    BY <2>1 DEF IInv, QueuesLead, BondsLead
  <2> QED
    BY <2>2, <2>3 DEF QueuesLead
<1> QED
  BY <1>1, <1>2, <1>3 DEF IInv

LEMMA NextIInv == ASSUME IInv, DevicesNext PROVE IInv'
<1>1. CASE UserActs
  <2>1. CASE SwitchAdapter
    BY <2>1, SwitchAdapterKeeps
  <2>2. CASE StartEnquiry \/ CancelEnquiry \/ \E d \in Bondable : StartPair(d)
    BY <2>2, RequestsKeep
  <2>3. CASE \E d \in Bondable : HandleUnPair(d)
    BY <2>3, BondEndsKeeps
  <2> QED
    BY <1>1, <2>1, <2>2, <2>3 DEF UserActs
<1>2. CASE StackActs
  <2>1. CASE StackTurnsOn
    BY <2>1, StackTurnsOnKeeps
  <2>2. CASE StackTurnsOff
    BY <2>2, StackTurnsOffKeeps
  <2>3. CASE DiscoveryEnds \/ \E d \in Device : DeviceFoundCb(d) \/ NameIsKnown(d)
    BY <2>3, DiscoveryKeeps
  <2>4. CASE PairingIsOver \/ \E d \in Bondable : PeerPairs(d)
    BY <2>4, PairingKeeps
  <2>5. CASE \E d \in Bondable : BondIsLost(d)
    BY <2>5, BondEndsKeeps
  <2> QED
    BY <1>2, <2>1, <2>2, <2>3, <2>4, <2>5, DevicesAssumption DEF StackActs
<1>3. CASE GapActs
  <2>1. CASE AdapterStateChanged
    BY <2>1, StateOnKeeps, StateOffKeeps
  <2>2. CASE HandleEnableReq \/ HandleDisableReq
    BY <2>2, SwitchRequestKeeps
  <2>3. CASE HandleStartDiscovery \/ HandleStopDiscovery
    BY <2>3, DiscoveryRequestKeeps
  <2>4. CASE HandleDiscoveryStateChange \/ DeviceFound
    BY <2>4, FoundKeeps
  <2> QED
    BY <1>3, <2>1, <2>2, <2>3, <2>4, ProfilesStartedKeeps, CreateBondKeeps, BondStateKeeps,
       AdapterPropertiesKeeps, RemotePropertiesKeeps DEF GapActs
<1>4. CASE MainActs
  BY <1>4, AdapterEnabledKeeps, AdapterDisabledKeeps, InquiryStatusKeeps, AddFoundedDeviceKeeps,
     HandleBondStateKeeps DEF MainActs
<1> QED
  BY <1>1, <1>2, <1>3, <1>4 DEF DevicesNext

(* The queues lead to the truth in every reachable state.                    *)
THEOREM SpecIInv == DevicesSpec => []IInv
<1>1. IInv /\ [DevicesNext]_deviceVars => IInv'
  BY NextIInv, StutterIInv
<1> QED
  BY <1>1, InitIInv, PTL DEF DevicesSpec

(* What a queue that is empty leads to is what was thought before.           *)
LEMMA LeadsNowhere ==
    ASSUME NEW says, NEW a, NEW b, Leads(<<>>, says, a, b)
    PROVE  a = b
  BY DEF Leads

(* While the adapter is on and nothing waits in the queues, the GAP thread's  *)
(* list of bonds (AdapterProperties::bonded_devices_) is the stack's, and the  *)
(* user's (BluetoothApp::bonded_devices) lacks only devices whose entry still  *)
(* has the broadcast flag, which RemoteDevices::RemoteDeviceProperties clears *)
(* when it tells the user.                                                  *)
THEOREM SpecBondsAgree == DevicesSpec => []BondsAgree
<1>1. IInv => BondsAgree
  <2> SUFFICES ASSUME IInv, IsOn
               PROVE  /\ bonded_devices = bonds
                      /\ user_bonded \subseteq bonded_devices
                      /\ bonded_devices \ user_bonded \subseteq broadcast
    BY DEF BondsAgree, IInv
  <2>1. gapEvents = <<>> /\ mainEvents = <<>> /\ adapter = "on"
    BY DEF IsOn, Quiet, IInv, Handshake
  <2>2. bonds \subseteq Device /\ bonded_devices \subseteq Device /\ user_bonded \subseteq Device
    BY DEF IInv, DevicesTypeOK
  <2>3. \A d \in Device : Word(d \in bonded_devices) = Word(Bonded(d))
    BY <2>1, LeadsNowhere DEF IInv, QueuesLead, BondsLead
  <2>4. \A d \in Device : d \in bonded_devices <=> d \in bonds
    BY <2>1, <2>3 DEF Word, Bonded, StackIsUp
  <2>5. \A d \in Device : Justified(d, Word(d \in user_bonded))
    BY <2>1, LeadsNowhere DEF IInv, QueuesLead, UserLeads, Justified
  <2> QED
    BY <2>2, <2>4, <2>5 DEF Justified, Word
<1> QED
  BY <1>1, SpecIInv, PTL

(* What the main thread knows of a discovery (bt_discovery_state) is what the *)
(* stack does, when nothing waits and the stack's last report was of it; and  *)
(* AddFoundedDevice lists each device once, with inq_db_count the length of   *)
(* the list.                                                                 *)
THEOREM SpecDiscoveryAgrees == DevicesSpec => []DiscoveryAgrees
<1>1. IInv => DiscoveryAgrees
  <2> SUFFICES ASSUME IInv PROVE DiscoveryAgrees
    OBVIOUS
  <2>1. inq_db_count = Len(inquiry_list)
    BY DEF IInv, InquirySound
  <2>2. \A i, j \in DOMAIN inquiry_list : inquiry_list[i] = inquiry_list[j] => i = j
    <3>1. inquiry_list \in Seq(Device) /\ DOMAIN inquiry_list = 1 .. Len(inquiry_list)
      BY DEF IInv, InquirySound
    <3> QED
      BY <3>1 DEF IInv, InquirySound
  <2>3. ASSUME IsOn, ~misled PROVE bt_discovery_state = scanning
    <3>1. gapEvents = <<>> /\ mainEvents = <<>>
      BY <2>3 DEF IsOn, Quiet
    <3>2. Word(bt_discovery_state) = Word(scanning)
      BY <2>3, <3>1, LeadsNowhere DEF IInv, QueuesLead, DiscoveryLeads
    <3>3. bt_discovery_state \in BOOLEAN /\ scanning \in BOOLEAN
      BY DEF IInv, DevicesTypeOK
    <3> QED
      BY <3>2, <3>3 DEF Word
  <2> QED
    BY <2>1, <2>2, <2>3 DEF DiscoveryAgrees
<1> QED
  BY <1>1, SpecIInv, PTL
=============================================================================
