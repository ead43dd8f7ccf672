------------------------------ MODULE GapDevices ------------------------------
(***************************************************************************)
(* Discovery and bonding: what the main thread tells the user of remote       *)
(* devices (main/src/Main.cpp), what the GAP thread knows of them (gap/src/   *)
(* Gap.cpp, AdapterProperties.cpp, RemoteDevices.cpp), and the Bluetooth       *)
(* stack, which is external.  Turning on and off is GapLifecycle's; here it    *)
(* is a command, the stack's callback and the answer, in between of which      *)
(* requests for devices are on their way.                                    *)
(*                                                                          *)
(* Left out: the questions of SSP and PIN and their answers, which pass        *)
(* through, the properties of the adapter and of devices but for their names, *)
(* the automatic test that starts a discovery.                               *)
(***************************************************************************)
EXTENDS Naturals, Sequences

CONSTANTS
    Device,
    Bondable,       \* bound: those of them that are ever paired
    NoDevice,
    INQ_DB_SIZE,    \* 40 in Main.hpp
    MaxEvents       \* bound of the events queued when the user or a peer does something

ASSUME DevicesAssumption ==
    /\ Bondable \subseteq Device /\ NoDevice \notin Device
    /\ INQ_DB_SIZE \in Nat \ {0} /\ MaxEvents \in Nat \ {0}

VARIABLES
    adapter, bonds, pairing, scanning,  \* external: the stack
    gapState,           \* AdapterProperties::state_
    bond_state,         \* of each device's entry in remote_device_prop, BOND_NONE without
    broadcast,          \* devices whose entry has the broadcast flag
    bonded_devices,     \* AdapterProperties'
    gapEvents, mainEvents,  \* the queues of the two threads
    bt_state,           \* is on, for the main thread
    switching,          \* enable_cmd or disable_cmd is in progress
    enquiry_cmd, stop_enquiry_cmd, pairing_cmd,     \* are in progress
    bt_discovery_state, \* is BT_DISCOVERY_STARTED
    user_bonded,        \* BluetoothApp::bonded_devices
    inquiry_list, inq_db_count,
    misled,             \* history: the last report of the discovery was not so
    abandoned           \* history: the stack will report nothing for pairing_cmd

stackState  == <<adapter, bonds, pairing, scanning>>
gapTable    == <<bond_state, broadcast, bonded_devices>>
inquiry     == <<inquiry_list, inq_db_count>>
commandVars == <<enquiry_cmd, stop_enquiry_cmd, pairing_cmd>>
mainState   == <<bt_state, switching, commandVars, bt_discovery_state, user_bonded, inquiry>>
deviceVars  == <<stackState, gapState, gapTable, gapEvents, mainEvents, mainState, misled,
                 abandoned>>

Ev(id, about) == [id |-> id, about |-> about]
Discovery(started) == Ev("DISCOVERY_STATE", started)
BondState(d, bond) == Ev("BOND_STATE", [device |-> d, bond |-> bond])

DevicesInit ==
    /\ adapter = "off" /\ bonds = {} /\ pairing = NoDevice /\ scanning = FALSE
    /\ gapState = "OFF" /\ bond_state = [d \in Device |-> "NONE"]
    /\ broadcast = {} /\ bonded_devices = {}
    /\ gapEvents = <<>> /\ mainEvents = <<>>
    /\ bt_state = FALSE /\ switching = FALSE
    /\ enquiry_cmd = FALSE /\ stop_enquiry_cmd = FALSE /\ pairing_cmd = FALSE
    /\ bt_discovery_state = FALSE /\ user_bonded = {}
    /\ inquiry_list = <<>> /\ inq_db_count = 0
    /\ misled = FALSE /\ abandoned = FALSE

Post(events) == gapEvents' = gapEvents \o events
MayAct == Len(gapEvents) + Len(mainEvents) < MaxEvents

-----------------------------------------------------------------------------
(* The user, on the main thread: HandleGapCommand.                           *)

Asks(event) ==
    /\ MayAct /\ Post(<<event>>)
    /\ UNCHANGED <<stackState, gapState, gapTable, mainEvents, misled>>

SwitchAdapter ==
    /\ ~switching /\ switching' = TRUE
    /\ Asks(Ev(IF bt_state THEN "API_DISABLE" ELSE "API_ENABLE", NoDevice))
    /\ UNCHANGED <<bt_state, commandVars, bt_discovery_state, user_bonded, inquiry, abandoned>>

StartEnquiry ==
    /\ ~enquiry_cmd /\ bt_state
    /\ enquiry_cmd' = TRUE /\ inquiry_list' = <<>> /\ inq_db_count' = 0
    /\ Asks(Ev("API_START_INQUIRY", NoDevice))
    /\ UNCHANGED <<bt_state, switching, stop_enquiry_cmd, pairing_cmd, bt_discovery_state,
                   user_bonded, abandoned>>

CancelEnquiry ==
    /\ ~stop_enquiry_cmd /\ bt_discovery_state /\ bt_state
    /\ stop_enquiry_cmd' = TRUE
    /\ Asks(Ev("API_STOP_INQUIRY", NoDevice))
    /\ UNCHANGED <<bt_state, switching, enquiry_cmd, pairing_cmd, bt_discovery_state,
                   user_bonded, inquiry, abandoned>>

StartPair(d) ==
    /\ ~pairing_cmd /\ bt_state
    /\ pairing_cmd' = TRUE
    /\ Asks(Ev("API_CREATE_BOND", d))
    /\ UNCHANGED <<bt_state, switching, enquiry_cmd, stop_enquiry_cmd, bt_discovery_state,
                   user_bonded, inquiry, abandoned>>

(* The end of a bond, told by the stack.                                     *)
BondEnds(d) ==
    /\ d \in bonds /\ d # pairing /\ adapter = "on" /\ MayAct
    /\ bonds' = bonds \ {d}
    /\ Post(<<BondState(d, "NONE")>>)

(* HandleUnPair calls the stack itself; what the stack refuses has no effect.  *)
HandleUnPair(d) ==
    /\ bt_state /\ d \in user_bonded
    /\ BondEnds(d)
    /\ UNCHANGED <<adapter, pairing, scanning, gapState, gapTable, mainEvents, mainState,
                   misled, abandoned>>

UserActs ==
    \/ SwitchAdapter \/ StartEnquiry \/ CancelEnquiry
    \/ \E d \in Bondable : StartPair(d) \/ HandleUnPair(d)

-----------------------------------------------------------------------------
(* The stack.  It tells which devices are bonded before it is on.            *)

StackTurnsOn ==
    /\ adapter = "starting" /\ adapter' = "on"
    /\ Post(<<Ev("ADAPTER_PROPERTIES", bonds), Ev("ADAPTER_STATE", TRUE)>>)
    /\ UNCHANGED <<bonds, pairing, scanning, gapState, gapTable, mainEvents, mainState,
                   misled, abandoned>>

(* What it was doing ends without a word.                                    *)
StackTurnsOff ==
    /\ adapter = "stopping" /\ adapter' = "off"
    /\ scanning' = FALSE /\ pairing' = NoDevice
    /\ misled' = FALSE /\ abandoned' = pairing_cmd
    /\ Post(<<Ev("ADAPTER_STATE", FALSE)>>)
    /\ UNCHANGED <<bonds, gapState, gapTable, mainEvents, mainState>>

StackTells(event) ==
    /\ Post(<<event>>)
    /\ UNCHANGED <<adapter, gapState, gapTable, mainEvents, mainState, abandoned>>

DeviceFoundCb(d) ==
    /\ scanning /\ MayAct
    /\ StackTells(Ev("DEVICE_FOUND", d))
    /\ UNCHANGED <<bonds, pairing, scanning, misled>>

DiscoveryEnds ==
    /\ scanning /\ scanning' = FALSE /\ misled' = FALSE
    /\ StackTells(Discovery(FALSE))
    /\ UNCHANGED <<bonds, pairing>>

(* A peer begins to pair.                                                    *)
PeerPairs(d) ==
    /\ adapter = "on" /\ pairing = NoDevice /\ MayAct
    /\ pairing' = d
    /\ StackTells(BondState(d, "BONDING"))
    /\ UNCHANGED <<bonds, scanning, misled>>

PairingIsOver ==
    /\ pairing # NoDevice /\ pairing' = NoDevice
    /\ \/ bonds' = bonds \union {pairing} /\ StackTells(BondState(pairing, "BONDED"))
       \/ bonds' = bonds \ {pairing} /\ StackTells(BondState(pairing, "NONE"))
    /\ UNCHANGED <<scanning, misled>>

BondIsLost(d) ==
    /\ BondEnds(d)
    /\ UNCHANGED <<adapter, pairing, scanning, gapState, gapTable, mainEvents, mainState,
                   misled, abandoned>>

(* RemoteDevicePropertiesCb, with a name; of other devices it changes nothing. *)
NameIsKnown(d) ==
    /\ adapter = "on" /\ d \in bonds /\ MayAct
    /\ StackTells(Ev("REMOTE_PROPERTIES", d))
    /\ UNCHANGED <<bonds, pairing, scanning, misled>>

StackActs ==
    \/ StackTurnsOn \/ StackTurnsOff \/ DiscoveryEnds \/ PairingIsOver
    \/ \E d \in Device : DeviceFoundCb(d)
    \/ \E d \in Bondable : PeerPairs(d) \/ BondIsLost(d) \/ NameIsKnown(d)

-----------------------------------------------------------------------------
(* The GAP thread.                                                          *)

GapHandles(id) == gapEvents # <<>> /\ Head(gapEvents).id = id
About == Head(gapEvents).about
ThenPost(events) == gapEvents' = Tail(gapEvents) \o events
TellUser(events) == mainEvents' = mainEvents \o events

HandleEnableReq ==
    /\ GapHandles("API_ENABLE") /\ ThenPost(<<>>)
    /\ gapState' = "TURNING_ON" /\ adapter' = "starting"
    /\ UNCHANGED <<bonds, pairing, scanning, gapTable, mainEvents, mainState, misled, abandoned>>

HandleDisableReq ==
    /\ GapHandles("API_DISABLE") /\ ThenPost(<<>>)
    /\ gapState' = "TURNING_OFF" /\ adapter' = "stopping"
    /\ UNCHANGED <<bonds, pairing, scanning, gapTable, mainEvents, mainState, misled, abandoned>>

(* When on, the profiles are started before the user is told.                *)
AdapterStateChanged ==
    /\ GapHandles("ADAPTER_STATE")
    /\ gapState' = IF About THEN "ON" ELSE "OFF"
    /\ IF About
       THEN ThenPost(<<Ev("PROFILES_STARTED", NoDevice)>>) /\ UNCHANGED <<gapTable, mainEvents>>
       ELSE /\ bonded_devices' = {} /\ broadcast' = {}
            /\ bond_state' = [d \in Device |-> "NONE"]
            /\ ThenPost(<<>>) /\ TellUser(<<Ev("DISABLED", NoDevice)>>)
    /\ UNCHANGED <<stackState, mainState, misled, abandoned>>

ProfilesStarted ==
    /\ GapHandles("PROFILES_STARTED") /\ ThenPost(<<>>)
    /\ TellUser(<<Ev("ENABLED", NoDevice)>>)
    /\ UNCHANGED <<stackState, gapState, gapTable, mainState, misled, abandoned>>

(* What is reported of the discovery, if anything, once it is as it is.       *)
Reports(ends) ==
    /\ ThenPost([i \in DOMAIN ends |-> Discovery(ends[i])])
    /\ misled' = IF ends = <<>> THEN misled ELSE ends[1] # scanning'

(* Mutant of the next: a refused request is not reported.                    *)
RefusedStartIsSilent ==
    /\ GapHandles("API_START_INQUIRY")
    /\ \/ /\ gapState = "ON" /\ scanning' = TRUE
          /\ Reports(IF scanning THEN <<>> ELSE <<TRUE>>)
       \/ UNCHANGED scanning /\ Reports(<<>>)
    /\ UNCHANGED <<adapter, bonds, pairing, gapState, gapTable, mainEvents, mainState,
                   abandoned>>

(* Done, with the stack's report, or refused, with one of the code's.         *)
HandleStartDiscovery ==
    /\ GapHandles("API_START_INQUIRY")
    /\ \/ /\ gapState = "ON" /\ scanning' = TRUE
          /\ Reports(IF scanning THEN <<>> ELSE <<TRUE>>)
       \/ UNCHANGED scanning /\ Reports(<<FALSE>>)
    /\ UNCHANGED <<adapter, bonds, pairing, gapState, gapTable, mainEvents, mainState,
                   abandoned>>

(* The stack may report the end of a discovery that is not there.            *)
EndsOfDiscovery == {<<FALSE>>} \union (IF scanning THEN {} ELSE {<<>>})

HandleStopDiscovery ==
    /\ GapHandles("API_STOP_INQUIRY")
    /\ \/ /\ gapState = "ON" /\ scanning' = FALSE
          /\ \E ends \in EndsOfDiscovery : Reports(ends)
       \/ UNCHANGED scanning /\ Reports(<<TRUE>>)
    /\ UNCHANGED <<adapter, bonds, pairing, gapState, gapTable, mainEvents, mainState,
                   abandoned>>

(* cancel_discovery, then create_bond, in any state; neither's refusal is     *)
(* looked at.  A stack that is pairing refuses, and reports what it is doing. *)
CreateBond ==
    /\ GapHandles("API_CREATE_BOND")
    /\ \E ends \in {<<>>} \union EndsOfDiscovery, accepts \in BOOLEAN :
        /\ ends # <<>> => adapter = "on"
        /\ accepts => adapter = "on" /\ pairing = NoDevice
        /\ scanning' = (scanning /\ ends = <<>>) /\ misled' = (misled /\ ends = <<>>)
        /\ pairing' = IF accepts THEN About ELSE pairing
        /\ ThenPost([i \in DOMAIN ends |-> Discovery(FALSE)]
                    \o IF accepts THEN <<BondState(About, "BONDING")>> ELSE <<>>)
        /\ abandoned' = (pairing_cmd /\ (abandoned \/ (~accepts /\ pairing = NoDevice)))
    /\ UNCHANGED <<adapter, bonds, gapState, gapTable, mainEvents, mainState>>

HandleDiscoveryStateChange ==
    /\ GapHandles("DISCOVERY_STATE") /\ ThenPost(<<>>)
    /\ TellUser(<<Head(gapEvents)>>)
    /\ UNCHANGED <<stackState, gapState, gapTable, mainState, misled, abandoned>>

(* Its entry in the table gets the properties, which are not modelled.        *)
DeviceFound ==
    /\ GapHandles("DEVICE_FOUND") /\ ThenPost(<<>>)
    /\ TellUser(<<Head(gapEvents)>>)
    /\ UNCHANGED <<stackState, gapState, gapTable, mainState, misled, abandoned>>

(* OnbondStateChanged without its notification.                              *)
BecomeBond(devices, bond) ==
    /\ bond_state' = [d \in Device |-> IF d \in devices THEN bond ELSE bond_state[d]]
    /\ bonded_devices' = CASE bond = "BONDED" -> bonded_devices \union devices
                           [] bond = "NONE" -> bonded_devices \ devices
                           [] OTHER -> bonded_devices

HandleBondStateEvent ==
    /\ GapHandles("BOND_STATE") /\ ThenPost(<<>>)
    /\ IF bond_state[About.device] = About.bond
       THEN UNCHANGED <<gapTable, mainEvents>>
       ELSE /\ BecomeBond({About.device}, About.bond)
            /\ TellUser(<<Head(gapEvents)>>)
            /\ UNCHANGED broadcast
    /\ UNCHANGED <<stackState, gapState, mainState, misled, abandoned>>

(* Mutant of the next: the devices are not marked to be told of later.        *)
PropertiesWithoutBroadcast ==
    /\ GapHandles("ADAPTER_PROPERTIES") /\ ThenPost(<<>>)
    /\ BecomeBond(About, "BONDED")
    /\ UNCHANGED <<stackState, gapState, broadcast, mainEvents, mainState, misled, abandoned>>

AdapterPropertiesUpdate ==
    /\ GapHandles("ADAPTER_PROPERTIES") /\ ThenPost(<<>>)
    /\ BecomeBond(About, "BONDED")
    /\ broadcast' = broadcast \union About
    /\ UNCHANGED <<stackState, gapState, mainEvents, mainState, misled, abandoned>>

(* The user is told of a bonded device again when its name has changed.      *)
RemoteDeviceProperties ==
    /\ GapHandles("REMOTE_PROPERTIES") /\ ThenPost(<<>>)
    /\ \/ /\ bond_state[About] = "BONDED"
          /\ TellUser(<<BondState(About, "BONDED")>>)
          /\ broadcast' = broadcast \ {About}
       \/ /\ bond_state[About] = "BONDED" => About \notin broadcast
          /\ UNCHANGED <<mainEvents, broadcast>>
    /\ UNCHANGED <<stackState, gapState, bond_state, bonded_devices, mainState, misled,
                   abandoned>>

GapActs ==
    \/ HandleEnableReq \/ HandleDisableReq \/ AdapterStateChanged \/ ProfilesStarted
    \/ HandleStartDiscovery \/ HandleStopDiscovery \/ CreateBond
    \/ HandleDiscoveryStateChange \/ DeviceFound
    \/ HandleBondStateEvent \/ AdapterPropertiesUpdate \/ RemoteDeviceProperties

-----------------------------------------------------------------------------
(* The main thread: BluetoothApp::ProcessEvent.                              *)

MainHears(id) ==
    /\ mainEvents # <<>> /\ Head(mainEvents).id = id
    /\ mainEvents' = Tail(mainEvents)
    /\ UNCHANGED <<stackState, gapState, gapTable, gapEvents, misled>>
Told == Head(mainEvents).about
Listed == {inquiry_list[i] : i \in DOMAIN inquiry_list}

AdapterEnabled ==
    /\ MainHears("ENABLED")
    /\ bt_state' = TRUE /\ switching' = FALSE
    /\ UNCHANGED <<commandVars, bt_discovery_state, user_bonded, inquiry, abandoned>>

(* Mutant of the next: the state of the discovery is forgotten.              *)
DisabledStillDiscovers ==
    /\ MainHears("DISABLED")
    /\ bt_state' = FALSE /\ switching' = FALSE
    /\ enquiry_cmd' = FALSE /\ stop_enquiry_cmd' = FALSE
    /\ user_bonded' = {} /\ inquiry_list' = <<>> /\ inq_db_count' = 0
    /\ UNCHANGED <<pairing_cmd, bt_discovery_state, abandoned>>

(* pairing_cmd stays as it is.                                               *)
AdapterDisabled ==
    /\ MainHears("DISABLED")
    /\ bt_state' = FALSE /\ switching' = FALSE
    /\ enquiry_cmd' = FALSE /\ stop_enquiry_cmd' = FALSE /\ bt_discovery_state' = FALSE
    /\ user_bonded' = {} /\ inquiry_list' = <<>> /\ inq_db_count' = 0
    /\ UNCHANGED <<pairing_cmd, abandoned>>

InquiryStatus ==
    /\ MainHears("DISCOVERY_STATE")
    /\ bt_discovery_state' = Told
    /\ enquiry_cmd' = (enquiry_cmd /\ Told)
    /\ stop_enquiry_cmd' = (stop_enquiry_cmd /\ Told)
    /\ UNCHANGED <<bt_state, switching, pairing_cmd, user_bonded, inquiry, abandoned>>

(* A list that is full does not take the device, nor replace its oldest.      *)
AddFoundedDevice ==
    /\ MainHears("DEVICE_FOUND")
    /\ IF Told \in user_bonded \union Listed \/ inq_db_count >= INQ_DB_SIZE
       THEN UNCHANGED inquiry
       ELSE /\ inquiry_list' = Append(inquiry_list, Told)
            /\ inq_db_count' = inq_db_count + 1
    /\ UNCHANGED <<bt_state, switching, commandVars, bt_discovery_state, user_bonded, abandoned>>

(* The entry that leaves the list is the first one, whichever was bonded.     *)
HandleBondState ==
    /\ MainHears("BOND_STATE")
    /\ CASE Told.bond = "BONDED" ->
               /\ user_bonded' = user_bonded \union {Told.device} /\ pairing_cmd' = FALSE
               /\ IF Told.device \in Listed
                  THEN inquiry_list' = Tail(inquiry_list) /\ inq_db_count' = inq_db_count - 1
                  ELSE UNCHANGED inquiry
         [] Told.bond = "NONE" ->
               /\ user_bonded' = user_bonded \ {Told.device} /\ pairing_cmd' = FALSE
               /\ UNCHANGED inquiry
         [] OTHER -> UNCHANGED <<user_bonded, pairing_cmd, inquiry>>
    /\ abandoned' = (abandoned /\ pairing_cmd')
    /\ UNCHANGED <<bt_state, switching, enquiry_cmd, stop_enquiry_cmd, bt_discovery_state>>

MainActs ==
    \/ AdapterEnabled \/ AdapterDisabled \/ InquiryStatus \/ AddFoundedDevice \/ HandleBondState

DevicesNext == UserActs \/ StackActs \/ GapActs \/ MainActs

(* Both threads handle what is queued; the stack ends a discovery after its   *)
(* time and a pairing with a result.                                        *)
DevicesFairness ==
    /\ WF_deviceVars(GapActs) /\ WF_deviceVars(MainActs)
    /\ WF_deviceVars(DiscoveryEnds) /\ WF_deviceVars(PairingIsOver)

DevicesSpec == DevicesInit /\ [][DevicesNext]_deviceVars /\ DevicesFairness

-----------------------------------------------------------------------------
DevicesTypeOK ==
    /\ adapter \in {"off", "starting", "on", "stopping"}
    /\ gapState \in {"OFF", "TURNING_ON", "ON", "TURNING_OFF"}
    /\ bonds \subseteq Device /\ pairing \in Device \union {NoDevice}
    /\ bond_state \in [Device -> {"NONE", "BONDING", "BONDED"}]
    /\ broadcast \subseteq Device /\ bonded_devices \subseteq Device
    /\ user_bonded \subseteq Device /\ Listed \subseteq Device
    /\ {scanning, bt_state, switching, enquiry_cmd, stop_enquiry_cmd, pairing_cmd,
        bt_discovery_state, misled, abandoned} \subseteq BOOLEAN

Quiet == gapEvents = <<>> /\ mainEvents = <<>>
IsOn == Quiet /\ bt_state /\ gapState = "ON"

(* The three lists of bonded devices, of the stack, the GAP thread and the    *)
(* user, agree whenever nothing is on its way: through pairings from either   *)
(* side, bonds that end meanwhile, and turning off and on.  A device the user *)
(* is not told of, because its bond is as old as the adapter's start, is      *)
(* still marked to be told when its name is known.                          *)
BondsAgree ==
    /\ DevicesTypeOK
    /\ IsOn =>
        /\ bonded_devices = bonds
        /\ user_bonded \subseteq bonded_devices
        /\ bonded_devices \ user_bonded \subseteq broadcast

(* What the user sees of a discovery: whether it runs, which the refusals     *)
(* that report a state of their own do not disturb unless that state was      *)
(* another; each device found once, in a list whose count is kept apart.      *)
DiscoveryAgrees ==
    /\ inq_db_count = Len(inquiry_list)
    /\ \A i, j \in DOMAIN inquiry_list : inquiry_list[i] = inquiry_list[j] => i = j
    /\ IsOn /\ ~misled => bt_discovery_state = scanning

(* A command in progress bars the next of its kind, so each must end: an      *)
(* enquiry whether it is refused, times out, is cancelled by a pairing or     *)
(* meets a disable; its cancellation unless the user was misled; a pairing    *)
(* unless the stack, which refused it or is off, has nothing to report.       *)
DeviceCommandsEnd ==
    /\ enquiry_cmd ~> ~enquiry_cmd
    /\ stop_enquiry_cmd ~> (~stop_enquiry_cmd \/ misled)
    /\ pairing_cmd ~> (~pairing_cmd \/ abandoned)
=============================================================================
