------------------------------- MODULE MCDrivers -------------------------------
(***************************************************************************)
(* The instance of the driver wrappers that TLC checks: the Wi-Fi driver   *)
(* with its mirrored status, where its frames go, the Ethernet driver, the *)
(* profiles of Bluedroid, and the wait the blocking and asynchronous       *)
(* wrappers of Wi-Fi, Ethernet and netif are built on. Wifi and Eth keep   *)
(* of how a caller is woken which event it misses, EventWait abstracts     *)
(* from what it waits for. A behaviour exercises one part and leaves the   *)
(* others where they start.                                                *)
(***************************************************************************)
EXTENDS Naturals

CONSTANTS
    MaxQueue, EthQueue, \* the bounds of Wifi and Eth on their queues of events
    Closures, Netifs,   \* see WifiLink and Eth
    Outcomes,           \* see Wifi
    Profiles,           \* see BtProfile
    Timed, Duration,    \* see EventWait
    None

VARIABLES
    part,   \* the part of the system that this behaviour is about
    \* Wifi
    mode, sta, ap, scanning, pairing, queue, status, wifiPc, async, stage,
    success,
    \* WifiLink
    drv, input, slot, call, linkNetif, attached, linkPc, linkArg, ignored,
    \* Eth
    ethDrv, ethQueue, ethStatus, path, rx, callback, netif, glue, ethPc, arg,
    ethAsync, ethStage, ethIgnored,
    \* BtProfile
    profile, btPc, step, taken, spoiled, subscribed, open, posted, last, told,
    \* EventWait
    cond, handler, waitPc, notified, time, verdict

wifiVars == <<mode, sta, ap, scanning, pairing, queue, status, wifiPc, async,
    stage, success>>
linkVars == <<drv, input, slot, call, linkNetif, attached, linkPc, linkArg,
    ignored>>
ethVars == <<ethDrv, ethQueue, ethStatus, path, rx, callback, netif, glue,
    ethPc, arg, ethAsync, ethStage, ethIgnored>>
btVars == <<profile, btPc, step, taken, spoiled, subscribed, open, posted,
    last, told>>
waitVars == <<cond, handler, waitPc, notified, time, verdict>>

vars == <<part, wifiVars, linkVars, ethVars, btVars, waitVars>>

(* A station, alone and with an access point. *)
Modes == {{"sta"}, {"sta", "ap"}}

Driver == INSTANCE Wifi WITH
   pc <- wifiPc

Link == INSTANCE WifiLink WITH
   netif <- linkNetif, pc <- linkPc, arg <- linkArg

Ethernet == INSTANCE Eth WITH
   MaxQueue <- EthQueue,
   drv <- ethDrv, queue <- ethQueue, status <- ethStatus, pc <- ethPc,
   async <- ethAsync, stage <- ethStage, ignored <- ethIgnored

Profile == INSTANCE BtProfile WITH
   pc <- btPc

Blocking == INSTANCE EventWait WITH
   Async <- FALSE, pc <- waitPc

Awaiting == INSTANCE EventWait WITH
   Async <- TRUE, pc <- waitPc

ASSUME Assumptions ==
    /\ Driver!ModesAssumption /\ Blocking!WaitAssumption
    /\ Link!WifiLinkAssumption /\ Ethernet!EthAssumption
    /\ Profile!BtProfileAssumption

Init ==
    /\ part \in {"wifi", "link", "eth", "bt", "blocking", "awaiting"}
    /\ Driver!Init /\ Link!Init /\ Ethernet!Init /\ Profile!Init
    /\ Blocking!Init
    /\ part # "wifi" => mode = {"sta"}
    /\ part # "bt" => profile = CHOOSE p \in Profiles : TRUE
    /\ part \notin {"blocking", "awaiting"} => cond = "wait"

Next ==
    /\ UNCHANGED part
    /\ \/ /\ part = "wifi" /\ Driver!Next
          /\ UNCHANGED <<linkVars, ethVars, btVars, waitVars>>
       \/ /\ part = "link" /\ Link!Next
          /\ UNCHANGED <<wifiVars, ethVars, btVars, waitVars>>
       \/ /\ part = "eth" /\ Ethernet!Next
          /\ UNCHANGED <<wifiVars, linkVars, btVars, waitVars>>
       \/ /\ part = "bt" /\ Profile!Next
          /\ UNCHANGED <<wifiVars, linkVars, ethVars, waitVars>>
       \/ /\ part = "blocking" /\ Blocking!Next
          /\ UNCHANGED <<wifiVars, linkVars, ethVars, btVars>>
       \/ /\ part = "awaiting" /\ Awaiting!Next
          /\ UNCHANGED <<wifiVars, linkVars, ethVars, btVars>>

(* The fairness of the part that runs. WifiLink and BtProfile have no      *)
(* property that needs any.                                                *)
Fairness ==
    \/ part = "wifi" /\ Driver!Fairness
    \/ part \in {"link", "bt"}
    \/ part = "eth" /\ Ethernet!Fairness
    \/ part = "blocking" /\ Blocking!Fairness
    \/ part = "awaiting" /\ Awaiting!Fairness

Spec == Init /\ [][Next]_vars /\ Fairness

-----------------------------------------------------------------------------
(* Properties *)

(* The values the variables take. *)
TypeOK ==
    /\ Driver!TypeOK
    /\ Link!TypeOK
    /\ Ethernet!TypeOK
    /\ part = "bt" => Profile!TypeOK
    /\ part = "blocking" => Blocking!TypeOK
    /\ part = "awaiting" => Awaiting!TypeOK

(* The mirrors of the Wi-Fi and the Ethernet driver lag behind the events  *)
(* but do not go wrong: they show the interfaces as they are once the      *)
(* events on their way are dispatched (wifi.rs, eth.rs: status).           *)
MirrorCatchesUp == Driver!MirrorCatchesUp /\ Ethernet!MirrorCatchesUp

(* A frame of a driver is handed to a closure or a network interface that  *)
(* its owner still has (eth.rs, set_rx_callback(), attach_netif();         *)
(* wifi.rs, set_callbacks(), attach_netif()). A profile of Bluedroid that  *)
(* is gone has left no closure and nothing that would run for one behind   *)
(* (bt/ble/gatt/client.rs, bt/a2dp.rs, bt/hfp.rs and so on: drop()).       *)
ReceiverIsAlive ==
    /\ Link!ReceiverIsAlive
    /\ Ethernet!ReceiverIsAlive
    /\ Profile!DropUndoesNew

(* No event goes by without an asynchronous caller asking its matcher      *)
(* about the state the event has left (eventloop.rs, AsyncWait). Every     *)
(* event of a profile of Bluedroid reaches its closure as a variant of its *)
(* own, made of the member of the union that the event has filled in.      *)
NoLostEvent ==
    /\ part = "awaiting" => Awaiting!NoLostEvent
    /\ part = "bt" => Profile!VariantTellsEvent /\ Profile!NoVariantIsUnheard

(* What a wait returns is what its matcher has said last, and an AsyncWait *)
(* that finds no notification, and so may report a timeout, has missed     *)
(* nothing the event loop task is done with.                               *)
AnswerIsHonest ==
    [][/\ part = "blocking" => Blocking!Justified'
       /\ part = "awaiting" => Awaiting!HonestStep]_vars

(* The calls that wait without a timeout return when the driver does as it *)
(* is told, those of a blocking wrapper unless they sleep through the very *)
(* event they wait for; an asynchronous wait with a duration returns       *)
(* whatever the driver does.                                               *)
CallsReturn ==
    /\ part = "wifi" => Driver!CallsReturn
    /\ part = "eth" => Ethernet!CallsReturn
    /\ part = "awaiting" => Awaiting!TimedReturns

(* wifi.rs:2793: the matcher "is re-evaluated each time the ESP IDF C Wifi *)
(* driver posts a Wifi event on the system event loop".                    *)
ReevaluatedOnEvent == part = "blocking" => Blocking!NoLostEvent
=============================================================================
