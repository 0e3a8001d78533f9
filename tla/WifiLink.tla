------------------------------- MODULE WifiLink -------------------------------
(***************************************************************************)
(* Where the frames of the Wi-Fi driver go (src/src/wifi.rs): to the two   *)
(* closures of set_callbacks(), which live in the statics RX_CALLBACK and  *)
(* TX_CALLBACK, or to the network interfaces that an EspWifi has attached. *)
(*                                                                         *)
(* The application and the task of the C driver take part. Assumed of C: a *)
(* driver that is stopped hands over nothing, and esp_wifi_stop() returns  *)
(* after what it was handing over; the default handlers of an attached     *)
(* interface register it when the driver starts; clearing them takes the   *)
(* interface from the driver; esp_wifi_deinit() refuses a driver that runs. *)
(***************************************************************************)
CONSTANTS
    Closures,   \* the callbacks the application installs, in pairs
    Netifs,     \* the network interfaces it has
    None        \* no closure, no interface

(* What the constants are required to be. *)
WifiLinkAssumption ==
    /\ Closures \intersect Netifs = {}
    /\ {None, "closures", "unwrapped"} \intersect (Closures \union Netifs) = {}
    /\ None \notin {"closures", "unwrapped"}

Devices == {"ap", "sta"}

(* The functions registered with C: handle_rx_ap, handle_rx_sta, handle_tx. *)
Handlers == Devices \union {"tx"}

VARIABLES
    drv,        \* the state of the C driver
    input,      \* who is registered with it: "closures" for our handlers
    slot,       \* RX_CALLBACK and TX_CALLBACK
    call,       \* what the driver's task is calling, and for what
    netif,      \* EspWifi::ap_netif, sta_netif; None for a bare driver
    attached,   \* the interfaces with default handlers
    pc,         \* where the application is, "panic" when it has unwrapped an Err
    arg,        \* the interfaces its call has not yet placed
    ignored     \* history: an error of stop() was, with the driver running

vars == <<drv, input, slot, call, netif, attached, pc, arg, ignored>>

Nobody == [h \in Handlers |-> None]

Bare == [d \in Devices |-> None]

Init ==
    /\ drv = "none"
    /\ input = Nobody
    /\ slot = None /\ call = [by |-> "tx", to |-> None]
    /\ netif = Bare /\ attached = Bare
    /\ pc = "none" /\ arg = None
    /\ ignored = FALSE

-----------------------------------------------------------------------------
(* Variants with a bug. *)

(* The closures are replaced while the driver runs. *)
SetCallbacksRunning(c) ==
    /\ pc = "idle"
    /\ slot' = c
    /\ pc' = "register.ap"
    /\ UNCHANGED <<drv, input, call, netif, attached, arg, ignored>>

(* swap_netif() leaves the interfaces it replaces attached. *)
DetachNot ==
    /\ pc \in {"swap", "drop"}
    /\ pc' = IF pc = "swap" THEN "stop.attach" ELSE "stop.gone"
    /\ netif' = IF pc = "swap" THEN arg ELSE netif
    /\ arg' = None
    /\ UNCHANGED <<drv, input, slot, call, attached, ignored>>

-----------------------------------------------------------------------------
(* WifiDriver::new(). *)
New ==
    /\ pc = "none"
    /\ drv' = "stopped" /\ pc' = "idle"
    /\ UNCHANGED <<input, slot, call, netif, attached, arg, ignored>>

Stopped == call.to = None /\ drv' = "stopped" /\ UNCHANGED ignored

(* "let _ = self.stop()": what stop() returns is not looked at. *)
StopIgnored ==
    \/ Stopped
    \/ UNCHANGED drv /\ ignored' = (ignored \/ drv = "started")

(* start() and stop() of both; the default handlers run when it starts.    *)
Start ==
    /\ pc = "idle"
    /\ drv' = "started"
    /\ input' = [h \in Handlers |->
                    IF h \in Devices /\ attached[h] # None THEN attached[h]
                                                           ELSE input[h]]
    /\ UNCHANGED <<slot, call, netif, attached, pc, arg, ignored>>

Stop ==
    /\ pc = "idle"
    /\ Stopped
    /\ UNCHANGED <<input, slot, call, netif, attached, pc, arg>>

(* internal_set_callbacks(): the driver is stopped, the closures that were *)
(* in the statics are dropped ...                                          *)
SetCallbacks(c) ==
    /\ pc = "idle"
    /\ StopIgnored
    /\ slot' = c
    /\ pc' = "register.ap"
    /\ UNCHANGED <<input, call, netif, attached, arg>>

(* ... and the handlers registered one by one, up to the first error, which *)
(* leaves the ones before it with the new closures.                        *)
Register(h, at, next) ==
    /\ pc = at
    /\ \/ input' = [input EXCEPT ![h] = "closures"] /\ pc' = next
       \/ UNCHANGED input /\ pc' = "idle"
    /\ UNCHANGED <<drv, slot, call, netif, attached, arg, ignored>>

(* wrap_all(), swap_netif(), swap_netif_sta(), swap_netif_ap() and the     *)
(* drops of EspWifi and WifiDriver.                                        *)
Begin(op, interfaces) ==
    /\ pc = "idle"
    /\ pc' = op /\ arg' = interfaces
    /\ UNCHANGED <<drv, input, slot, call, netif, attached, ignored>>

Wrap ==
    /\ pc = "wrap"
    /\ netif' = arg /\ arg' = None
    /\ pc' = "stop.attach"
    /\ UNCHANGED <<drv, input, slot, call, attached, ignored>>

(* detach_netif(), attach_netif() and clear_all() begin with a stop.       *)
Halt(at, next) ==
    /\ pc = at
    /\ StopIgnored
    /\ pc' = next
    /\ UNCHANGED <<input, slot, call, netif, attached, arg>>

(* detach_netif(): first the access point's interface, then the station's. *)
(* It may fail in between: swap_netif() then returns with one of them      *)
(* detached, and the drop of EspWifi panics.                               *)
Detach ==
    /\ pc \in {"swap", "drop"}
    /\ \E cleared \in {{}, {"ap"}, Devices} :
        /\ attached' = [d \in Devices |->
                          IF d \in cleared THEN None ELSE attached[d]]
        /\ input' = [h \in Handlers |->
                       IF h \in cleared /\ input[h] = attached[h]
                       THEN None ELSE input[h]]
        /\ IF cleared = Devices
           THEN /\ pc' = IF pc = "swap" THEN "stop.attach" ELSE "stop.gone"
                /\ netif' = IF pc = "swap" THEN arg ELSE netif
           ELSE /\ pc' = IF pc = "swap" THEN "idle" ELSE "panic"
                /\ UNCHANGED netif
    /\ arg' = None
    /\ UNCHANGED <<drv, slot, call, ignored>>

(* attach_netif(), in the same order; wrap_all() drops the EspWifi it has  *)
(* begun to build when it fails.                                           *)
Attach ==
    /\ pc = "attach"
    /\ \E done \in {{}, {"ap"}, Devices} :
        /\ attached' = [d \in Devices |->
                          IF d \in done THEN netif[d] ELSE attached[d]]
        /\ pc' \in IF done = Devices THEN {"idle"} ELSE {"idle", "stop.drop"}
    /\ UNCHANGED <<drv, input, slot, call, netif, arg, ignored>>

(* clear_all(): esp_wifi_deinit() forgets what was registered, and the     *)
(* closures are dropped. When it fails the drop of WifiDriver panics.      *)
ClearAll ==
    /\ pc = "gone"
    /\ \/ /\ drv = "stopped"
          /\ drv' = "none" /\ pc' = "end"
          /\ input' = Nobody /\ slot' = None
          /\ netif' = Bare
       \/ /\ pc' = "panic"
          /\ UNCHANGED <<drv, input, slot, netif>>
    /\ UNCHANGED <<call, attached, arg, ignored>>

-----------------------------------------------------------------------------
(* The driver's task: a frame has arrived, or one was sent. handle_rx() and *)
(* handle_tx() unwrap the static.                                          *)
Receive(h) ==
    /\ drv = "started" /\ call.to = None /\ input[h] # None
    /\ call' = [by |-> h, to |-> IF input[h] # "closures" THEN input[h]
                                 ELSE IF slot = None THEN "unwrapped" ELSE slot]
    /\ UNCHANGED <<drv, input, slot, netif, attached, pc, arg, ignored>>

Handled ==
    /\ call.to # None
    /\ call' = [call EXCEPT !.to = None]
    /\ UNCHANGED <<drv, input, slot, netif, attached, pc, arg, ignored>>

-----------------------------------------------------------------------------
(* Two interfaces, one for each device. *)
Pairs == {f \in [Devices -> Netifs] : f["ap"] # f["sta"]}

Next ==
    \/ New \/ Start \/ Stop
    \/ \E c \in Closures : SetCallbacks(c)
    \/ Register("ap", "register.ap", "register.sta")
    \/ Register("sta", "register.sta", "register.tx")
    \/ Register("tx", "register.tx", "idle")
    \/ \E n \in Pairs : Begin(IF netif = Bare THEN "wrap" ELSE "stop.swap", n)
    \/ Begin(IF netif = Bare THEN "stop.gone" ELSE "stop.drop", None)
    \/ Halt("stop.swap", "swap") \/ Halt("stop.drop", "drop")
    \/ Halt("stop.attach", "attach") \/ Halt("stop.gone", "gone")
    \/ Wrap \/ Detach \/ Attach \/ ClearAll
    \/ \E h \in Handlers : Receive(h)
    \/ Handled

Spec == Init /\ [][Next]_vars

-----------------------------------------------------------------------------
(* Properties *)

(* The values the variables take. *)
TypeOK ==
    /\ drv \in {"none", "stopped", "started"}
    /\ input \in [Handlers -> Netifs \union {"closures", None}]
    /\ slot \in Closures \union {None}
    /\ call \in [by : Handlers, to : Closures \union Netifs
                                      \union {"unwrapped", None}]
    /\ netif \in {Bare} \union Pairs
    /\ attached \in [Devices -> Netifs \union {None}]
    /\ pc \in {"none", "idle", "wrap", "swap", "attach", "drop", "gone", "end",
               "panic", "register.ap", "register.sta", "register.tx",
               "stop.swap", "stop.drop", "stop.attach", "stop.gone"}
    /\ ignored \in BOOLEAN
    /\ arg \in Pairs \union {None}

(* The driver's task runs the closures that are in the statics, and finds  *)
(* them there; a frame goes to the interface that EspWifi has for its      *)
(* device, however many swaps have failed half way. It is so as long as    *)
(* the driver stops when it is told to: Alive itself fails once a running  *)
(* driver was not stopped and the call went on.                            *)
Alive ==
    /\ call.to # "unwrapped"
    /\ call.to \in Closures => call.to = slot
    /\ call.to \in Netifs => call.to = netif[call.by]

ReceiverIsAlive == ~ ignored => Alive
=============================================================================
