---------------------------------- MODULE Eth ----------------------------------
(***************************************************************************)
(* The Ethernet driver of src/src/eth.rs: EthDriver with its mirrored      *)
(* status and its receive callback, and EspEth, which binds a driver to a  *)
(* network interface with a glue of C.                                     *)
(*                                                                         *)
(* Three tasks take part: the application, the event loop, which feeds the *)
(* mirror, and the receive task of the C driver, which hands every frame   *)
(* to what the input path names. Assumed of C: esp_eth_stop() returns      *)
(* after the frame that is being handed over; deleting a glue leaves the   *)
(* input path as it is; a driver that runs is not uninstalled.             *)
(***************************************************************************)
EXTENDS Naturals, Sequences

CONSTANTS
    Closures,   \* the callbacks the application installs
    Netifs,     \* the network interfaces it has
    MaxQueue,   \* bound: the number of events not yet dispatched
    None        \* no closure, no interface

(* What the constants are required to be. *)
EthAssumption ==
    /\ Closures \intersect Netifs = {} /\ None \notin Closures \union Netifs
    /\ MaxQueue \in Nat

VARIABLES
    drv,        \* the state of the C driver, "none" when not installed
    queue,      \* events not yet dispatched, each with whether it is for us
    status,     \* the mirror
    path,       \* the input path: who gets the frames
    rx,         \* who has the frame that is being handed over
    callback,   \* EthDriver::callback: the closure the driver owns
    netif,      \* EspEth::netif, None for a bare driver
    glue,       \* the interface the glue binds; None for a null glue_handle
    pc,         \* where the application is, "panic" when it has unwrapped an Err
    arg,        \* the closure or the interface its call has not yet placed
    async,      \* who waits is an AsyncEth, not a BlockingEth
    stage,      \* what the waiting caller is about to do, or that it sleeps
    ignored     \* history: an error of stop() was, with the driver running

vars == <<drv, queue, status, path, rx, callback, netif, glue, pc, arg, async,
          stage, ignored>>

wait == <<async, stage>>

app == <<callback, netif, glue, pc, arg, async, ignored>>

Running == {"Started", "Connected", "Disconnected"}

Init ==
    /\ drv = "none" /\ status = "Stopped"
    /\ queue = <<>>
    /\ path = None /\ rx = None
    /\ callback = None /\ netif = None /\ glue = None
    /\ pc = "none" /\ arg = None
    /\ async = FALSE /\ stage = "none"
    /\ ignored = FALSE

-----------------------------------------------------------------------------
(* Variants with a bug. *)

(* The events of all drivers are taken for ours. *)
MirroredAny(st, event) == event.kind

(* A driver that is connected is not one that is started. *)
IsStartedOnly == status = "Started"

-----------------------------------------------------------------------------
(* The closure of subscribe(): events of another driver, and those of an   *)
(* unknown kind, whose handle is null, do not count.                       *)
Mirrored(st, event) == IF event.own THEN event.kind ELSE st

IsStarted == status \in Running

(* The matchers of the waits: what they wait for. *)
Arrived ==
    \/ pc = "await.start" /\ IsStarted
    \/ pc = "await.stop" /\ ~ IsStarted
    \/ pc = "await.connect" /\ status = "Connected"

Event(kind) == [kind |-> kind, own |-> TRUE]

Post(events) ==
    /\ Len(queue) + Len(events) <= MaxQueue
    /\ queue' = queue \o events

(* esp_eth_stop(). stop() takes a driver that is stopped already for one   *)
(* that it has stopped.                                                    *)
Stopping ==
    /\ rx = None
    /\ IF drv \in Running
       THEN Post((IF drv = "Connected" THEN <<Event("Disconnected")>> ELSE <<>>)
                 \o <<Event("Stopped")>>)
       ELSE UNCHANGED queue
    /\ drv' = "Stopped"
    /\ UNCHANGED ignored

(* "let _ = self.stop()": what stop() returns is not looked at. *)
StopIgnored ==
    \/ Stopping
    \/ UNCHANGED <<drv, queue>> /\ ignored' = (ignored \/ drv \in Running)

-----------------------------------------------------------------------------
(* Variants with a bug. *)

(* The driver is not stopped while its input path changes. *)
HaltNot(at, next) ==
    /\ pc = at
    /\ pc' = next
    /\ UNCHANGED <<drv, queue, status, path, rx, callback, netif, glue, arg, wait,
                   ignored>>

(* The interface is replaced under its glue. *)
DeleteGlueNot ==
    /\ pc \in {"swap", "drop"}
    /\ pc' = IF pc = "drop" THEN "stop.gone" ELSE "stop.attach"
    /\ netif' = IF pc = "swap" THEN arg ELSE netif
    /\ arg' = None
    /\ UNCHANGED <<drv, queue, status, path, rx, callback, glue, wait, ignored>>

-----------------------------------------------------------------------------
(* new_rmii(), new_spi() and new_openeth() make the objects of the MAC and *)
(* the PHY that the chip calls for ...                                     *)
New ==
    /\ pc = "none"
    /\ pc' \in {"init", "end"}
    /\ UNCHANGED <<drv, queue, status, path, rx, callback, netif, glue, arg, wait,
                   ignored>>

(* ... and end in init(): the driver is installed, given its address and   *)
(* subscribed to. When one of the last two fails the driver stays          *)
(* installed, and nobody has its handle.                                   *)
Install ==
    /\ pc = "init"
    /\ \/ drv' = "Stopped" /\ pc' \in {"idle", "end"}
       \/ UNCHANGED drv /\ pc' = "end"
    /\ UNCHANGED <<queue, status, path, rx, callback, netif, glue, arg, wait, ignored>>

(* start() and stop() of EthDriver and EspEth return at once, those of the *)
(* blocking and asynchronous wrappers wait for the mirror, without a       *)
(* timeout; wait_connected() waits with CONNECT_TIMEOUT. How a waiting     *)
(* call is woken is the subject of EventWait, of which this is what tells  *)
(* the two wrappers apart: an event after the matcher was evaluated and    *)
(* before the caller sleeps is lost on a BlockingEth, and kept for an      *)
(* AsyncEth, which sleeps from the moment its matcher was evaluated.       *)
Begun(next) ==
    /\ pc' = next
    /\ IF next = "idle" THEN UNCHANGED wait
                        ELSE stage' = "look" /\ async' \in BOOLEAN

Start(next) ==
    /\ pc = "idle"
    /\ drv = "Stopped"
    /\ drv' = "Started"
    /\ Post(<<Event("Started")>>)
    /\ Begun(next)
    /\ UNCHANGED <<status, path, rx, callback, netif, glue, arg, ignored>>

Stop(next) ==
    /\ pc = "idle"
    /\ Stopping
    /\ Begun(next)
    /\ UNCHANGED <<status, path, rx, callback, netif, glue, arg>>

WaitConnected ==
    /\ pc = "idle"
    /\ Begun("await.connect")
    /\ UNCHANGED <<drv, queue, status, path, rx, callback, netif, glue, arg, ignored>>

(* The matcher is evaluated: the wait is over, or the caller is to sleep.  *)
Look ==
    /\ stage = "look"
    /\ IF Arrived
       THEN pc' = "idle" /\ stage' = "none" /\ async' = FALSE
       ELSE stage' = (IF async THEN "sleep" ELSE "park") /\ UNCHANGED <<pc, async>>
    /\ UNCHANGED <<drv, queue, status, path, rx, callback, netif, glue, arg, ignored>>

Park ==
    /\ stage = "park"
    /\ stage' = "sleep"
    /\ UNCHANGED <<drv, queue, status, path, rx, app>>

(* The condition variable of a BlockingEth may wake without an event.      *)
SpuriousWakeup ==
    /\ stage = "sleep" /\ ~ async
    /\ stage' = "look"
    /\ UNCHANGED <<drv, queue, status, path, rx, app>>

(* CONNECT_TIMEOUT, or the end of the future of an AsyncEth call.          *)
GiveUp ==
    /\ \/ pc = "await.connect"
       \/ pc \in {"await.start", "await.stop"} /\ async
    /\ pc' = "idle" /\ stage' = "none" /\ async' = FALSE
    /\ UNCHANGED <<drv, queue, status, path, rx, callback, netif, glue, arg, ignored>>

(* internal_set_rx_callback(), wrap_all(), swap_netif() and the drops of   *)
(* EspEth and EthDriver. No interface is attached twice.                   *)
Begin(op, x) ==
    /\ pc = "idle"
    /\ pc' = op /\ arg' = x
    /\ UNCHANGED <<drv, queue, status, path, rx, callback, netif, glue, wait, ignored>>

(* internal_set_rx_callback(), attach_netif(), detach_netif() and          *)
(* clear_all() begin with a stop.                                          *)
Halt(at, next) ==
    /\ pc = at
    /\ StopIgnored
    /\ pc' = next
    /\ UNCHANGED <<status, path, rx, callback, netif, glue, arg, wait>>

(* The input path is changed to the new closure, and only then is the old  *)
(* one dropped. When it cannot be changed the new one is.                  *)
UpdatePath ==
    /\ pc = "callback"
    /\ \/ path' = arg /\ pc' = "keep" /\ UNCHANGED arg
       \/ UNCHANGED path /\ pc' = "idle" /\ arg' = None
    /\ UNCHANGED <<drv, queue, status, rx, callback, netif, glue, wait, ignored>>

KeepCallback ==
    /\ pc = "keep"
    /\ callback' = arg /\ arg' = None
    /\ pc' = "idle"
    /\ UNCHANGED <<drv, queue, status, path, rx, netif, glue, wait, ignored>>

(* wrap_all() moves driver and interface into the EspEth it attaches.      *)
Wrap ==
    /\ pc = "wrap"
    /\ netif = None
    /\ netif' = arg /\ arg' = None
    /\ pc' = "stop.attach"
    /\ UNCHANGED <<drv, queue, status, path, rx, callback, glue, wait, ignored>>

(* attach_netif(): a new glue for the driver, attached to the interface,   *)
(* which becomes the input path. When it cannot be attached the glue is    *)
(* lost; wrap_all() then drops the EspEth it has begun to build.           *)
Attach ==
    /\ pc = "attach"
    /\ \/ glue' = netif /\ path' = netif /\ pc' = "idle"
       \/ UNCHANGED <<glue, path>> /\ pc' \in {"idle", "stop.drop"}
    /\ UNCHANGED <<drv, queue, status, rx, callback, netif, arg, wait, ignored>>

(* detach_netif(): the glue is deleted; there has to be one. swap_netif()  *)
(* gives up when there is none, the drop of EspEth panics. The interface   *)
(* is dropped, or handed to the caller, who may drop it.                   *)
DeleteGlue ==
    /\ pc \in {"swap", "drop"}
    /\ pc' = CASE pc = "drop" -> IF glue = None THEN "panic" ELSE "stop.gone"
               [] pc = "swap" -> IF glue = None THEN "idle" ELSE "stop.attach"
    /\ glue' = None
    /\ netif' = IF pc = "swap" /\ glue # None THEN arg ELSE netif
    /\ arg' = None
    /\ UNCHANGED <<drv, queue, status, path, rx, callback, wait, ignored>>

(* clear_all(): the driver is uninstalled, and its closure dropped; when   *)
(* that fails the drop of EthDriver panics.                                *)
Uninstall ==
    /\ pc = "gone"
    /\ \/ /\ drv = "Stopped"
          /\ drv' = "none" /\ pc' = "end"
          /\ callback' = None /\ netif' = None /\ path' = None
       \/ /\ drv \in Running
          /\ pc' = "panic"
          /\ UNCHANGED <<drv, callback, netif, path>>
    /\ UNCHANGED <<queue, status, rx, glue, arg, wait, ignored>>

-----------------------------------------------------------------------------
(* The C driver: the link, the events, and those of another driver.        *)
Link ==
    /\ drv \in Running
    /\ drv' = IF drv = "Connected" THEN "Disconnected" ELSE "Connected"
    /\ Post(<<Event(drv')>>)
    /\ UNCHANGED <<status, path, rx, app, stage>>

Elsewhere ==
    /\ Post(<<[kind |-> "Connected", own |-> FALSE]>>)
    /\ UNCHANGED <<drv, status, path, rx, app, stage>>

Dispatch ==
    /\ queue # <<>>
    /\ status' = Mirrored(status, Head(queue))
    /\ queue' = Tail(queue)
    /\ stage' = IF stage = "sleep" THEN "look" ELSE stage
    /\ UNCHANGED <<drv, path, rx, app>>

(* The receive task: handle() gets a frame, and owns it until the closure  *)
(* is done with it.                                                        *)
Receive ==
    /\ drv = "Connected" /\ path # None /\ rx = None
    /\ rx' = path
    /\ UNCHANGED <<drv, queue, status, path, app, stage>>

Handled ==
    /\ rx # None
    /\ rx' = None
    /\ UNCHANGED <<drv, queue, status, path, app, stage>>

-----------------------------------------------------------------------------
Halting ==
    \/ Halt("stop.callback", "callback") \/ Halt("stop.attach", "attach")
    \/ Halt("stop.swap", "swap") \/ Halt("stop.drop", "drop")
    \/ Halt("stop.gone", "gone")

Next ==
    \/ New \/ Install \/ WaitConnected
    \/ Look \/ Park \/ SpuriousWakeup \/ GiveUp
    \/ \E next \in {"idle", "await.start"} : Start(next)
    \/ \E next \in {"idle", "await.stop"} : Stop(next)
    \/ \E c \in Closures \ {callback} : Begin("stop.callback", c)
    \/ \E n \in Netifs \ {netif} :
          Begin(IF netif = None THEN "wrap" ELSE "stop.swap", n)
    \/ Begin(IF netif = None THEN "stop.gone" ELSE "stop.drop", None)
    \/ Halting
    \/ UpdatePath \/ KeepCallback \/ Wrap \/ Attach \/ DeleteGlue \/ Uninstall
    \/ Link \/ Elsewhere \/ Dispatch \/ Receive \/ Handled

Spec == Init /\ [][Next]_vars

(* What the caller itself does once its call has begun. *)
Proceed ==
    \/ Install \/ Look \/ Park \/ Halting \/ UpdatePath \/ KeepCallback
    \/ Wrap \/ Attach \/ DeleteGlue \/ Uninstall

(* The event loop and the receive task run, and so does a call; its        *)
(* timeout expires.                                                        *)
Fairness ==
    /\ WF_vars(Dispatch) /\ WF_vars(Handled) /\ WF_vars(Proceed)
    /\ WF_vars(pc = "await.connect" /\ GiveUp)

-----------------------------------------------------------------------------
(* Properties *)

(* The values the variables take. *)
TypeOK ==
    /\ drv \in Running \union {"none", "Stopped"}
    /\ status \in Running \union {"Stopped"}
    /\ queue \in Seq([kind : Running \union {"Stopped"}, own : BOOLEAN])
    /\ Len(queue) <= MaxQueue
    /\ path \in Closures \union Netifs \union {None}
    /\ rx \in Closures \union Netifs \union {None}
    /\ callback \in Closures \union {None}
    /\ netif \in Netifs \union {None} /\ glue \in Netifs \union {None}
    /\ arg \in Closures \union Netifs \union {None}
    /\ pc \in {"none", "init", "idle", "callback", "keep", "wrap", "swap", "attach",
               "drop", "gone", "end", "panic",
               "await.start", "await.stop", "await.connect",
               "stop.callback", "stop.attach", "stop.swap", "stop.drop",
               "stop.gone"}
    /\ async \in BOOLEAN /\ stage \in {"none", "look", "park", "sleep"}
    /\ ignored \in BOOLEAN

(* The latest of our events in the queue. *)
Ours == [kind : Running \union {"Stopped"}, own : {TRUE}]

Latest(q) ==
    {q[k] : k \in {k \in DOMAIN q :
        q[k] \in Ours /\ \A l \in DOMAIN q : q[l] \in Ours => l <= k}}

(* Once the events on their way are dispatched the mirror shows the state  *)
(* of the driver, whatever other drivers do on the same event loop: the    *)
(* latest event tells it, or the mirror does when there is none.           *)
MirrorCatchesUp ==
    drv # "none" =>
        /\ \A event \in Latest(queue) : event.kind = drv
        /\ Latest(queue) = {} => status = drv

(* A frame is handed to a closure the driver still owns, and to the        *)
(* interface the glue binds: to no closure that was replaced, and, unless  *)
(* a swap has failed half way, to no interface that was given back. It is  *)
(* so as long as the driver stops when it is told to: Alive itself fails   *)
(* once a running driver was not stopped and the call went on.             *)
Alive ==
    /\ rx \in Closures => rx = callback
    /\ rx \in Netifs /\ glue # None => rx = netif

ReceiverIsAlive == ~ ignored => Alive

(* A call comes to an end, the ones that wait for the mirror too: it is    *)
(* going to show what the driver was told. A BlockingEth may sleep through *)
(* the very event it waits for.                                            *)
Overslept == stage = "sleep" /\ Arrived /\ ~ async

CallsReturn ==
    (pc \notin {"none", "idle"}) ~> (pc \in {"idle", "end", "panic"} \/ Overslept)

(* eth.rs:1520, 1525: start() and stop() of a BlockingEth wait until the   *)
(* driver is started or stopped, and would return then.                    *)
BlockingCallsReturn ==
    (pc \notin {"none", "idle"}) ~> (pc \in {"idle", "end", "panic"})
=============================================================================
