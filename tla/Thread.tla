--------------------------------- MODULE Thread ---------------------------------
(***************************************************************************)
(* ThreadDriver and EspThread of src/src/thread.rs. start() creates a task *)
(* that runs OpenThread's main loop and sleeps until the task says so;     *)
(* OpenThread calls the closures of the driver from that task.             *)
(*                                                                         *)
(* Every call but the sleeping holds the lock of OpenThread, which is      *)
(* recursive: a call from inside a closure gets it, one from another task  *)
(* is a step between the iterations of the main loop.                      *)
(*                                                                         *)
(* Assumed of ESP-IDF: the main loop ends when it was told to, also before *)
(* it was launched, and only then; deinit ends the calls into closures.    *)
(***************************************************************************)
EXTENDS Naturals

CONSTANTS
    Tods,       \* the operational datasets that fit their buffer
    Oversized,  \* and those that do not
    None

Slots == {"ipv6", "scan", "energy"}         \* ipv6_cb, scan_cb, energy_cb

Scans == {"scan", "energy"}

(* What the constants are required to be. *)
ThreadAssumption == None \notin Tods \union Slots /\ Tods \intersect Oversized = {}

VARIABLES
    drv,        \* "none", a ThreadDriver alone, or one in an EspThread
    mode,       \* Host or RCP, and how the other chip is connected
    glue,       \* the netif glue: "none", "attached" or "leaked"
    started,    \* ThreadDriverInner::started
    cb,         \* whether each slot has a closure
    reg,        \* whether OpenThread has the callback of each slot
    cur,        \* the slot whose closure runs, None
    task,       \* where the task is in run()
    exit,       \* the main loop was told to exit
    pc,         \* where the owner of the driver is
    asleep,     \* it sleeps on started_condvar
    dataset_buf,\* ThreadDriverInner::dataset_buf
    dataset,    \* the active dataset of OpenThread
    panicked

vars == <<drv, mode, glue, started, cb, reg, cur, task, exit, pc, asleep,
          dataset_buf, dataset, panicked>>

tods == <<dataset_buf, dataset>>
run == <<started, task, exit>>
closures == <<cb, reg, cur>>
owner == <<drv, mode, glue, pc, asleep, panicked>>

Unset == [slot \in Slots |-> FALSE]

(* new(), new_spi(), new_uart(): the radio of a host is this chip's own or *)
(* one behind a link; an RCP has the radio and answers a host over a link. *)
HostConfig(link) == [radio |-> link, host |-> "none"]

RcpConfig(link) == [radio |-> "native", host |-> link]

PlatformConfig(m) == IF m[1] = "Host" THEN HostConfig(m[2]) ELSE RcpConfig(m[2])

Modes == ({"Host"} \X {"native", "spi", "uart"}) \union ({"RCP"} \X {"spi", "uart"})

Init ==
    /\ drv = "none" /\ mode = <<"Host", "native">> /\ glue = "none"
    /\ started = FALSE /\ task = "none" /\ exit = FALSE
    /\ cb = Unset /\ reg = Unset /\ cur = None
    /\ pc = "idle" /\ asleep = FALSE /\ panicked = FALSE
    /\ dataset_buf = None /\ dataset = None

(* The lock, for anybody but the task. *)
Unlocked == cur = None /\ task \notin {"told", "telling"}

Idle == pc = "idle" /\ drv # "none" /\ ~ panicked

IsHost == mode[1] = "Host"

(* EspThread has a constructor for every kind of host and none for an RCP. *)
Wrappable == Idle /\ IsHost /\ drv = "plain"

-----------------------------------------------------------------------------
(* Variants with a bug. *)

(* The drop leaves the task to itself. *)
StopInDropNot == pc' = "deinit" /\ UNCHANGED exit

(* Whoever waits for the task is not woken. *)
NotifyNobody == UNCHANGED asleep

(* The slot of a scan that was refused stays taken. *)
ScanFailsKeeps(slot) == cb' = [cb EXCEPT ![slot] = TRUE]

(* C is given the buffer whatever came of filling it. *)
SetTodUnchecked(tod, hexstr) ==
    /\ pc = "idle" /\ drv # "none" /\ IsHost
    /\ dataset_buf' = IF tod \in Tods THEN tod ELSE "torn"
    /\ dataset' = dataset_buf'
    /\ UNCHANGED <<owner, run, closures>>

-----------------------------------------------------------------------------
(* internal_new(): esp_openthread_init(), the mode's own initialization.   *)
(* A driver that is still in its deinit() has the modem.                   *)
New(m) ==
    /\ drv = "none" /\ pc = "idle" /\ task = "none" /\ ~ panicked
    /\ \/ drv' = "plain" /\ mode' = m
       \/ UNCHANGED <<drv, mode>>
    /\ dataset_buf' = None
    /\ UNCHANGED <<glue, run, closures, pc, asleep, dataset, panicked>>

(* wrap_all(), wrap_br_all(), internal_init(): the glue, which panics when *)
(* there is one already, the attachment and the mode. When one of these    *)
(* fails the driver is dropped, and the glue is not deinitialized.         *)
WrapInEsp ==
    /\ Wrappable /\ Unlocked
    /\ IF glue # "none"
       THEN panicked' = TRUE /\ UNCHANGED <<drv, glue, pc>>
       ELSE /\ \/ drv' = "esp" /\ glue' = "attached" /\ UNCHANGED pc
               \/ glue' = "leaked" /\ pc' = "drop" /\ UNCHANGED drv
            /\ UNCHANGED panicked
    /\ UNCHANGED <<mode, run, closures, asleep, tods>>

(* start() creates the task. EspThread::start() and EspThread::stop() are  *)
(* both this one.                                                          *)
Start ==
    /\ Idle /\ Unlocked /\ ~ started
    /\ \/ task' = "begin" /\ pc' = "starting"
       \/ UNCHANGED <<task, pc>>
    /\ UNCHANGED <<drv, mode, glue, started, exit, closures, asleep, tods, panicked>>

(* stop(); the driver of an EspThread is reached by driver_mut(). *)
Stop ==
    /\ Idle /\ Unlocked /\ started
    /\ exit' = TRUE /\ pc' = "stopping"
    /\ UNCHANGED <<drv, mode, glue, started, task, closures, asleep, tods, panicked>>

(* The loop in both: it looks at the state and sleeps under one mutex. *)
WaitsFor == pc = "starting"

Check ==
    /\ pc \in {"starting", "stopping", "dropping"} /\ ~ asleep
    /\ IF started = WaitsFor
       THEN /\ pc' = (IF pc = "dropping" THEN "deinit" ELSE "idle")
            /\ UNCHANGED asleep
       ELSE asleep' = TRUE /\ UNCHANGED pc
    /\ UNCHANGED <<drv, mode, glue, run, closures, tods, panicked>>

Spurious ==
    /\ asleep /\ asleep' = FALSE
    /\ UNCHANGED <<drv, mode, glue, run, closures, pc, tods, panicked>>

(* EspThread::drop() deinitializes mode and glue; a mode that fails        *)
(* panics. The driver is dropped next, and the netif after it.             *)
DropEsp ==
    /\ Idle /\ drv = "esp" /\ Unlocked
    /\ \/ glue' = "none" /\ drv' = "plain" /\ pc' = "drop" /\ UNCHANGED panicked
       \/ panicked' = TRUE /\ UNCHANGED <<glue, drv, pc>>
    /\ UNCHANGED <<mode, run, closures, asleep, tods>>

(* ThreadDriver::drop(), internal_deinit(): stop(), whose error is         *)
(* ignored ...                                                             *)
StopInDrop ==
    IF started THEN exit' = TRUE /\ pc' = "dropping"
               ELSE pc' = "deinit" /\ UNCHANGED exit

Drop ==
    /\ drv = "plain" /\ Unlocked /\ ~ panicked
    /\ pc \in {"idle", "drop"}
    /\ StopInDrop
    /\ UNCHANGED <<drv, mode, glue, started, task, closures, asleep, tods, panicked>>

(* ... esp_openthread_deinit(), which panics when it fails, and the memory.*)
Deinit ==
    /\ pc = "deinit" /\ cur = None /\ ~ panicked
    /\ \/ /\ drv' = "none" /\ pc' = "idle"
          /\ cb' = Unset /\ reg' = Unset
          /\ UNCHANGED panicked
       \/ panicked' = TRUE /\ UNCHANGED <<drv, pc, cb, reg>>
    /\ UNCHANGED <<mode, glue, run, cur, asleep, tods>>

-----------------------------------------------------------------------------
(* The calls of a host, also from inside a closure. *)

Called == Idle /\ IsHost /\ (Unlocked \/ cur # None)

(* scan(), energy_scan(): one at a time; "at the end of the scan the       *)
(* callback will be called with None". OpenThread may refuse.              *)
ScanFails(slot) == cb' = [cb EXCEPT ![slot] = FALSE]

Scan(slot) ==
    /\ Called /\ ~ cb[slot]
    /\ \/ cb' = [cb EXCEPT ![slot] = TRUE] /\ reg' = [reg EXCEPT ![slot] = TRUE]
       \/ ScanFails(slot) /\ UNCHANGED reg
    /\ UNCHANGED <<owner, run, cur, tods>>

(* set_rx_callback(): the closure before is freed, which must not be the   *)
(* one that calls.                                                         *)
SetRxCallback(given) ==
    /\ Called /\ cur # "ipv6"
    /\ cb' = [cb EXCEPT !["ipv6"] = given]
    /\ reg' = [reg EXCEPT !["ipv6"] = given]
    /\ UNCHANGED <<owner, run, cur, tods>>

(* set_tod(): fill_dataset_tlv() refuses what does not fit before it       *)
(* writes, fill_dataset_tlv_hexstr() when it has written what does; both   *)
(* return before C is given the buffer.                                    *)
FillDataset(tod, hexstr) ==
    IF tod \in Tods THEN dataset_buf' = tod
    ELSE dataset_buf' = IF hexstr THEN "torn" ELSE dataset_buf

SetTod(tod, hexstr) ==
    /\ Called
    /\ FillDataset(tod, hexstr)
    /\ \/ tod \in Tods /\ dataset' = dataset_buf'
       \/ UNCHANGED dataset
    /\ UNCHANGED <<owner, run, closures>>

(* tod() gets the dataset in the same buffer, and may find the caller's    *)
(* too short.                                                              *)
Tod ==
    /\ Called /\ dataset # None
    /\ dataset_buf' = dataset
    /\ UNCHANGED <<owner, run, closures, dataset>>

-----------------------------------------------------------------------------
(* The task: run(). It sets the state under both locks, then notifies.     *)
Tell(value) ==
    /\ started' = value
    /\ UNCHANGED <<asleep, pc>>

Notify == asleep' = FALSE

Begin ==
    /\ task = "begin" /\ cur = None
    /\ Tell(TRUE)
    /\ task' = "told"
    /\ UNCHANGED <<drv, mode, glue, exit, closures, tods, panicked>>

LaunchMainloop ==
    /\ task = "told" /\ Notify
    /\ task' = "loop"
    /\ UNCHANGED <<drv, mode, glue, started, exit, closures, pc, tods, panicked>>

MainloopEnds ==
    /\ task = "loop" /\ exit /\ cur = None
    /\ exit' = FALSE /\ task' = "tail"
    /\ UNCHANGED <<owner, started, closures, tods>>

End ==
    /\ task = "tail"
    /\ Tell(FALSE)
    /\ task' = "telling"
    /\ UNCHANGED <<drv, mode, glue, exit, closures, tods, panicked>>

Destroy ==
    /\ task = "telling" /\ Notify
    /\ task' = "none"
    /\ UNCHANGED <<drv, mode, glue, started, exit, closures, pc, tods, panicked>>

(* on_address(), on_packet(), on_active_scan_result(),                     *)
(* on_energy_scan_result(): the closure that is there is called.           *)
OnResult(slot) ==
    /\ task = "loop" /\ cur = None
    /\ reg[slot] /\ cb[slot]
    /\ cur' = slot
    /\ UNCHANGED <<owner, run, cb, reg, tods>>

(* The last result of a scan is null: the closure has been called with     *)
(* None and is freed.                                                      *)
Returns(last) ==
    /\ cur # None
    /\ last => cur \in Scans
    /\ IF last
       THEN cb' = [cb EXCEPT ![cur] = FALSE] /\ reg' = [reg EXCEPT ![cur] = FALSE]
       ELSE UNCHANGED <<cb, reg>>
    /\ cur' = None
    /\ UNCHANGED <<owner, run, tods>>

-----------------------------------------------------------------------------
Task ==
    \/ Begin \/ LaunchMainloop \/ MainloopEnds \/ End \/ Destroy
    \/ \E last \in BOOLEAN : Returns(last)

Next ==
    \/ \E m \in Modes : New(m)
    \/ WrapInEsp \/ Start \/ Stop \/ Check \/ Spurious \/ DropEsp \/ Drop \/ Deinit
    \/ \E slot \in Scans : Scan(slot)
    \/ \E given \in BOOLEAN : SetRxCallback(given)
    \/ \E tod \in Tods \union Oversized, hexstr \in BOOLEAN : SetTod(tod, hexstr)
    \/ Tod
    \/ \E slot \in Slots : OnResult(slot)
    \/ Task

Spec == Init /\ [][Next]_vars

(* The task runs and closures return; who is awake looks. The end of the   *)
(* main loop is reached between the closures, however many there are.      *)
Fairness == WF_vars(Task) /\ WF_vars(Check) /\ SF_vars(MainloopEnds)

-----------------------------------------------------------------------------
(* Properties *)

(* The values the variables take. *)
TypeOK ==
    /\ drv \in {"none", "plain", "esp"} /\ mode \in Modes
    /\ glue \in {"none", "attached", "leaked"}
    /\ {started, exit, asleep, panicked} \subseteq BOOLEAN
    /\ {cb, reg} \subseteq [Slots -> BOOLEAN] /\ cur \in Slots \union {None}
    /\ task \in {"none", "begin", "told", "loop", "tail", "telling"}
    /\ pc \in {"idle", "starting", "stopping", "drop", "dropping", "deinit"}
    /\ dataset_buf \in Tods \union {None, "torn"}
    /\ IsHost <=> PlatformConfig(mode).host = "none"

(* Until the task has said that it is stopped the driver is there, and the *)
(* closure that runs is one that is kept (thread.rs:1393; what run() does  *)
(* after is not covered: stop() may have returned by then).                *)
InnerAlive ==
    /\ task \in {"begin", "told", "loop", "tail"} => drv # "none"
    /\ cur # None => cb[cur] /\ task = "loop"

(* There is a scan exactly while there is its closure, so that the next    *)
(* one is neither refused for ever nor replaces it; packets are delivered  *)
(* to a closure that is there, and an EspThread has its glue.              *)
SlotsInUse ==
    /\ \A slot \in Slots : reg[slot] <=> cb[slot]
    /\ drv = "esp" => glue = "attached"

(* What OpenThread is given is a dataset as the application wrote it, not  *)
(* what one that would overflow the buffer has left in it.                 *)
NoOverflow == [][dataset' \in Tods \union {None}]_dataset

(* start(), stop() and drop() return. *)
CallsReturn == pc \in {"starting", "stopping", "dropping"} ~> pc \in {"idle", "deinit"}
=============================================================================
