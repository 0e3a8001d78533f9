# esp-idf-svc in TLA+

`esp-idf-svc` wraps the services of ESP-IDF (Wi-Fi, MQTT, HTTP, timers, NVS,
OTA, Bluetooth, ...) in safe Rust, in a blocking and an asynchronous form. The
crate itself computes little. What it does, and what can go wrong in it, is the
*borders*: closures and references that Rust code hands to tasks it does not
own, calls that wait for events of a task in C, statics that make a service a
singleton, several calls into C that ought to be one step, and destructors that
must undo all this while the other side is still running. That is what these
modules are about.

The project is a set of TLA+ modules, one for each component, TLC
configurations that check them on small instances, and theorems that TLAPS
proves for every value of the constants. `PROJECT.json` lists the components
and what of each is modelled, the runs, for every property a plausible mistake
in the code that breaks it, the lines of the source that each definition
stands for, the hazards, the findings and the theorems. Paths below are
relative to `src/src/`.

    tlc -config MCStorage.cfg MCStorage   # one run
    tlapm MCStorageProofs.tla             # the proofs of a module

## 1. Inventory

### Primitives (`private/`)

| Component | State | Operations | Hard about it |
|---|---|---|---|
| `zerocopy.rs`: `Channel`, `Receiver`, `QuitOnDrop` | one cell `Empty / Data(&mut T) / Quit` under a mutex, a condition variable, a notification | `share`, `set`, `get_shared`, `get_shared_async`, `done`, drops of all three | a reference to one thread's stack used by another; shutdown from either side; several producers; cancelled futures |
| `unblocker.rs`: `Unblocker` | a worker thread and a `Channel` of work items | `exec_in_out`, `work`, drop | an answer must be that of its question; the drop must stop the worker |
| `waitable.rs`, `mutex.rs` | a value, a mutex and a condition variable of pthreads | `wait_while`, `wait_timeout_while` | lost and spurious wake-ups, timeouts |

Correct means: a lent reference is used only while its owner waits for it,
nobody sleeps through the wake-up meant for him, whoever shuts down gets
through, an answer belongs to its question.

### Services

| Component | State here | Other side | Hard about it | Correct means |
|---|---|---|---|---|
| MQTT (`mqtt/client.rs`) | `Channel` of events, `given`, work item | task of the MQTT library | cancellation, drop of client or connection while the other waits | events once, in order, never dangling; commands once; drops return |
| Timers (`timer.rs`) | an ESP timer with a closure; queue and mutex of the embassy driver | timer task | an expiry that is under way when the timer is stopped; a clock that goes on | a notification is that of its own arming; sleepers wake; closures outlive the callback |
| Event loops (`eventloop.rs`) | registered handlers, `Arc`s of the loop, `Wait` and `AsyncWait` | task of the loop | handlers run under the loop's mutex, and an asynchronous one blocks in it; weak subscriptions | closures and events alive; unregistration ends; no event unnoticed by a wait |
| Wi-Fi (`wifi.rs`) | `status`, a mirror of the driver's state fed by events | driver task, event task | calls that change the driver first and the mirror later; events still in the queue | the mirror converges; a waiting call returns for the right reason |
| HTTP server (`http/server.rs`) | registrations, `OPEN_SESSIONS`, `CLOSE_HANDLERS`, headers of a response | task of the C server | sockets and addresses used again; work queued from other threads; strings that C reads later | frames reach their session; one response per request; handlers learn of the end |
| HTTP client (`http/client.rs`) | phase of the connection | network | failures at any call, redirects, reuse | requests complete and terminated once; headers not stale |
| WebSocket client (`ws/client.rs`) | a mailbox under a mutex | callbacks of the C client | one condition variable for both sides | every event once, in order; posters come back |
| NVS (`nvs.rs`) | two statics of taken partitions; a key under two item types | flash, other tasks | several NVS calls for one write; resets; `Arc`s shared by handles | reads give the last write; one owner of a partition |
| OTA (`ota.rs`) | `TAKEN`, the handle of the update | ESP-IDF, boot loader | errors after a handle has been given up; power loss | no leaked or doubly freed handle; the running image is not overwritten |
| Bluetooth, Bluedroid (`bt.rs`, `bt/`) | per profile a flag and a closure under a mutex | tasks of the stack | closures replaced while called; `new()` in steps, each of which may fail; a union that an event says how to read | one closure at a time, none after its end; drop undoes new; every event is told apart |
| GATT client and server (`bt/ble/gatt/`) | none; slices of the caller | cache and attributes of the stack | counts that come back in the place of capacities, offsets, lengths cut to 16 bits | what is reported is there; pages are the whole; values arrive whole |
| Ethernet (`eth.rs`) | a mirror as for Wi-Fi, a receive closure, a glue to the interface | driver task, event task | the receiver of frames is replaced while the driver runs | frames go to closures and interfaces that are alive |
| Network interfaces (`netif.rs`) | an interface built in several calls; a driver with handlers and closures | lwIP, event task | steps that fail, destructors against callbacks | what C calls exists; one source of the address |
| Partitions (`partition.rs`) | an iterator, mappings | ESP-IDF's table | an iterator that C frees at its end; sector ranges | each partition once; erased is what was asked for; freed once |
| TLS (`tls.rs`) | a session over an own or an adopted socket | peer | reads and writes that would block; one task reads while another writes | bytes once and in order; buffers alive in a handshake; one close |
| Thread (`thread.rs`) | closures, a dataset buffer, the state of a task | the task of the main loop, OpenThread | start, stop and drop against that task; calls from inside a closure | the driver outlives the main loop; slots of closures match scans; calls return |
| Thread SRP (`thread/srp.rs`) | slots of services, buffers OpenThread points to | OpenThread | removal at once or when the server has agreed | memory in use is not written, and comes back |
| SNTP (`sntp.rs`), ESP-NOW (`espnow.rs`) | `TAKEN`, closures in static slots | tasks of lwIP and Wi-Fi | the slot and the C service change one after the other | no call of a closure whose service is gone |
| Ping (`ping.rs`) | a tracker on the caller's stack | task of esp_ping | the caller returns as soon as it sees the end | the tracker is not used after that |
| NimBLE, mDNS, NAPT, logging, I/O, file systems, system time, helpers | see section 6 | | | |

How they interact: `Channel` is used by `Unblocker`, by MQTT events and by
asynchronous event loop subscriptions; `Unblocker` by the asynchronous MQTT
client; `Wait` and `AsyncWait` by Wi-Fi, Ethernet and netif; the driver mirrors
are subscriptions of the event loop. All else meets only in ESP-IDF.

## 2. The modules

A step of a module is what is atomic in the code: a critical section, a call
into C, or an access to an atomic. Where the code has a callback, the task that
runs it is an actor with its own steps. Mutexes are variables where something
can happen while they are held; where nothing can, the critical section is one
action. A module declares its bounds as CONSTANTS with the word *bound*; the
counters they bound exist only in the model.

Operators under "Variants with a bug" are not part of a specification: each is
an action as a plausible mistake would have it, and `PROJECT.json` says which
property it breaks in which run.

| Module | Models | State and actions |
|---|---|---|
| `Loan` | what a zero-copy rendezvous promises | `Lend`, `Use`, `LetGo`, `Reclaim` of a datum |
| `Channel` | `private/zerocopy.rs` | one action per critical section of `share`, `get_shared*`, `done` and the drops; `waiting` and `notified` are the two ways to sleep. Refines `Loan` |
| `MqttAsync` | `Unblocker` and `EspAsyncMqttClient` | an INSTANCE of `Channel` with the worker as producer; `execute()` with its two awaits, each a point of cancellation |
| `MqttConnection` | the event stream, blocking and asynchronous | an INSTANCE of `Channel` with the MQTT task as producer and `given` of the connection |
| `TimeDriver` | the embassy driver | `ScheduleWake`, the timer's callback, and `Expire`/`Start`, the two halves of `schedule_next_expiration`, with the clock going on in between |
| `AsyncTimer` | `EspTimer`, `EspAsyncTimer` | every arming has a number, so that a late notification shows |
| `EventWait` | `Wait`, `AsyncWait` | one waiting call, the event task's `Notify`, the clock |
| `Wifi` | `WifiDriver`, `BlockingWifi`, `AsyncWifi` | driver state, queue of events, mirror, the waiting call; scan and WPS |
| `WifiLink` | the closures of `WifiDriver`, the interfaces of `EspWifi` | what the C driver hands frames to, against a driver task inside one of them |
| `WifiConf` | `set_configuration`, `get_configuration`, scan results | conversions both ways as operators, the two steps of each call, any of which C refuses |
| `Eth` | `EthDriver`, `EspEth`, the blocking and asynchronous wrappers | mirror and waits as in `Wifi`; input path, closure, glue, interface |
| `Netif` | `EspNetif`, `EspNetifDriver` | an interface as its configuration builds it; handlers, transmit closure, inner, in the order of the drop |
| `EventLoop` | loops, subscriptions, asynchronous subscriptions | queue, dispatch under the loop's mutex, `Arc` counts, drops |
| `WsClient` | mailbox of the WebSocket client | posters, the reader, both asleep on one condition variable |
| `HttpServer` | start, stop, handlers, `CLOSE_HANDLERS` | several servers, addresses that are used again |
| `HttpWsSender` | `EspHttpWsDetachedSender` | threads, the work queue, sockets that are used again |
| `HttpConnection` | one request and its response | any sequence of calls by a handler; which strings the C server still points to |
| `HttpClient` | a client connection used again and again | phases, what has gone out on the wire, failures at every call |
| `KeyValue` | `EspKeyValueStorage` | one key as its two items; `set_raw` step by step; resets |
| `NvsPartition` | taking, sharing and dropping partitions | the two statics, `Arc`s of partitions and handles |
| `Ota` | `EspOta` and what it creates | ownership, handles of ESP-IDF, slots, reboots at any step |
| `BtCallback` | `BtSingleton`, followed in `bt/spp.rs` | flag, slot, its mutex, two tasks of the stack |
| `BtProfile` | the life of the other profiles (GATT client and server, GAP, BLE GAP, A2DP, AVRC, hands-free) | the steps of `new()` and of `drop()`, the events of the stack |
| `BtEvents` | `from()` of each profile | a table: event, member of the union, variant |
| `GattClient` | the queries of the cache | `Page` and `NextPage`, `Once`; the numbers as operators |
| `GattServer` | attributes, responses, indications | each call that puts a value into the stack or takes one from it |
| `Partition` | `partition.rs` | types and numbers both ways, the iterator, `NorFlash`, mappings and wear levelling |
| `Tls` | `EspTls`, `EspAsyncTls` | negotiation, a reader and a writer, each poll and wait a step; the peer |
| `Thread` | `ThreadDriver`, `EspThread` | start, stop, drop and their sleeps; the steps of `run()`; closures; datasets |
| `Srp` | `thread/srp.rs` | slots, buffers, removal, the callback |
| `Sntp` | the SNTP service | `TAKEN` held across `new` and drop, `SYNC_CB`, lwIP's task |
| `EspNow` | the ESP-NOW service | slots and registrations, changed one after the other |
| `Ping` | `run_ping` and its callbacks | the `Waitable` step by step, with spurious wake-ups |

`...Proofs` holds the theorems of the module it is named after, those of an
instance also the theorems of its parts (section 4).
The modules named `MC...` are instances that put several components under one
run; `Channel` and `EventLoop` are checked as they are.

| Instance | Parts |
|---|---|
| `MCMqtt` | `MqttAsync`; `MqttConnection` as the blocking and as the asynchronous connection |
| `MCDrivers` | `Wifi`, `WifiLink`, `Eth`, `BtProfile`; `EventWait` as `Wait` and as `AsyncWait` |
| `MCHttp` | `HttpServer`, `HttpWsSender`, `HttpConnection`, `HttpClient`, `WsClient`, `Tls` |
| `MCStorage` | `KeyValue`, `NvsPartition`, `Ota`, `Netif`, `WifiConf`, `Srp`, `Partition`, `GattClient`, `GattServer` |
| `MCServices` | `TimeDriver`, `AsyncTimer`, `BtCallback`, `Sntp`, `Ping`, `EspNow`, `Thread` |

The parts of an instance share no state in the code, so that any interleaving
of two of them is an interleaving of two behaviours that do not see each other,
and a property of one part cannot depend on the steps of another. An instance
therefore chooses in `Init` which `part` a behaviour is about; the variables of
the others stay as their `Init` left them. The state graph is the disjoint
union of the parts' graphs, and each part is checked as thoroughly as by itself.
A property of an instance is a promise that its parts have in common (a
destructor that returns, a closure that is not called after its end, one owner
at a time), stated for each part in the terms of its module.

Composition: `MqttAsync` and `MqttConnection` are `Channel` and the code around
it, every step of the channel being a step of the composed module.
`EventLoop` uses the rendezvous of an asynchronous subscription in the terms of
`Loan`, which `Channel` implements. How a wait polls, sleeps and is woken is
`EventWait`; `Wifi` and `Eth` keep of it that every event wakes a caller that
sleeps, and that a blocking one misses the event that comes between its look at
the mirror and its sleep, as `Wait` does. `BtProfile` takes the singleton as one
step; its mutex and its closure are the subject of `BtCallback`.

### What is assumed of the code outside the repository

* pthread condition variables may wake up spuriously; mutexes are not
  recursive and need not be fair.
* An ESP-IDF event loop runs its handlers under its mutex, one event after the
  other, and registering, unregistering and deleting take that mutex
  (`EventLoop`). It drops no event once it has accepted it.
* `esp_timer_stop()` does not wait for a callback that has begun; deleting a
  timer whose callback runs fails or waits (`AsyncTimer`).
* `esp_mqtt_client_destroy()` waits for the MQTT task, which ends after the
  callback it is in (`MqttConnection`).
* `httpd_stop()` runs the work that was queued before it and discards what
  comes after (`HttpWsSender`).
* An NVS call is atomic and durable, and items are kept by key *and* type
  (`KeyValue`).
* The boot loader starts the configured slot if its image is whole, otherwise
  another one (`Ota`).
* `sntp_stop()` does not wait for a callback that has begun (`Sntp`);
  `esp_now_unregister_*_cb()` and `esp_now_deinit()` do (`EspNow`; if they did
  not, `CallbackAvailable` would fail for a single thread too).
* Bluedroid answers the peers itself for an attribute with `ByGatt`, and keeps
  what they write if it has room (`GattServer`).
* The task of an esp_ping session calls nothing after `on_ping_end` (`Ping`).
* `esp_wifi_stop()` and `esp_eth_stop()`, if they do not fail, return after the
  frame that is being handed over; a stopped driver hands over nothing
  (`WifiLink`, `Eth`).
* An event loop keeps one registration of a handler function per event, so that
  a second one takes its place; destroying an interface waits for a
  transmission (`Netif`).
* `esp_partition_next()` frees the iterator at the end of the table
  (`Partition`).
* mbedTLS sends what it has encrypted before anything else, and expects the
  same data again after it has said that it would block (`Tls`).
* The main loop of OpenThread ends if and only if it was told to, also when it
  was told before it began (`Thread`); its SRP client copies nothing, and does
  not read again what it has reported as removed (`Srp`).
* The stack puts the number of elements it has found in the place of the number
  it had room for (`GattClient`): the subtraction `count - offset` relies on it.
* The functions the Bluetooth stack does not let one unregister (A2DP, AVRC,
  hands-free, GAP) stay registered, and find no closure (`BtProfile`).

## 3. The runs

All runs stop within three minutes or so. Deadlock checking is off because every bounded
system really stops: all events posted, all threads done, or the one call that
is followed has returned. That nobody is stuck before is what the liveness
properties say.

### Passing

| Run | Properties | What they ask |
|---|---|---|
| `channel` | `LentWhileUsed`, `NoLostWakeup`, `ImplementsLoan`, `CallsReturn` | is a reference used only while it is lent, is every wake-up delivered, does the channel implement `Loan`, do `share()` and a waiting receiver come back? |
| `mqtt` | `WorkItemIsShared`, `OwnResult`, `BorrowedEventIsAlive`, `EachEventOnce`, `CallsReturn` | do worker and client take turns on the work item, is a result that of its command, are events alive, returned once and in order, do `execute()` and all drops return? |
| `event_loop` | `ClosureAlive`, `RecvIsSound`, `CallsReturn`, `EventArrives` | are closures and events alive while they are used, in whatever order subscriptions and loops are dropped; does every drop end although handlers block; does a posted event arrive? |
| `drivers` | `MirrorCatchesUp`, `ReceiverIsAlive`, `NoLostEvent`, `AnswerIsHonest`, `CallsReturn` | do the mirrors of Wi-Fi and Ethernet converge; do frames go to closures and interfaces that are alive, if the driver stops when it is told to, and does a Bluetooth profile take back what it registered; does a wait or a closure miss an event, or return what its matcher did not say; do calls that wait come back, unless a blocking one sleeps through its event? |
| `http` | `HandlersAreTold`, `FramesReachTheirSession`, `ExchangeIsComplete`, `EachOnceInOrder`, `CallsReturn` | are handlers told of the end of their sessions, does a frame reach its session or none, is there one response whatever a handler does, is a request whole on the wire before its response is awaited, has the handshake of a TLS client the buffers it reads; are WebSocket events and TLS data passed once and in order? |
| `storage` | `ReadsTheLastWrite`, `HandlesMatch`, `OneOwner`, `RunningIntact` | is what is read what was written (keys, Wi-Fi configurations and scans, partitions, GATT caches and attributes), are handles, partitions, interfaces, iterators and the memory of SRP services used while they exist and released exactly once, is there one owner, is the running image never overwritten? |
| `services` | `NoLostAlarm`, `ArmedInTime`, `OwnExpiry`, `ClosureOfLiving`, `OneInstance`, `CallsReturn` | is the timer set while anybody sleeps, for a time that has not wrapped around and is late by no more than the task was kept from running, does an expiry belong to its arming, is a closure called only while its service lives and only by one task, does Thread's driver outlive its main loop and use no torn dataset, do calls and drops return? |

Every run checks `TypeOK` as well.

| Run | Instance | Why it is enough |
|---|---|---|
| `channel` | three producers, one behind a `QuitOnDrop`; the receiver blocks, awaits, cancels or is dropped | two that contend and one that shuts down |
| `mqtt` | three calls; four events | a call can be cancelled between two others; one event returned, one given, one waiting, one to come |
| `event_loop` | two owners, one plain and one asynchronous subscription, both may be weak; a queue of one, two posts | a handler that runs, one that waits for it, an event behind |
| `drivers` | station, alone and with an access point, three events in flight of Wi-Fi and of Ethernet, of WPS one end that counts and one that does not; two closures and two interfaces; every profile and every event of it; one timed wait of three ticks with every answer of the matcher | an event of a call before, one of this call and one that is neither; a receiver that is replaced by the other |
| `http` | a server started over and over, two addresses, sockets and handlers; two threads and three sessions on two sockets; two headers, two `initiate_response`; four WebSocket events, one malformed and one without data, two posters; two data each way, one flight of a handshake, as client and as server, one protocol that fits its buffer and one that does not | sockets and addresses are used again by somebody else; a datum that was encrypted and one that was not |
| `storage` | byte strings of 0, 1, 7, 8 and 9 bytes; two tasks, two names, one of them that of the default partition; two threads, two updates between boots; two interfaces, as clients, with a fixed address or as routers; strings that fill their arrays and do not, scans of none, one and three with room for two; three slots, three services and two hosts of which one each is too long; a table of six with a type twice and one unknown, pages of two bytes; databases of none, three and ten elements, slices of 0, 1, 2 and 12; `U16 = 4`, `MaxResponse = 3`, `MaxAttrLen = 2` in the proportion of 2^16, 600 and the length of the array, with lengths on each side | the lengths around each change of behaviour; one that takes while another drops |
| `services` | two wakers, a clock of nine values with a "day" of two, run to its age of four, beyond the margin; four armings; two profiles' owners, two tasks, two closures each; three SNTP owners; three ping requests; one ESP-NOW thread, both kinds, three lives; Thread as host or RCP, both scans, two datasets and one that is too long | a closure of the service before, one of this, one that replaces it |

For every property `PROJECT.json` names mistakes in the code, in several of the
parts it speaks of, that the same instance detects.

### Findings

Each of these runs checks one statement of a comment of the repository, and TLC
shows a behaviour of the code against it.

| Run | Property | What happens |
|---|---|---|
| `channel_result` | `TrueMeansProcessed` | `share()` returns `true` for a datum that was dropped unprocessed |
| `mqtt_twice` | `AtMostOnce` | dropping the client runs the last command again |
| `wait_lost` | `ReevaluatedOnEvent` | `notify_all()` without the mutex is lost between the matcher and the sleep |
| `time_uptime` | `NoOverflow` | after a day of uptime the driver arms the timer with an overflowing timeout if nobody sleeps; `ArmedInTime` says what holds of an alarm that somebody waits for |
| `ota_abort` | `AbortedHandleIsValid` | a failed `finish()` aborts a handle that is gone |

The following statements fail in the same way; they have a definition in their
module but no run here. The constants are those that show it. The passing runs
keep to what does hold, as the last column says.

| Definition | With | What happens | In the passing run |
|---|---|---|---|
| `Channel!BlocksUntilProcessed` (zerocopy.rs:151) | two producers | others can keep a finished `share()` asleep for ever | `ShareReturns` excludes endless overtaking |
| `MqttConnection!NoEventLost` (example mqtt_client_async.rs:95) | `Async = TRUE` | a cancelled `next()` makes the following one skip an event | asked of the blocking connection; of the asynchronous one, that none comes twice |
| `MqttConnection!ConnectionLearns` (mqtt_client_async.rs:102) | `Async = TRUE` | an asynchronous `next()` never learns that the client is gone | asked of the blocking connection |
| `EventWait!TimeoutIsTrue` (eventloop.rs:973) | `Async`, `Timed` both TRUE | an event between the two polls of one `select()`: a timeout is reported for what has happened | `HonestStep` speaks of the moment of the first poll |
| `EventWait!OkMeansDone` (wifi.rs:2993) | `Async`, `Timed` both TRUE | a timed `AsyncWait` returns `Ok` for an error of the matcher | `Justified` is asked of `Wait`, honest polls of `AsyncWait` |
| `Wifi!BlockingCallsReturn` (wifi.rs:2741), `Eth!BlockingCallsReturn` (eth.rs:1520) | those of `MCDrivers` | a blocking caller sleeps through the event it waits for, and no other comes | `CallsReturn` leaves this one out |
| `WifiLink!Alive` (wifi.rs:1053), `Eth!Alive` (eth.rs:1075) | those of `MCDrivers` | the error of the stop is ignored, and a running driver's closure or interface is replaced | `ReceiverIsAlive` speaks of a driver that stopped |
| `Wifi!ConnectMeansConnected` (wifi.rs:2755) | one mode, `MaxQueue = 4` | `connect()` returns on the status of the connection before | not asked |
| `Wifi!ScanEndIsNoticed`, `Wifi!WpsEndIsNoticed` (wifi.rs:3012, 2807) | one mode, `MaxQueue = 4` | the end comes before the status is reset, and is lost | `CallsReturn` speaks of start, stop and disconnect |
| `Wifi!ScanMeansScanned` (wifi.rs:3012) | one mode, `MaxQueue = 4` | the end of an abandoned scan is taken for that of the next | not asked |
| `HttpServer!CloseFnFindsServer` (server.rs:706) | one server | a session is closed before the server is in `CLOSE_HANDLERS`: `unwrap` panics | what comes after the panic is not looked at |
| `HttpServer!WsHandlerFindsServer` (server.rs:1653) | two servers, two addresses | `stop()` removes the entry of another server at the address | one server |
| `HttpConnection!InitiatedMeansSent` (server.rs:1084) | two headers, two calls | "initiated" is not "sent" | not asked |
| `HttpClient!RequestIsComplete` (client.rs:288) | `Policies = {"FollowAll"}` | a redirected POST is sent as a chunked GET without an end | the other two policies |
| `KeyValue!WrittenIsRead` (nvs.rs:459, 1004) | one writer, values of 1 and 8 bytes | the error of an erase is ignored, and the older item hides the new value | `ReadsTheLastWrite` and `OneItem` hold until then (`stale`) |
| `NvsPartition!EveryHandleStaysValid` (nvs.rs:138) | a name is that of the default partition | the drop of the custom partition closes the handles on the default one | `HandlesStayValid` makes an exception of these (`shared`) |
| `Netif!ClosureIsRemoved` (netif.rs:1134) | a lent interface | the interface lives on when its driver is dropped, and transmits through what is freed: `stop()` always fails | `CalledWhileAlive` makes an exception of it |
| `KeyValue!RemovedIsGone` (nvs.rs:914) | two writers, values of 1 and 8 bytes | two writers leave two items, `remove()` removes one | one writer |
| `Sntp!ClosureOfLiving` (sntp.rs:221) | `Failing = WithCallback = {c}`, one plain owner | a failed `new_with_callback()` leaves its closure to be called | only the owner without closure fails |
| `EspNow!CallbackAvailable` (espnow.rs:266) | two threads | unregistering while another thread registers leaves a callback that panics | one thread |

Other things the code does that a reader may not expect, met while modelling.
The models either show them, or keep away from them where the last words of an
entry say so.

Waits and services:

* A weak subscription whose `upgrade()` fails takes its handler for gone, while
  the thread with the last `Arc` may still wait for it in
  `esp_event_loop_delete()`; the closure is freed under it (eventloop.rs:376).
  `ClosureAlive` leaves weak subscriptions out.
* `wait_timeout()` adds nanoseconds without a carry into the seconds
  (mutex.rs:70); what the C library makes of it is its own. Not modelled.
* `EspAsyncTimer`'s `delay_ns` passes nanoseconds to a function of
  microseconds (timer.rs:169): a delay is too long, never too short. Not
  modelled.
* An event without data makes `next()` of the WebSocket client return `None`,
  and stays in the mailbox: who posts next waits for ever, and the drop of the
  client with it (ws/client.rs:385). `CallsReturn` speaks of the time before.
* `post()` of the WebSocket client returns before the reader has read what it
  points to (ws/client.rs:402): how long that is good is not modelled.

Wi-Fi, Ethernet, interfaces:

* `set_configuration()` writes the mode first; when the configuration of one
  device is refused, the mode and the other device's have changed (wifi.rs:790;
  `WifiConf` has this step, and its property speaks of what was accepted).
* PMF, protocols and the secondary channel are not written by
  `set_configuration()`, but PMF is read back; a channel `Some(0)` reads back as
  `None`. `get_configuration()` unwraps, and panics for
  an authentication mode the crate does not know.
* `start_wps()` leaves the mode changed when it fails, and a PIN event counts as
  the end of WPS. `WifiDriver::new()` that fails to subscribe leaves
  `esp_wifi_init()` done. `handle_tx()` reads a length through a cast pointer.
* An `EspWifi` whose interfaces were detached half-way panics in its drop;
  `set_rx_callback()` of Ethernet stops a started driver and leaves it stopped;
  `init()` of Ethernet loses the driver it has installed when its last step
  fails.
* A failed `new_nonstatic()` of a PPP driver leaves its handlers registered with
  a pointer to what is freed (netif.rs:1158), and two drivers at a time share
  one registration, so that the first hears nothing more (netif.rs:1262).
  `broken` and `handlers` show both; the property leaves drivers that failed
  out.

Flash and TLS:

* The subtype 16 + 16 is named an OTA slot by the crate, and is the test
  application to C. `set_tod_hexstr()` ignores the last digit of an odd number.
* A write that would block and is not tried again with the same data has its
  data sent in the place of the next one's (tls.rs:1070): a cancelled
  asynchronous `write()`, or a blocking `write_all()` on a socket that does not
  block. Excluded: the writer of `Tls` comes back.
* `negotiate()` drops the buffers a server's protocols are in before the
  handshake, which C reads them in (tls.rs:726): `BufsAreHeld` speaks of a
  client.
* 0 of the handshake is taken for "wait until it is writable", which it mostly
  is: the task spins while the peer thinks. `EspTls::adopt()` loses the C
  structure when it fails.

Thread:

* After `run()` has announced its end it still uses the driver's memory, which
  the `stop()` of a drop may have freed by then (thread.rs:1393-1396); the model
  ends with the announcement. `EspThread::stop()` starts the driver.
* A glue is not deinitialised when the attachment after it fails, and the next
  `EspThread` panics (thread.rs:1891): `leaked` and `panicked`.
* `set_rx_callback()` from inside the receive closure frees the closure that
  calls (thread.rs:586): excluded.
* `srp_remove_service()` compares a slot with `>` the number of slots, so that
  one past the end panics (srp.rs:670): `panicked` of `Srp`. A configuration that was
  refused stays taken (srp.rs:492).

Bluetooth:

* A status or mode the crate has no name for panics in the task of the stack
  (`try_into().unwrap()`): `Panic`. `GATTS_UNREG` and `LISTEN`, and one event
  of GAP, read a member of the union that the event has not filled in:
  `Misread` of `BtEvents`.
* An event without a parameter is dropped by AVRC and hands-free, and panics in
  the others: `DeliverNull`.
* A `new()` that fails half-way leaves the singleton taken: `spoiled`.
* `get_service()` with a UUID tells C of room for one element also if the slice
  is empty, and counts several services while one is written: `ServiceByUuid`.
* `value()` of a GATT response accepts 600 bytes, whatever
  `ESP_GATT_MAX_ATTR_LEN` is, and panics in between: `ResponseValue`. Lengths
  beyond 16 bits are cut: `Cut`.
* Connection intervals, advertised data, names that are not UTF-8 and notified
  AVRC capabilities are converted with mistakes of their own, which no state
  depends on. Not modelled.

### Fairness

Weak fairness is assumed of a thread that can go on: FreeRTOS runs it in the
end, as long as no task of a higher priority keeps the processor, which none of
the code here does by itself. Strong fairness is assumed where a thread waits
for a mutex or a condition that others take and give back again and again, one
action at a time, and each module says so. Nothing is assumed of what users
decide (a call, a cancellation, a drop), of failures, of spurious wake-ups or
of the network, with one kind of exception: a rendezvous needs someone at the
other end. `Channel` lets the receiver's owner come back for the next
datum or drop the receiver (`Serve`), and give back what it uses (`Finish`);
`WsClient` and `MqttConnection` let the connection's owner call `next()`; `Tls`
lets the peer send and read. The task of `Thread` is fair, and reaches the end of
its main loop between closures, however many there are.

Liveness that holds only under restrictions says so: `share()` returns unless
other producers overtake for ever (`ShareReturns`); a call of a `BlockingWifi`
or `BlockingEth` returns unless it sleeps through the event it waits for;
`send()` of a
detached sender returns while the server is not stopped, and may sleep for ever
otherwise; `next()` of a WebSocket connection never ends once the client is
gone, and nobody goes on after an event without data; a blocking timed `Wait` starts its timeout anew at every notification, so
that no bound on its duration is claimed.

## 4. The proofs

Eight modules hold theorems. The runs check the properties on small instances;
the theorems are for every value of the constants. Each invariant and each
action property of the passing runs is the subject of one.

| Module | Theorem | Says |
|---|---|---|
| `ChannelProofs` | `TypeCorrect` | the type invariant of `Channel` |
| | `LoanSafety` | a reference is used only while its owner is inside `share()` |
| | `WakeupSafety` | no thread sleeps through its wake-up |
| | `LastDropSafety` | dropping the last `Arc` never blocks |
| | `ReturnSafety` | `share()` returns `true` only after `done()` or the receiver's drop |
| | `Refinement` | `Channel` implements `Loan` |
| `MqttConnectionProofs` | `LoanSafety` | what `next()` returned is of a callback that has not returned, of a client that exists |
| | `OrderSafety`, `LossSafety` | no event twice or out of order; none left out by the blocking connection |
| `EventLoopProofs` | `ClosureSafety` | the closure of a handler the loop calls exists |
| | `RecvSafety` | an event that `recv()` returned is alive, and comes in the order of posting, none left out |
| `MCMqttProofs` | `WorkSharingSafety`, `SharingSafety` | worker and client are never in the work item together, `unwrap()` finds the channel open, no command runs twice while the client exists |
| | `WorkResultSafety`, `ResultSafety` | `execute()` returns the result of its own command |
| | `LoanSafety`, `OrderSafety` | those of `MqttConnectionProofs`, for both connections of the instance |
| `MCDriversProofs` | `MirrorSafety` | the status of Wi-Fi and Ethernet is the driver's state once the events on their way are dispatched |
| | `ReceiverSafety` | frames go to closures and interfaces that exist, of a driver that stops when told to; what the drop of a Bluetooth profile takes back is gone afterwards |
| | `EventSafety` | an asynchronous wait misses no event, and every event of a profile is told as the variant it is |
| | `AnswerSafety` | a wait returns what its matcher has said, and an asynchronous one looks honestly before it gives up or sleeps |
| `MCHttpProofs` | `HandlerSafety` | who has seen a session is told of its end, and a server that is down leaves no handlers |
| | `FrameSafety` | the frame of a detached sender goes to its session or fails |
| | `ResponseSafety`, `ExchangeSafety` | one response with strings that are alive; a client's requests are ended; the handshake of a TLS client has its buffers |
| | `OrderSafety` | WebSocket events and TLS data once and in order, nobody oversleeps |
| `MCStorageProofs` | `NvsHandleSafety`, `NvsOwnerSafety` | NVS is not taken down under an `EspNvs`, but for the default partition taken by its name; a name has one owner, is locked exactly while its partition exists, drops do not panic |
| | `OtaHandleSafety`, `OtaExclusion`, `OtaImageSafety` | ESP-IDF holds exactly the handles of the updates that are alive; one `EspOta`; the running image is never written over |
| | `StoreSafety` | `get_raw()` returns what `set_raw()` wrote last, until an erase has failed unnoticed |
| | `OwnerSafety`, `ImageSafety`, `HandleSafety` | the properties of the run with these names, in all parts of the instance |
| | `ReadSafety`, `WriteSafety` | what is read is what was written: configurations, scans, partitions, GATT caches and values; NVS too |
| `MCServicesProofs` | `AlarmSafety`, `OverflowSafety` | an alarm is set while anybody sleeps; it does not wrap around and is late by no more than its setter was, whatever the clock, for sleepers up to a day before the end of the epoch; no torn dataset |
| | `ExpirySafety` | `after()` completes on the expiry of its own arming |
| | `CalleeSafety`, `ClosureSafety` | no task uses a closure whose service is gone |
| | `SingletonSafety`, `InstanceSafety` | one instance of a service, with the closure it was given last |
| | `SummarySafety` | `ping()` returns the counts of the whole session |

Every module also proves the type invariant of its run or component
(`TypeCorrect`), and as `Invariance`, for a part of an instance as
`...Invariance`, the inductive invariant its theorems rest on.

### Assumptions

The modules state what they require of their constants: there is a producer and
the receiver is none of them (`ThreadsAssumption`), the two tasks are two
(`ConnectionAssumption`), a table is a sequence of entries (`PartitionAssumption`), a
database is one of elements (`GattClientAssumption`), and so on. An instance
assumes what its parts do (`Assumptions`). TLC evaluates each. What the cfg of
`MCStorage` assigns to `Strings`, `Confs`, `Clients`, `Points`, `Sights`,
`Table`, `Filters` and `Contents` are examples; the theorems are about any values
of the types, databases and tables of any length, and strings of any bytes.

Some theorems have a hypothesis, because without it the property is false: each
leaves out what section 3 lists as a finding or an exception. Where a property
has several conjuncts, another theorem states those that need no hypothesis.

| Theorem | Hypothesis | Leaves out | Without it |
|---|---|---|---|
| `ExchangeSafety` | `"FollowAll" \notin Policies` | the redirected POST without an end | `ResponseSafety` |
| `ClosureSafety` | `Failing \intersect WithCallback = {}` | an SNTP service with a closure that fails to start | `CalleeSafety` |
| `InstanceSafety` | one thread uses ESP-NOW | the callback that panics | `SingletonSafety` |
| `LossSafety` | `~ Async` | the event a cancelled `next()` makes the following one skip | `OrderSafety` |
| `WriteSafety`, `StoreSafety` | one task writes the key | two items after two writers | `ReadSafety` |

`EachPartitionOnce` itself leaves out iterators over `Ota(16)` and more, whose
numbers are not those of slots (section 3).

### The inductive invariants

Hardly a property is inductive by itself. What makes them so:

* `Channel`. A reference is used only while it is lent *because* the state is
  `Data` with just this reference, and that holds until `done()` *because* the
  lender is in the second loop of `set()` and nobody else may leave `Data`
  (`LenderWaits`, `HandExplained`, `UserIsUsing`). Who can be asleep on what, and
  where each thread can be at all (`Sleepers`, `ThreadPoints`), is what the
  wake-ups need.
* `MqttAsync` (in `MCMqttProofs`, its operators begin with `Work`). The two
  sides are apart because of where each is in the channel and in its own code.
  That a result belongs to its command needs to know whether the command has
  been run: it is pending from `done()` to the end of the worker's `match`, and
  has run exactly once otherwise, also if the future that submitted it is gone.
* `MqttConnection`. The number of the event in the callback and that of the last
  one returned are equal or one apart, and which of the two is known from where
  the callback is and whether its event was given back (`Unseen`, `AllSeen`).
* `EventLoop`. An owner of a registered handler that is not weak has not yet
  unregistered it (`RegisteredAt`), and a loop that is deleted had no references
  (`LastReference`): so closures are alive. Events are alive since a handler
  holds the loop's mutex (`UnderMutex`, `Lending`). The order rests on
  `Delivered`: whatever was dispatched since a receiver subscribed has arrived,
  or the loop still has it `InHand`; that only the latest event can be in hand
  makes it the next one.
* `Wifi`, `Eth`. `MirrorCatchesUp` speaks of an empty queue. For any queue: the
  latest event in it of a kind tells the driver's state, or there is none and the
  status does (`WifiShows`, `EthMirror`). `Latest` is a set of one element or
  none, and the lemmas about it say what posting and dispatching do to it, so
  that no induction over the queue is needed.
* `WifiLink`, `Eth`. The application changes what the driver hands frames to only
  while it hands over none (`LinkQuiet`, `EthQuiet`); what is registered is what
  the statics or the interface hold (`LinkRegistered`, `EthPath`).
* `BtProfile`. What is open is what the steps of `new()` open, less those the
  steps of `drop()` so far have taken back (`BtSteps`); the lemmas compare the
  two lists of each profile. `BtEvents`: a row is known by its variant, and by
  its member of the union where that is not shared (`BtTells`).
* `EventWait`. Who is on the way to sleep was told to wait by the matcher, and
  what has changed since is told by the handler, or is about to be
  (`BlockingIInv`, `AwaitingIInv`).
* `HttpServer`. A server that is up has its address for itself and either no
  entry in `CLOSE_HANDLERS` or one with all its handlers (`HttpdOwned`,
  `HttpdRegistered`), and who is owed a call is in the entry (`HttpdOwed`).
* `HttpWsSender`. The flag of a sender tells whether the socket still has the
  session of the sender (`SenderEntries`, `SenderKnows`), because flags are never used
  again: `SenderCount` counts the sessions that may still get one.
* `HttpConnection`, `HttpClient`. How far the response is says how often it was
  sent, and until the first send the strings C holds are kept
  (`RequestSentOnce`, `RequestAlive`); the response is awaited only in the state
  of a request that was ended (`ClientAwaits`, `ClientEnded`).
* `WsClient`, `Tls`. What is in the mailbox follows what was received
  (`WsIInv`). What is on the wire, in the buffer and still to be written are
  consecutive numbers, and so are what the peer has sent and the reader got
  (`TlsData`); who drops a session has it for itself (`TlsDropped`).
* `NvsPartition`. Whatever exists, in use or about to be deinitialised, has its
  name for itself and is registered under it; this is why a drop that has let go
  of its last `Arc` cannot take NVS down under a new partition of the name.
* `Ota`. One thread is past `TAKEN` (`OtaAlone`), and whoever has an update
  under way writes to another slot than the one that runs (`OtaElsewhere`): what
  is activated can change under it, what runs only in a reset, which ends every
  update.
* `KeyValue`. Each item is what `set_raw()` makes of some string (`StoreItems`),
  and a writer that is alone has removed both before it writes (`StoreAlone`).
  `DecodeEncode` proves that `get_raw()` undoes the encoding of any string of
  up to seven bytes.
* `Netif`. An interface whose driver is about to be freed is not registered, and
  the handler that runs is not its own (`NetExists`, `NetCalled`).
* `WifiConf`. What was accepted is what the driver's configuration converts back
  to, with the fields the code does not write as they were (`ConfKept`).
  Conversions both ways are compared case by case.
* `Srp`. A buffer is written only while its place is free, which it is not while
  OpenThread has it.
* `Partition`. What an iterator has given is what matches before the place it is
  at, in the order of the table (`FlashGiven`).
* `GattClient`. What has been collected is what was found up to the place of the
  next page, unless the cache has changed (`ClientPages`); so the last page ends
  the whole. Counts are those of sets of places.
* `GattServer`. What the stack has of a value is the value, or its first part
  when its length was cut to sixteen bits (`CutKeeps`, `ServerIInv`).
* `AsyncTimer`, `TimeDriver`. Nothing expires from `stop` to the next arming, so
  that what is notified later is of it (`TimerIInv`); the timeout that is about to
  be set is safe, and with the clock it was computed from not beyond the time of
  any sleeper (`DriverIInv`).
* The singletons. The closure in the slot is that of the one owner, and who is
  inside a closure holds the mutex (`BtOwned`, `BtLiving`); SNTP's `TAKEN` tells
  of the one service (`TimeIInv`); a thread in a call of ESP-NOW uses one that
  exists, and who drops it is alone (`NowIInv`). A session of `Ping` calls back
  only while its caller waits (`EchoIInv`). The state of the driver of `Thread`
  tells where its task is (`OtIInv`).

Operators on sets of places, where the code counts and iterates, rest on two
lemmas: a set of natural numbers that is not empty has a least element
(`Smallest`, which a first match or a first free slot needs), and the places of a
finite set can be counted up to every number there is (`Enumerated`, which the
element at a position of a result needs).

A behaviour of an instance is, seen from one of its parts, a behaviour of that
part, and from the others a stutter (`SameSpecs`, `Steps`, `Components`); so
the theorems of the parts carry over.

### Only model-checked

* `CallsReturn` and `EventArrives`, liveness under fairness, about which the
  prover does not reason, nor about ENABLED.
* The findings of section 3: TLC shows a behaviour for each.
* That each action can happen, and each mistake of `PROJECT.json` is noticed.

## 5. What the models leave out

* Data: payloads, names, addresses and configurations are numbers or model
  values, except where a conversion is the point (`KeyValue` encodes and decodes
  bytes, `TimeDriver` wraps).
* `HttpConnection.HeadersAlive` does not speak of a response whose
  `initiate_response()` has failed halfway: a handler that goes on after it is
  in a hazard of its own. `HttpClient` does not bound the loop of
  `raw_write_all` when nothing is written, nor the second terminator when a
  failed flush is tried again.
* `KeyValue` has one key. A reset in the middle of `set_raw` may lose the key's
  old and new value; the source says so in a TODO, and the property allows it.
* `Ota` does not read partitions (slot and firmware information).
* `Netif` and `WifiConf` know of strings only their lengths or whether they are
  there; `BtEvents` of an event only which member of the union is read.
* `Tls` numbers data in the order of the application; of certificates there is
  whether C's pointers to them are valid.
* `Thread` leaves out packets, pins and radio configurations; `Srp` of a service
  whether it fits its buffer.
* `Eth` leaves out the chips' registers; `Wifi` the mode changes of a started
  driver, MAC addresses and promiscuous mode.
* The ISR variants of the timer service; its notifications come from interrupt
  context, where no mutex may be taken.
* Priorities and cores: any interleaving is possible.

## 6. Not modelled

* NimBLE (`ble.rs`, `ble/`): the other Bluetooth host. Its host task, sync and
  reset callbacks and the registration of services would make a module like
  `BtProfile`; of what goes wrong there most is how memory is laid out for C.
* mDNS (`mdns.rs`): a flag, and calls into C that keep their state there.
* NAPT (`napt.rs`), file systems (`fs/`): single calls into C.
* Logging, I/O adapters, handles, system time, private helpers: formatting,
  conversions and traits, with no state that two actors share.
* Within the components: single calls that are only passed on (peers and keys of
  ESP-NOW, servers of SNTP, requests of the Bluetooth profiles, addresses of
  interfaces, the advertised data), the configurations of HTTP, MQTT and
  WebSocket clients, the typed getters and setters of NVS and its key iterator,
  `spin()` of explicit event loops, and posting from an interrupt.

## 7. What would come next

1. Abstract specifications: a *singleton service* (taken, closure, released)
   for `BtCallback`, `Sntp`, `EspNow` and `BtProfile`, and a *once-only mailbox*
   for `WsClient` and `MqttConnection`, as `Loan` is for `Channel`. Their safety
   is proved part by part; a refinement would say it once.
2. `Nimble`, and the configurations of HTTP, MQTT and WebSocket clients: what is
   rejected, truncated and handed to C.
