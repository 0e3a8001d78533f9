---------------------------- MODULE MqttConnection ----------------------------
(***************************************************************************)
(* The event stream of src/src/mqtt/client.rs: the task of the MQTT        *)
(* library runs a callback for each event, which lends the event through a *)
(* Channel to an EspMqttConnection (blocking, the Arc in a QuitOnDrop) or  *)
(* to an EspAsyncMqttConnection (asynchronous, a bare Arc).                *)
(*                                                                         *)
(* The library's task is external: it calls the callback for one event at  *)
(* a time and, when esp_mqtt_client_destroy() asks it to stop, stops after *)
(* the callback it is in.                                                  *)
(***************************************************************************)
EXTENDS Naturals

CONSTANTS
    Task,       \* the MQTT task of the C library
    Conn,       \* the task that owns the connection
    None,
    Async,      \* EspAsyncMqttConnection rather than EspMqttConnection
    MaxEvents   \* bound: the number of events

(* What the constants are required to be. *)
ConnectionAssumption ==
    Async \in BOOLEAN /\ MaxEvents \in Nat /\ Task \notin {Conn, None}

VARIABLES
    state, lent, notified, waiting, pc, using, handled,  \* the channel
    client,     \* the EspMqttClient: "up", "stopping", "stopped"
    sent,       \* number of the last event the task entered the callback for
    given,      \* EspMqttConnection::given
    conn,       \* where the connection is in next()
    seen        \* history: number of the last event next() returned

Ch == INSTANCE Channel WITH
    Producers <- {Task}, Receiver <- Conn,
    Guards <- IF Async THEN {} ELSE {Task}

chVars == <<state, lent, notified, waiting, pc, using, handled>>
vars == <<chVars, client, sent, given, conn, seen>>

(* EspMqttClient::new, EspAsyncMqttClient::new. *)
Fresh ==
    /\ client = "up"
    /\ sent = 0
    /\ given = FALSE
    /\ conn = "idle"
    /\ seen = 0

Init == Ch!Init /\ Fresh

-----------------------------------------------------------------------------
(* Variants with a bug. *)

(* next() gives back whatever there is, whether it was given or not. *)
NextAlwaysDone ==
    /\ conn = "idle"
    /\ Ch!Done
    /\ conn' = "fetch"
    /\ UNCHANGED <<client, sent, given, seen>>

(* next() returns the event, but forgets that it did. *)
NextReturnsForgets ==
    /\ conn = "wait"
    /\ Ch!Got
    /\ given' = FALSE
    /\ seen' = sent
    /\ conn' = "idle"
    /\ UNCHANGED <<client, sent>>

(* The callback goes on to the next event without waiting in share(). *)
CallbackEndsEarly ==
    /\ pc[Task] = "hand"
    /\ pc' = [pc EXCEPT ![Task] = "idle"]
    /\ UNCHANGED <<state, lent, notified, waiting, using, handled>>
    /\ UNCHANGED <<client, sent, given, conn, seen>>

-----------------------------------------------------------------------------
(* The MQTT task and the client's drop. *)

(* The task enters the callback with the next event: channel.share(event). *)
Event ==
    /\ client = "up"
    /\ sent < MaxEvents
    /\ Ch!Share(Task)
    /\ sent' = sent + 1
    /\ UNCHANGED <<client, given, conn, seen>>

(* Inside share(), up to its return; its result is ignored. *)
CallbackWaits ==
    /\ Ch!Offer(Task) \/ Ch!Sleep(Task)
    /\ UNCHANGED <<client, sent, given, conn, seen>>

CallbackEnds ==
    /\ Ch!Return(Task) \/ Ch!Refused(Task)
    /\ UNCHANGED <<client, sent, given, conn, seen>>

(* EspMqttClient::drop: esp_mqtt_client_destroy() asks the task to stop ... *)
DropClient ==
    /\ client = "up"
    /\ client' = "stopping"
    /\ UNCHANGED <<chVars, sent, given, conn, seen>>

(* ... and waits for it: the task stops between two callbacks ... *)
TaskStops ==
    /\ client = "stopping"
    /\ pc[Task] = "idle"
    /\ client' = "stopped"
    /\ UNCHANGED <<chVars, sent, given, conn, seen>>

(* ... then the boxed callback goes, and with it the sending handle. *)
DropCallback ==
    /\ client = "stopped"
    /\ Ch!DropGuard(Task) \/ Ch!DropArc(Task) \/ Ch!Quit(Task)
    /\ UNCHANGED <<client, sent, given, conn, seen>>

-----------------------------------------------------------------------------
(* The connection. *)

(* next(): done() if the last call gave out an event. *)
NextCall ==
    /\ conn = "idle"
    /\ IF given THEN Ch!Done ELSE UNCHANGED chVars
    /\ conn' = "fetch"
    /\ UNCHANGED <<client, sent, given, seen>>

(* get_shared() or get_shared_async() is entered ... *)
NextGets ==
    /\ conn = "fetch"
    /\ Ch!Get(IF Async THEN "aget" ELSE "get")
    /\ conn' = "wait"
    /\ UNCHANGED <<client, sent, given, seen>>

NextWaits ==
    /\ Ch!GetSleep \/ Ch!GetAwait \/ Ch!Notified
    /\ UNCHANGED <<client, sent, given, conn, seen>>

(* ... and returns an event ... *)
NextReturns ==
    /\ conn = "wait"
    /\ Ch!Got
    /\ given' = TRUE
    /\ seen' = sent
    /\ conn' = "idle"
    /\ UNCHANGED <<client, sent>>

(* ... or finds the channel closed, or gone. *)
NextFails ==
    /\ \/ conn = "wait" /\ Ch!GotQuit
       \/ conn = "fetch" /\ Ch!Freed /\ UNCHANGED chVars
    /\ given' = FALSE
    /\ conn' = "idle"
    /\ UNCHANGED <<client, sent, seen>>

(* The future of next() is dropped at its await point: given is not reset. *)
CancelNext ==
    /\ Ch!Cancel
    /\ conn' = "idle"
    /\ UNCHANGED <<client, sent, given, seen>>

DropConnection ==
    /\ conn = "idle"
    /\ Ch!DropReceiver
    /\ conn' = "dropped"
    /\ UNCHANGED <<client, sent, given, seen>>

-----------------------------------------------------------------------------
TaskStep == CallbackWaits \/ CallbackEnds \/ TaskStops \/ DropCallback

ConnStep == NextGets \/ NextWaits \/ NextReturns \/ NextFails

Next ==
    \/ Event \/ TaskStep \/ DropClient
    \/ NextCall \/ ConnStep \/ CancelNext \/ DropConnection

Spec == Init /\ [][Next]_vars

(* The tasks are scheduled; the application keeps calling next() until it  *)
(* drops the connection. Nobody has to drop the client or cause events.    *)
Fairness ==
    /\ WF_vars(TaskStep)
    /\ WF_vars(ConnStep)
    /\ WF_vars(NextCall)

FairSpec == Spec /\ Fairness

-----------------------------------------------------------------------------
(* Properties *)

(* The values the variables take. *)
TypeOK ==
    /\ Ch!TypeOK
    /\ client \in {"up", "stopping", "stopped"}
    /\ sent \in 0 .. MaxEvents
    /\ given \in BOOLEAN
    /\ conn \in {"idle", "fetch", "wait", "dropped"}
    /\ seen \in 0 .. sent
    /\ using # None => given

(* An event the application has borrowed from next() is the one the task   *)
(* is still in the callback for, and its client has not been destroyed.    *)
BorrowedEventIsAlive ==
    using # None => pc[Task] = "hand" /\ seen = sent /\ client # "stopped"

(* Events are returned once, and in the order of their callbacks.          *)
GoesOn == conn = "wait" /\ using' # None => seen' > seen

NoDuplicates == [][GoesOn]_vars

(* mqtt_client_async.rs:95: a message sent to the topic is one "the client *)
(* configured here should receive": next() leaves no event out.            *)
LeavesNoneOut == conn = "wait" /\ using' # None => seen' = seen + 1

NoEventLost == [][LeavesNoneOut]_vars

(* CHANGELOG.md:236, dropping a client "in the presence of a blocking      *)
(* EspMqttConnection" does not deadlock, if the connection goes on.        *)
ClientDropCompletes ==
    client = "stopping" ~> pc[Task] = "gone"

(* mqtt_client.rs:92, mqtt_client_async.rs:102: the loop around next()     *)
(* ends with "Connection closed" once the client has been dropped.         *)
ConnectionLearns ==
    pc[Task] = "gone" ~> conn = "dropped" \/ (conn = "idle" /\ ~ given)
=============================================================================
