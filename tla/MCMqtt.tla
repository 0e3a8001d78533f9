-------------------------------- MODULE MCMqtt ---------------------------------
(***************************************************************************)
(* The instance of the MQTT client that TLC checks: the asynchronous       *)
(* client and its worker, and the connection that hands out the events,    *)
(* blocking and asynchronous. The client and the connection have a channel *)
(* each and share no state, so a behaviour exercises one part and leaves   *)
(* the others where they start.                                            *)
(***************************************************************************)
EXTENDS Naturals

CONSTANTS
    Task,       \* the worker of the client, or the MQTT task
    Owner,      \* the task that owns the client, or the connection
    None,
    MaxCalls,   \* bound: the calls of execute()
    MaxEvents   \* bound: the events

VARIABLES
    part,       \* the part that this behaviour is about
    state, lent, notified, waiting, pc, using, handled,     \* its channel
    wpc, call, command, result, calls, executed,            \* MqttAsync
    client, sent, given, conn, seen                         \* MqttConnection

workVars == <<wpc, call, command, result, calls, executed>>
connVars == <<client, sent, given, conn, seen>>

vars == <<part, state, lent, notified, waiting, pc, using, handled,
          workVars, connVars>>

Work == INSTANCE MqttAsync WITH Worker <- Task, Client <- Owner
Blocking == INSTANCE MqttConnection WITH Conn <- Owner, Async <- FALSE
Awaiting == INSTANCE MqttConnection WITH Conn <- Owner, Async <- TRUE

ASSUME Assumptions ==
    Work!CallsAssumption /\ Blocking!ConnectionAssumption

Init ==
    \/ part = "work" /\ Work!Init /\ Blocking!Fresh
    \/ part \in {"blocking", "awaiting"} /\ Blocking!Init /\ Work!Fresh

Next ==
    /\ UNCHANGED part
    /\ \/ part = "work" /\ Work!Next /\ UNCHANGED connVars
       \/ part = "blocking" /\ Blocking!Next /\ UNCHANGED workVars
       \/ part = "awaiting" /\ Awaiting!Next /\ UNCHANGED workVars

(* The fairness of the part that runs; the others stand still. *)
Fairness ==
    \/ part = "work" /\ Work!Fairness
    \/ part = "blocking" /\ Blocking!Fairness
    \/ part = "awaiting" /\ Awaiting!Fairness

Spec == Init /\ [][Next]_vars /\ Fairness

-----------------------------------------------------------------------------
(* Properties *)

(* The values the variables take. *)
TypeOK ==
    /\ part = "work" => Work!TypeOK
    /\ part = "blocking" => Blocking!TypeOK
    /\ part = "awaiting" => Awaiting!TypeOK

(* The worker and the client are never inside the work item at the same    *)
(* time, the client's unwrap() calls find the channel open, and while the  *)
(* client exists no command is run twice.                                  *)
WorkItemIsShared ==
    part = "work" => Work!NoRace /\ Work!UnwrapSafe /\ Work!OnceWhileOpen

(* execute() returns the result of its own command, also after calls whose *)
(* futures were dropped at any of their await points.                      *)
OwnResult == [][part = "work" => Work!ReturnsOwn]_vars

(* What next() has returned is the event of a callback that has not        *)
(* returned, of a client that is not destroyed.                            *)
BorrowedEventIsAlive == part # "work" => Blocking!BorrowedEventIsAlive

(* The blocking next() returns every event, once and in order; the         *)
(* asynchronous one, which may be cancelled, returns none twice.           *)
EachEventOnce ==
    [][/\ part = "blocking" => Blocking!LeavesNoneOut
       /\ part = "awaiting" => Awaiting!GoesOn]_vars

(* Nobody waits for ever: execute() completes, the drop of the client ends *)
(* its worker or its MQTT task, and a blocking connection learns of it.    *)
CallsReturn ==
    /\ part = "work" => Work!ExecuteCompletes /\ Work!DropStopsWorker
    /\ part = "blocking" =>
          Blocking!ClientDropCompletes /\ Blocking!ConnectionLearns
    /\ part = "awaiting" => Awaiting!ClientDropCompletes

(* client.rs:997: the worker shares "until the channel is closed. The      *)
(* receiver will replace the data with the next work item": what it runs   *)
(* is always the next work item, never the last one again.                 *)
AtMostOnce == part = "work" => Work!AtMostOnce
=============================================================================
