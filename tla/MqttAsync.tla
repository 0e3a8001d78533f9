------------------------------ MODULE MqttAsync ------------------------------
(***************************************************************************)
(* EspAsyncMqttClient of src/src/mqtt/client.rs on top of the Unblocker of *)
(* src/src/private/unblocker.rs.                                           *)
(*                                                                         *)
(* A worker task owns the blocking MQTT client and one work item, which it *)
(* lends through a Channel to the asynchronous client. The client writes a *)
(* command into the item, gives it back (done) so that the worker runs it, *)
(* and takes the item again to read the result. Futures can be dropped at  *)
(* their await points, and the client can be dropped between calls.        *)
(*                                                                         *)
(* Every call of execute() is a command of its own, numbered from 1; the   *)
(* result of running command c is the number c. What the C library makes   *)
(* of a command is out of the picture.                                     *)
(***************************************************************************)
EXTENDS Naturals

CONSTANTS
    Worker,     \* the "MQTT Sending task"
    Client,     \* the task that owns the EspAsyncMqttClient
    None,
    MaxCalls    \* bound: the number of execute() calls

(* What the constants are required to be. *)
CallsAssumption == MaxCalls \in Nat /\ Worker \notin {Client, None}

VARIABLES
    state, lent, notified, waiting, pc, using, handled,  \* the channel
    wpc,        \* the worker: "loop", "run" or "exit"
    call,       \* the client: where it is in execute() or drop
    command,    \* AsyncWork::command, 0 for AsyncCommand::None
    result,     \* AsyncWork::result
    calls,      \* number of the last call of execute()
    executed    \* history: how often each command has been run

Ch == INSTANCE Channel WITH
    Producers <- {Worker}, Guards <- {}, Receiver <- Client

chVars == <<state, lent, notified, waiting, pc, using, handled>>
clientVars == <<call, command, calls>>
vars == <<chVars, clientVars, wpc, result, executed>>

Commands == 1 .. MaxCalls

(* Unblocker::new: the worker task starts with a placeholder work item. *)
Fresh ==
    /\ wpc = "loop"
    /\ call = "idle"
    /\ command = 0
    /\ result = 0
    /\ calls = 0
    /\ executed = [c \in Commands |-> 0]

Init == Ch!Init /\ Fresh

-----------------------------------------------------------------------------
(* Variants with a bug. *)

(* execute() does not write the item it was lent, only gives it back. *)
SubmitUnwritten ==
    /\ call = "item"
    /\ Ch!Done
    /\ call' = "submitted"
    /\ UNCHANGED <<command, calls, wpc, result, executed>>

(* The worker does not wait for the item to come back. *)
ShareTrueEarly ==
    /\ wpc = "loop"
    /\ pc[Worker] = "hand"
    /\ wpc' = "run"
    /\ UNCHANGED <<chVars, clientVars, result, executed>>

(* Without impl Drop for the Receiver the worker is not told to stop. *)
DropLeaks ==
    /\ call = "dropping"
    /\ call' = "gone"
    /\ UNCHANGED <<chVars, command, calls, wpc, result, executed>>

-----------------------------------------------------------------------------
(* The worker: while channel.share(&mut work) { match work.command .. }    *)

WorkerShares ==
    /\ wpc = "loop"
    /\ \/ Ch!Share(Worker) \/ Ch!Offer(Worker) \/ Ch!Sleep(Worker)
    /\ UNCHANGED <<clientVars, wpc, result, executed>>

ShareTrue ==
    /\ wpc = "loop"
    /\ Ch!Return(Worker)
    /\ wpc' = "run"
    /\ UNCHANGED <<clientVars, result, executed>>

(* The command is left in the work item after it has been run. *)
Run ==
    /\ wpc = "run"
    /\ executed' = IF command = 0 THEN executed
                   ELSE [executed EXCEPT ![command] = @ + 1]
    /\ result' = command
    /\ wpc' = "loop"
    /\ UNCHANGED <<chVars, clientVars>>

ShareFalse ==
    /\ wpc = "loop"
    /\ Ch!Refused(Worker)
    /\ wpc' = "exit"
    /\ UNCHANGED <<clientVars, result, executed>>

(* The MQTT client and the Arc are dropped, the task deletes itself. *)
WorkerExits ==
    /\ wpc = "exit"
    /\ Ch!DropArc(Worker)
    /\ UNCHANGED <<clientVars, wpc, result, executed>>

-----------------------------------------------------------------------------
(* The client: execute(), its cancellation, drop. *)

(* execute(): exec_in_out() for the item to write. *)
Execute ==
    /\ call = "idle"
    /\ calls < MaxCalls
    /\ Ch!Get("aget")
    /\ call' = "asking"
    /\ calls' = calls + 1
    /\ UNCHANGED <<command, wpc, result, executed>>

(* The polls of exec_in_out() that do not complete it. *)
Poll ==
    /\ Ch!GetAwait \/ Ch!Notified
    /\ UNCHANGED <<clientVars, wpc, result, executed>>

(* The first exec_in_out() completes. *)
GotItem ==
    /\ call = "asking"
    /\ Ch!Got
    /\ call' = "item"
    /\ UNCHANGED <<command, calls, wpc, result, executed>>

(* The item is overwritten, do_exec() gives it back to the worker. *)
Submit ==
    /\ call = "item"
    /\ command' = calls
    /\ Ch!Done
    /\ call' = "submitted"
    /\ UNCHANGED <<calls, wpc, result, executed>>

(* The second exec_in_out(). *)
AwaitResult ==
    /\ call = "submitted"
    /\ Ch!Get("aget")
    /\ call' = "result"
    /\ UNCHANGED <<command, calls, wpc, result, executed>>

(* execute() returns work.result. *)
GotResult ==
    /\ call = "result"
    /\ Ch!Got
    /\ call' = "idle"
    /\ UNCHANGED <<command, calls, wpc, result, executed>>

(* The future of execute() is dropped at one of its two await points. *)
Cancel ==
    /\ Ch!Cancel
    /\ call' = "idle"
    /\ UNCHANGED <<command, calls, wpc, result, executed>>

(* Unblocker::drop ... *)
DropUnblocker ==
    /\ call = "idle"
    /\ Ch!Done
    /\ call' = "dropping"
    /\ UNCHANGED <<command, calls, wpc, result, executed>>

(* ... and then the drop of its field, the Receiver. *)
DropReceiver ==
    /\ call = "dropping"
    /\ Ch!DropReceiver
    /\ call' = "gone"
    /\ UNCHANGED <<command, calls, wpc, result, executed>>

-----------------------------------------------------------------------------
WorkerStep == WorkerShares \/ ShareTrue \/ Run \/ ShareFalse \/ WorkerExits

ClientStep ==
    \/ Poll \/ GotItem \/ Submit \/ AwaitResult \/ GotResult
    \/ DropReceiver

Next == WorkerStep \/ ClientStep \/ Execute \/ Cancel \/ DropUnblocker

Spec == Init /\ [][Next]_vars

(* The worker task is scheduled, and the executor polls a woken future. *)
Fairness == WF_vars(WorkerStep) /\ WF_vars(ClientStep)

FairSpec == Spec /\ Fairness

-----------------------------------------------------------------------------
(* Properties *)

(* The values the variables take. *)
TypeOK ==
    /\ Ch!TypeOK
    /\ wpc \in {"loop", "run", "exit"}
    /\ call \in {"idle", "asking", "item", "submitted", "result",
                 "dropping", "gone"}
    /\ command \in 0 .. MaxCalls
    /\ result \in 0 .. MaxCalls
    /\ calls \in 0 .. MaxCalls
    /\ executed \in [Commands -> Nat]

(* The worker runs a command, and writes its result, only while the client *)
(* has no access to the work item.                                         *)
NoRace ==
    wpc = "run" => call # "item" /\ using = None

(* execute() returns the result of its own command, which has been run,    *)
(* also after an earlier call was cancelled between submission and result. *)
ReturnsOwn ==
    call = "result" /\ using' # None => result = calls /\ executed[calls] = 1

OwnResult == [][ReturnsOwn]_vars

(* The unwrap() calls in execute() do not panic: the channel is not closed *)
(* behind a client that still uses it.                                     *)
UnwrapSafe ==
    call \in {"asking", "item", "submitted", "result"} =>
        state # "Quit" /\ ~ Ch!Freed

(* As long as the client has not been dropped no command is run twice.     *)
OnceWhileOpen ==
    call \notin {"dropping", "gone"} => \A c \in Commands : executed[c] <= 1

(* A call of execute() completes, unless it is cancelled.                  *)
ExecuteCompletes ==
    call \in {"asking", "item", "submitted", "result"} ~> call = "idle"

(* unblocker.rs:106: dropping the client "should cause the worker task to  *)
(* exit".                                                                  *)
DropStopsWorker ==
    call = "dropping" ~> pc[Worker] = "gone"

(* mqtt/client.rs:997: the worker shares "until the channel is closed. The *)
(* receiver will replace the data with the next work item": what it runs   *)
(* is always the next work item, never the last one again.                 *)
AtMostOnce ==
    \A c \in Commands : executed[c] <= 1
=============================================================================
