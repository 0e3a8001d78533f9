------------------------------ MODULE AsyncTimer ------------------------------
(***************************************************************************)
(* EspAsyncTimer and EspTimer of src/src/timer.rs: a task that arms one ESP *)
(* timer and awaits its notification, and the timer task, which runs the   *)
(* callback and may have begun to do so when the timer is stopped.         *)
(*                                                                         *)
(* Every arming has a number of its own, so that a notification can be     *)
(* traced to the arming whose expiry it reports.                           *)
(***************************************************************************)
EXTENDS Naturals

CONSTANTS
    MaxArmings  \* bound: how often the timer is armed

(* What the constants are required to be. *)
BoundAssumption == MaxArmings \in Nat \ {0}

(* The arming 0 is none. *)
Armings == 0 .. MaxArmings

VARIABLES
    last,       \* the number of the last arming
    armed,      \* the arming the ESP timer counts for, 0 if it is stopped
    periodic,   \* it was armed by start_periodic
    running,    \* the arming for which the timer task runs the callback, or 0
    notified,   \* the arming the pending notification comes from, or 0
    pc,         \* where the owner of the timer is
    callback,   \* the closure and the Arc of the notification are alive
    overlap     \* history: a callback was running at the last reset

vars == <<last, armed, periodic, running, notified, pc, callback, overlap>>

timer == <<last, armed, periodic>>

Init ==
    /\ last = 0 /\ armed = 0 /\ periodic = FALSE
    /\ running = 0 /\ notified = 0
    /\ pc = "idle"
    /\ callback = TRUE
    /\ overlap = FALSE

-----------------------------------------------------------------------------
(* Variants with a bug. *)

(* after() and every() do not reset the notification. *)
ResetForgotten ==
    /\ pc \in {"after.reset", "every.reset"}
    /\ pc' = IF pc = "after.reset" THEN "after.arm" ELSE "every.arm"
    /\ overlap' = (running # 0)
    /\ UNCHANGED <<timer, running, notified, callback>>

(* drop() deletes the timer without a look at the result. *)
DeleteAtOnce ==
    /\ pc = "delete"
    /\ pc' = "gone"
    /\ callback' = FALSE
    /\ notified' = 0
    /\ UNCHANGED <<timer, running, overlap>>

(* every() arms the timer as if it was after() and awaits it. *)
EveryWaits ==
    /\ pc \in {"after.arm", "every.arm"}
    /\ last' = last + 1
    /\ armed' = last'
    /\ periodic' = (pc = "every.arm")
    /\ pc' = IF pc = "after.arm" THEN "after.wait" ELSE "every.wait"
    /\ UNCHANGED <<running, notified, callback, overlap>>

-----------------------------------------------------------------------------
(* after() and every(): cancel, which stops the timer but does not wait    *)
(* for a callback that runs; reset; cancel again and arm.                  *)
Stop(call) ==
    /\ pc = "idle"
    /\ last < MaxArmings
    /\ armed' = 0
    /\ pc' = call
    /\ UNCHANGED <<last, periodic, running, notified, callback, overlap>>

Reset ==
    /\ pc \in {"after.reset", "every.reset"}
    /\ notified' = 0
    /\ overlap' = (running # 0)
    /\ pc' = IF pc = "after.reset" THEN "after.arm" ELSE "every.arm"
    /\ UNCHANGED <<timer, running, callback>>

Arm ==
    /\ pc \in {"after.arm", "every.arm"}
    /\ last' = last + 1
    /\ armed' = last'
    /\ periodic' = (pc = "every.arm")
    /\ pc' = IF pc = "after.arm" THEN "after.wait" ELSE "idle"
    /\ UNCHANGED <<running, notified, callback, overlap>>

(* tick() awaits the notification. *)
Tick ==
    /\ pc = "idle"
    /\ pc' = "tick.wait"
    /\ UNCHANGED <<timer, running, notified, callback, overlap>>

(* The notification is taken, after() or tick() completes. *)
Complete ==
    /\ pc \in {"after.wait", "tick.wait"}
    /\ notified # 0
    /\ notified' = 0
    /\ pc' = "idle"
    /\ UNCHANGED <<timer, running, callback, overlap>>

(* The future of after() or tick() is dropped: the timer stays armed. *)
Cancel ==
    /\ pc \in {"after.wait", "tick.wait"}
    /\ pc' = "idle"
    /\ UNCHANGED <<timer, running, notified, callback, overlap>>

(* EspTimer::drop: cancel, then delete until it succeeds, which it does    *)
(* once the timer task is out of the callback; only then do the fields go. *)
Drop ==
    /\ pc = "idle"
    /\ armed' = 0
    /\ pc' = "delete"
    /\ UNCHANGED <<last, periodic, running, notified, callback, overlap>>

Delete ==
    /\ pc = "delete"
    /\ armed = 0 /\ running = 0
    /\ pc' = "gone"
    /\ callback' = FALSE
    /\ notified' = 0
    /\ UNCHANGED <<timer, running, overlap>>

-----------------------------------------------------------------------------
(* The timer task: the timer expires, the callback is entered.             *)
Expire ==
    /\ armed # 0
    /\ running = 0
    /\ running' = armed
    /\ armed' = IF periodic THEN armed ELSE 0
    /\ UNCHANGED <<last, periodic, notified, pc, callback, overlap>>

(* The callback notifies if the Arc of the notification is still there.    *)
Callback ==
    /\ running # 0
    /\ notified' = IF callback THEN running ELSE notified
    /\ running' = 0
    /\ UNCHANGED <<timer, pc, callback, overlap>>

-----------------------------------------------------------------------------
Next ==
    \/ Stop("after.reset") \/ Stop("every.reset") \/ Reset \/ Arm
    \/ Tick \/ Complete \/ Cancel \/ Drop \/ Delete
    \/ Expire \/ Callback

Spec == Init /\ [][Next]_vars

(* The clock goes on, the timer task and the owner are scheduled.          *)
Fairness ==
    /\ WF_vars(Expire) /\ WF_vars(Callback)
    /\ WF_vars(Reset) /\ WF_vars(Arm) /\ WF_vars(Complete) /\ SF_vars(Delete)

FairSpec == Spec /\ Fairness

-----------------------------------------------------------------------------
(* Properties *)

(* The values the variables take. *)
TypeOK ==
    /\ last \in Armings
    /\ armed \in {0, last}
    /\ periodic \in BOOLEAN
    /\ running \in 0 .. last
    /\ notified \in 0 .. last
    /\ pc \in {"idle", "after.reset", "after.arm", "after.wait",
               "every.reset", "every.arm", "tick.wait", "delete", "gone"}
    /\ callback \in BOOLEAN
    /\ overlap \in BOOLEAN

(* timer.rs 118-120: a callback that runs always has its closure, and no   *)
(* callback starts after the closure was freed.                            *)
CallbackAlive == running # 0 => callback

(* A call of after() does not complete early because of the expiry of a    *)
(* timer armed before it, such as one whose future was dropped: except     *)
(* when the callback for that expiry was running while the notification    *)
(* was reset, which the code cannot tell apart.                            *)
OwnExpiry ==
    [][Complete /\ pc = "after.wait" => notified = last \/ overlap]_vars

(* An expiry that is awaited is not lost, not even one before the first    *)
(* poll: after() completes, if its future is not dropped.                  *)
AfterCompletes == (pc = "after.wait") ~> (pc # "after.wait")

(* drop() gets out of its busy loop.                                       *)
DropCompletes == (pc = "delete") ~> (pc = "gone")
=============================================================================
