------------------------------ MODULE EventWait ------------------------------
(***************************************************************************)
(* Wait and AsyncWait of src/src/eventloop.rs: a caller waits until the    *)
(* state a matcher looks at has changed, which it looks at again on every  *)
(* event of a kind. All calls of the Wi-Fi, Ethernet and netif wrappers    *)
(* that wait for a driver are built on the two.                            *)
(*                                                                         *)
(* The event loop task runs the handlers of one event one after the other: *)
(* first the driver's own subscription, which changes the state, then the  *)
(* subscription of the Wait, which notifies.                               *)
(***************************************************************************)
EXTENDS Naturals

CONSTANTS
    Async,      \* AsyncWait (notification, timer) or Wait (condition variable)
    Timed,      \* a duration is given
    Duration,   \* the duration, in ticks
    None        \* the matcher has not been called

(* What the constants are required to be. *)
WaitAssumption ==
    /\ Async \in BOOLEAN /\ Timed \in BOOLEAN
    /\ Duration \in Nat \ {0}

(* What the matcher returns: Ok(true), Ok(false), or an error. *)
Verdicts == {"wait", "done", "error"}

Results == {"ok", "err", "timeout"}

VARIABLES
    cond,       \* what the matcher would return now
    handler,    \* which handler the event loop task runs next, "idle" if none
    pc,         \* where the caller is, or what its call has returned
    notified,   \* the pending notification of the AsyncWait
    time,       \* ticks since the timeout was armed, up to Duration
    verdict     \* history: what the matcher has returned last

vars == <<cond, handler, pc, notified, time, verdict>>

Init ==
    /\ cond \in Verdicts
    /\ handler = "idle"
    /\ pc = "check"
    /\ notified = FALSE
    /\ time = 0
    /\ verdict = None

(* A caller on the condition variable is woken, any other notices nothing. *)
Wake == pc' = IF pc = "asleep" /\ ~ Async THEN "check" ELSE pc

-----------------------------------------------------------------------------
(* Variants with a bug. *)

(* The notification is reset before it is waited for. *)
PollForgetful ==
    /\ Async /\ pc = "park"
    /\ notified' = FALSE
    /\ pc' = IF Timed THEN "polled" ELSE "asleep"
    /\ UNCHANGED <<cond, handler, time, verdict>>

(* The handler does not reach the caller. *)
NotifyNobody ==
    /\ handler = "notify"
    /\ handler' = "idle"
    /\ UNCHANGED <<pc, notified, time, cond, verdict>>

(* The handler leaves a notification nobody takes. *)
NotifyBoth ==
    /\ handler = "notify"
    /\ handler' = "idle"
    /\ notified' = TRUE
    /\ Wake
    /\ UNCHANGED <<time, cond, verdict>>

-----------------------------------------------------------------------------
(* The event loop task: an event is dispatched to the driver's handler.    *)
Update(c) ==
    /\ handler = "idle"
    /\ cond' = c
    /\ handler' = "notify"
    /\ UNCHANGED <<pc, notified, time, verdict>>

(* The handler of the Wait: notify_all() without the mutex of the waitable, *)
(* or the notification of the AsyncWait.                                   *)
Notify ==
    /\ handler = "notify"
    /\ handler' = "idle"
    /\ notified' = Async
    /\ Wake
    /\ UNCHANGED <<time, cond, verdict>>

-----------------------------------------------------------------------------
(* wait_while() calls the matcher. With a duration AsyncWait takes an      *)
(* error of the matcher for success.                                       *)
Check ==
    /\ pc = "check"
    /\ verdict' = cond
    /\ pc' = CASE cond = "wait" -> "park"
               [] cond = "done" -> "ok"
               [] cond = "error" -> IF Async /\ Timed THEN "ok" ELSE "err"
    /\ UNCHANGED <<cond, handler, notified, time>>

(* Wait: the caller goes to sleep on the condition variable, and begins to *)
(* count its duration anew.                                                *)
Park ==
    /\ ~ Async
    /\ pc = "park"
    /\ pc' = "asleep"
    /\ time' = 0
    /\ UNCHANGED <<cond, handler, notified, verdict>>

(* AsyncWait: the future of the notification is polled. One that came      *)
(* meanwhile is taken, and the matcher called again; if there is none,     *)
(* select() goes on to the timer.                                          *)
Poll ==
    /\ Async
    /\ pc = "park"
    /\ notified' = FALSE
    /\ pc' = IF notified THEN "check" ELSE IF Timed THEN "polled" ELSE "asleep"
    /\ UNCHANGED <<cond, handler, time, verdict>>

(* The future of the timer is polled: the time is over, whoever notifies   *)
(* by now, or the task goes to sleep.                                      *)
PollTimer ==
    /\ pc = "polled"
    /\ pc' = IF time = Duration THEN "timeout" ELSE "asleep"
    /\ UNCHANGED <<cond, handler, notified, time, verdict>>

(* The task is woken by the notification or by the timer, and polls both.  *)
Resume ==
    /\ Async
    /\ pc = "asleep"
    /\ notified \/ (Timed /\ time = Duration)
    /\ pc' = "park"
    /\ UNCHANGED <<cond, handler, notified, time, verdict>>

(* pthread_cond_wait() may return without a notification. *)
SpuriousWakeup ==
    /\ ~ Async
    /\ pc = "asleep"
    /\ pc' = "check"
    /\ UNCHANGED <<cond, handler, notified, time, verdict>>

(* Wait: the time is over, and the matcher is not asked again.             *)
Timeout ==
    /\ Timed /\ ~ Async
    /\ pc = "asleep"
    /\ time = Duration
    /\ pc' = "timeout"
    /\ UNCHANGED <<cond, handler, notified, time, verdict>>

Tick ==
    /\ Timed
    /\ pc \notin Results
    /\ time < Duration
    /\ time' = time + 1
    /\ UNCHANGED <<cond, handler, pc, notified, verdict>>

-----------------------------------------------------------------------------
Next ==
    \/ \E c \in Verdicts : Update(c)
    \/ Notify \/ Check \/ Park \/ Poll \/ PollTimer \/ Resume
    \/ SpuriousWakeup \/ Timeout \/ Tick

Spec == Init /\ [][Next]_vars

(* The event loop task finishes what it has begun, the caller and the      *)
(* clock go on. Whether there is an event is up to the driver. The events  *)
(* do not always come in the moment between the call of the matcher and    *)
(* the poll of the notification, nor always before a caller on the         *)
(* condition variable sees that its time is over.                          *)
Fairness ==
    /\ WF_vars(Notify) /\ WF_vars(Check) /\ WF_vars(Park) /\ WF_vars(Poll)
    /\ WF_vars(PollTimer) /\ WF_vars(Resume) /\ WF_vars(Tick)
    /\ SF_vars(Check /\ ~ notified) /\ SF_vars(Poll /\ ~ notified)
    /\ SF_vars(Timeout)

FairSpec == Spec /\ Fairness

-----------------------------------------------------------------------------
(* Properties *)

(* The values the variables take. *)
TypeOK ==
    /\ cond \in Verdicts
    /\ handler \in {"idle", "notify"}
    /\ pc \in {"check", "park", "polled", "asleep"} \union Results
    /\ notified \in BOOLEAN
    /\ notified => Async
    /\ time \in 0 .. Duration
    /\ verdict \in Verdicts \union {None}

(* A call returns what the matcher said last, a timeout only after the     *)
(* matcher has said wait.                                                  *)
Justified ==
    pc \in Results =>
        verdict = CASE pc = "ok" -> "done"
                    [] pc = "err" -> "error"
                    [] pc = "timeout" -> "wait"

(* No event goes by without the matcher looking at the state it has left:  *)
(* whoever sleeps is going to be notified or is up to date.                *)
NoLostEvent ==
    pc \in {"park", "polled", "asleep"} /\ handler = "idle" /\ ~ notified
        => cond = verdict

(* Who finds no notification, and goes on to ask the timer or to sleep,    *)
(* does so when what it waits for has not happened or the event loop task  *)
(* is still busy with the event. So a timeout is true of the moment of     *)
(* this poll.                                                              *)
HonestStep ==
    pc = "park" /\ pc' \in {"polled", "asleep"}
        => cond = "wait" \/ handler = "notify"

(* It is not true of the moment in which the timeout is reported: an event *)
(* may come between the two polls of one select().                         *)
TimeoutIsTrue ==
    [][pc # "timeout" /\ pc' = "timeout"
          => cond = "wait" \/ handler = "notify"]_vars

(* With a duration the call comes back, whatever the events.               *)
TimedReturns == Timed => <>(pc \in Results)

(* wifi.rs:2793: the matcher "is re-evaluated each time the ESP IDF C Wifi *)
(* driver posts a Wifi event on the system event loop".                    *)
ReevaluatedOnEvent == NoLostEvent

(* wifi.rs:2993: connect() "awaits until the wifi driver has connected".   *)
OkMeansDone == pc = "ok" => verdict = "done"
=============================================================================
