------------------------------ MODULE TimeDriver ------------------------------
(***************************************************************************)
(* The embassy-time driver in src/src/timer.rs: a queue of wake-ups and    *)
(* one ESP timer, both behind a mutex that schedule_wake() and the timer's *)
(* callback take.                                                          *)
(*                                                                         *)
(* Time is counted in ticks of a clock of Wrap values (2^64 in the code).  *)
(* The clock goes on between any two steps, in particular between the      *)
(* moment the driver reads it and the moment esp_timer_start_once() does.  *)
(***************************************************************************)
EXTENDS Naturals, FiniteSets

CONSTANTS
    Wakers,     \* the wakers of the tasks that sleep on embassy-time
    Wrap,       \* the number of values of the clock
    Day,        \* the margin of MAX_SAFE_TIMEOUT_US
    MaxClock,   \* bound: the last value of the clock
    Never       \* no alarm, no wake-up

Times == 0 .. Wrap - 1

(* What the constants are required to be. *)
TimeAssumption ==
    /\ Wrap \in Nat /\ Day \in Nat /\ MaxClock \in Nat
    /\ MaxClock < Wrap /\ Day < Wrap
    /\ Never \notin Times

MaxSafeTimeout == Wrap - 1 - Day

VARIABLES
    clock,      \* esp_timer_get_time()
    queue,      \* for each waker the time it is queued for, or Never
    alarm,      \* when the ESP timer will fire, or Never
    fired,      \* the timer task is about to run the callback
    phase,      \* what the holder of the mutex does next, "free" if none
    now, after, \* now and next_at - now, as the holder of the mutex read them
    byCallback  \* the holder of the mutex is the timer's callback

vars == <<clock, queue, alarm, fired, phase, now, after, byCallback>>

Queued == {w \in Wakers : queue[w] # Never}

(* The waker is not queued, or for a later time than at.                   *)
Earlier(w, at) == IF queue[w] = Never THEN TRUE ELSE at < queue[w]

(* queue.next_expiration(t): wakes what is due, returns the next time, the *)
(* end of the epoch if there is none.                                      *)
Due(t) == {w \in Queued : queue[w] <= t}

NextExpiration(t) ==
    LET rest == {queue[w] : w \in Queued \ Due(t)}
    IN  IF rest = {} THEN Wrap - 1
        ELSE CHOOSE next \in rest : \A u \in rest : next <= u

Init ==
    /\ clock = 0
    /\ queue = [w \in Wakers |-> Never]
    /\ alarm = Never
    /\ fired = FALSE
    /\ phase = "free"
    /\ now = 0
    /\ after = 0
    /\ byCallback = FALSE

-----------------------------------------------------------------------------
(* Variants with a bug. *)

(* schedule_next_expiration() is called for the first waker only. *)
ScheduleWakeLazy(w, at) ==
    /\ phase = "free"
    /\ Earlier(w, at)
    /\ queue' = [queue EXCEPT ![w] = at]
    /\ phase' = IF Queued = {} THEN "expire" ELSE "free"
    /\ byCallback' = FALSE
    /\ UNCHANGED <<clock, alarm, fired, now, after>>

(* The timeout is not limited to MAX_SAFE_TIMEOUT_US. *)
ExpireUnlimited ==
    /\ phase = "expire"
    /\ queue' = [w \in Wakers |-> IF w \in Due(clock) THEN Never ELSE queue[w]]
    /\ IF clock < NextExpiration(clock)
       THEN /\ now' = clock
            /\ after' = NextExpiration(clock) - clock
            /\ phase' = "start"
       ELSE UNCHANGED <<phase, now, after>>
    /\ fired' = (fired /\ (phase' # "free" \/ ~ byCallback))
    /\ UNCHANGED <<clock, alarm, byCallback>>

(* The callback wakes what is due, but does not arm the timer again. *)
CallbackNoRearm ==
    /\ fired
    /\ phase = "free"
    /\ queue' = [w \in Wakers |-> IF w \in Due(clock) THEN Never ELSE queue[w]]
    /\ fired' = FALSE
    /\ UNCHANGED <<clock, alarm, phase, now, after, byCallback>>

-----------------------------------------------------------------------------
(* schedule_wake(at, waker): the mutex is taken, and the timer looked at   *)
(* if the queue changed: a waker is queued once, for its earliest time.    *)
ScheduleWake(w, at) ==
    /\ phase = "free"
    /\ Earlier(w, at)
    /\ queue' = [queue EXCEPT ![w] = at]
    /\ phase' = "expire"
    /\ byCallback' = FALSE
    /\ UNCHANGED <<clock, alarm, fired, now, after>>

(* The ESP timer fires; the timer task runs one callback at a time. *)
Fire ==
    /\ alarm # Never
    /\ alarm <= clock
    /\ ~ fired
    /\ alarm' = Never
    /\ fired' = TRUE
    /\ UNCHANGED <<clock, queue, phase, now, after, byCallback>>

(* The callback gets the mutex. *)
Callback ==
    /\ fired
    /\ phase = "free"
    /\ phase' = "expire"
    /\ byCallback' = TRUE
    /\ UNCHANGED <<clock, queue, alarm, fired, now, after>>

(* schedule_next_expiration(): one round of the loop, which goes on while  *)
(* the clock has already reached the time it is to wait for. A timeout     *)
(* that is not safe is not set, what was set before is left.               *)
Expire ==
    /\ phase = "expire"
    /\ queue' = [w \in Wakers |-> IF w \in Due(clock) THEN Never ELSE queue[w]]
    /\ IF clock < NextExpiration(clock)
       THEN IF NextExpiration(clock) - clock <= MaxSafeTimeout
            THEN /\ now' = clock
                 /\ after' = NextExpiration(clock) - clock
                 /\ phase' = "start"
            ELSE /\ phase' = "free"
                 /\ UNCHANGED <<now, after>>
       ELSE UNCHANGED <<phase, now, after>>
    /\ fired' = (fired /\ (phase' # "free" \/ ~ byCallback))
    /\ UNCHANGED <<clock, alarm, byCallback>>

(* timer.after(): cancel, then start_once, which adds the timeout to a     *)
(* newer reading of the clock; the mutex is released, and what its holder  *)
(* had read is gone.                                                       *)
Start ==
    /\ phase = "start"
    /\ alarm' = (clock + after) % Wrap
    /\ phase' = "free"
    /\ now' = 0
    /\ after' = 0
    /\ fired' = (fired /\ ~ byCallback)
    /\ UNCHANGED <<clock, queue, byCallback>>

Tick ==
    /\ clock < MaxClock
    /\ clock' = clock + 1
    /\ UNCHANGED <<queue, alarm, fired, phase, now, after, byCallback>>

-----------------------------------------------------------------------------
Next ==
    \/ \E w \in Wakers, at \in Times : ScheduleWake(w, at)
    \/ Fire \/ Callback \/ Expire \/ Start \/ Tick

Spec == Init /\ [][Next]_vars

(* Time passes; the timer task and the holder of the mutex are scheduled.  *)
(* Tasks may keep the mutex busy for ever, whence SF for the callback.     *)
Fairness ==
    /\ WF_vars(Tick) /\ WF_vars(Fire) /\ WF_vars(Expire) /\ WF_vars(Start)
    /\ SF_vars(Callback)

FairSpec == Spec /\ Fairness

-----------------------------------------------------------------------------
(* Properties *)

(* The values the variables take. *)
TypeOK ==
    /\ clock \in 0 .. MaxClock
    /\ queue \in [Wakers -> Times \union {Never}]
    /\ alarm \in Times \union {Never}
    /\ fired \in BOOLEAN
    /\ phase \in {"free", "expire", "start"}
    /\ now \in 0 .. MaxClock
    /\ after \in Times
    /\ byCallback \in BOOLEAN

(* When the mutex is free and no callback is on its way, the timer is set  *)
(* if anybody sleeps, except for those who sleep until after the end of    *)
(* the safe part of the epoch.                                             *)
NoLostAlarm ==
    phase = "free" /\ ~ fired =>
        \A w \in Queued : queue[w] <= MaxSafeTimeout => alarm # Never

(* What the margin is good for, at any time of the clock: whoever sleeps   *)
(* until a time before the last day of the epoch gets an alarm that is not *)
(* in the past and at most as late as the holder of the mutex was          *)
(* unscheduled between its own reading of the clock and that of            *)
(* esp_timer_start_once(), if that was no longer than the margin; and a    *)
(* clock younger than the margin never wraps around, whoever sleeps.       *)
ArmedInTime ==
    [][phase = "start" /\ phase' = "free" =>
         /\ clock - now <= Day =>
              \A w \in Queued :
                 queue[w] <= MaxSafeTimeout =>
                    alarm' \in clock .. queue[w] + (clock - now)
         /\ clock <= Day => alarm' >= clock]_vars

(* The addition in esp_timer_start_once() does not wrap around, as the     *)
(* long comment in schedule_next_expiration() has it. FALSE: if nobody     *)
(* sleeps, or only until the last day of the epoch, a clock older than the *)
(* margin makes of the rest of the epoch a timeout that is not above       *)
(* MAX_SAFE_TIMEOUT_US.                                                    *)
NoOverflow == [][phase = "start" /\ phase' = "free" => alarm' >= clock]_vars

(* Every sleeper is woken once its time has come, however late the alarm   *)
(* is because the clock went on while it was set (MaxClock ends the model's *)
(* time: an alarm after it is never seen to go off).                       *)
SleepersWake ==
    \A w \in Wakers :
        (queue[w] # Never /\ queue[w] <= clock)
            ~> (queue[w] = Never \/ (alarm # Never /\ alarm > MaxClock))
=============================================================================
