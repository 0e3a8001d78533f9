------------------------------ MODULE MCServices -------------------------------
(***************************************************************************)
(* The instance of the services that TLC checks: wrappers of an ESP-IDF    *)
(* service that calls back into a closure of the application from a task   *)
(* of its own. They share no state: a behaviour exercises one part and     *)
(* leaves the others where they start.                                     *)
(***************************************************************************)
EXTENDS Naturals

CONSTANTS
    Wakers, Wrap, Day, MaxClock, Never,     \* see TimeDriver
    MaxArmings,                             \* see AsyncTimer
    Owners, Stack, MaxClosures,             \* see BtCallback
    Plain, WithCallback, Failing,           \* see Sntp
    MaxCount,                               \* see Ping
    Threads, Kinds, MaxTakes,               \* see EspNow
    Tods, Oversized,                        \* see Thread
    None

VARIABLES
    part,   \* the part of the system that this behaviour is about
    \* TimeDriver
    clock, queue, alarm, fired, phase, now, after, byCallback,
    \* AsyncTimer
    last, armed, periodic, timerRunning, notified, timerPc, callback, overlap,
    \* BtCallback
    initialized, btSlot, btMutex, cur, btPc, btCount, mine, dead,
    \* Sntp
    sntpTaken, holder, sntpSlot, sntpRunning, sync, sntpPc,
    \* Ping
    pingPc, alive, pingRunning, pingMutex, summary, session, pingCount,
    profile, task,
    \* EspNow
    nowTaken, takes, nowSlot, registered, cb, nowPc, kind,
    \* Thread
    drv, mode, glue, started, otCb, reg, otCur, otTask, exit, otPc, asleep,
    dataset_buf, dataset, otPanicked

driverVars == <<clock, queue, alarm, fired, phase, now, after, byCallback>>
timerVars == <<last, armed, periodic, timerRunning, notified, timerPc,
    callback, overlap>>
btVars == <<initialized, btSlot, btMutex, cur, btPc, btCount, mine, dead>>
sntpVars == <<sntpTaken, holder, sntpSlot, sntpRunning, sync, sntpPc>>
pingVars == <<pingPc, alive, pingRunning, pingMutex, summary, session,
    pingCount, profile, task>>
nowVars == <<nowTaken, takes, nowSlot, registered, cb, nowPc, kind>>
otVars == <<drv, mode, glue, started, otCb, reg, otCur, otTask, exit, otPc,
    asleep, dataset_buf, dataset, otPanicked>>

vars == <<part, driverVars, timerVars, btVars, sntpVars, pingVars, nowVars,
    otVars>>

Driver == INSTANCE TimeDriver

Timer == INSTANCE AsyncTimer WITH
    running <- timerRunning, pc <- timerPc

Bt == INSTANCE BtCallback WITH
    slot <- btSlot, mutex <- btMutex, pc <- btPc, count <- btCount

Time == INSTANCE Sntp WITH
    taken <- sntpTaken, slot <- sntpSlot, running <- sntpRunning, pc <- sntpPc

Echo == INSTANCE Ping WITH
    pc <- pingPc, running <- pingRunning, mutex <- pingMutex,
    count <- pingCount

Now == INSTANCE EspNow WITH
    taken <- nowTaken, slot <- nowSlot, pc <- nowPc

Ot == INSTANCE Thread WITH
    cb <- otCb, cur <- otCur, task <- otTask, pc <- otPc,
    panicked <- otPanicked

ASSUME Assumptions ==
    /\ Driver!TimeAssumption /\ Timer!BoundAssumption /\ Bt!BtAssumption
    /\ Time!SntpAssumption /\ Echo!PingAssumption /\ Now!EspNowAssumption
    /\ Ot!ThreadAssumption

Init ==
    /\ part \in {"driver", "timer", "bt", "sntp", "ping", "espnow", "thread"}
    /\ Driver!Init
    /\ Timer!Init
    /\ Bt!Init
    /\ Time!Init
    /\ Echo!Init
    /\ Now!Init
    /\ Ot!Init

Next ==
    /\ UNCHANGED part
    /\ \/ /\ part = "driver" /\ Driver!Next
          /\ UNCHANGED <<timerVars, btVars, sntpVars, pingVars, nowVars, otVars>>
       \/ /\ part = "timer" /\ Timer!Next
          /\ UNCHANGED <<driverVars, btVars, sntpVars, pingVars, nowVars, otVars>>
       \/ /\ part = "bt" /\ Bt!Next
          /\ UNCHANGED <<driverVars, timerVars, sntpVars, pingVars, nowVars, otVars>>
       \/ /\ part = "sntp" /\ Time!Next
          /\ UNCHANGED <<driverVars, timerVars, btVars, pingVars, nowVars, otVars>>
       \/ /\ part = "ping" /\ Echo!Next
          /\ UNCHANGED <<driverVars, timerVars, btVars, sntpVars, nowVars, otVars>>
       \/ /\ part = "espnow" /\ Now!Next
          /\ UNCHANGED <<driverVars, timerVars, btVars, sntpVars, pingVars, otVars>>
       \/ /\ part = "thread" /\ Ot!Next
          /\ UNCHANGED <<driverVars, timerVars, btVars, sntpVars, pingVars, nowVars>>

(* The fairness of the part that runs. *)
Fairness ==
    \/ part = "driver" /\ Driver!Fairness
    \/ part = "timer" /\ Timer!Fairness
    \/ part = "bt" /\ Bt!Fairness
    \/ part = "sntp" /\ Time!Fairness
    \/ part = "ping" /\ Echo!Fairness
    \/ part = "espnow"
    \/ part = "thread" /\ Ot!Fairness

Spec == Init /\ [][Next]_vars /\ Fairness

-----------------------------------------------------------------------------
(* Properties *)

(* The values the variables take. *)
TypeOK ==
    /\ Driver!TypeOK /\ Timer!TypeOK /\ Bt!TypeOK
    /\ Time!TypeOK /\ Echo!TypeOK /\ Now!TypeOK
    /\ Ot!TypeOK

(* While anybody sleeps on the time driver until a time before the last    *)
(* day of the epoch, and nobody holds its mutex, an alarm is set or the    *)
(* callback is on its way, however schedule_wake() and the callback        *)
(* interleave (timer.rs).                                                  *)
NoLostAlarm == Driver!NoLostAlarm

(* The margin of schedule_next_expiration() does what it is for: an alarm  *)
(* for a sleeper whose time is not within a day of the end of the epoch    *)
(* neither wraps around nor is later than the mutex's holder was kept from *)
(* running (timer.rs). A dataset that overflows its buffer is never used   *)
(* in part (thread.rs).                                                    *)
ArmedInTime == Driver!ArmedInTime /\ Ot!NoOverflow

(* FALSE: the timer is never set to a time that has wrapped around, and    *)
(* would go off at once: "we make sure to never call `Timer::after(ms)`    *)
(* with `ms` greater than `MAX_SAFE_TIMEOUT_US`" (timer.rs:433).           *)
NoOverflow == Driver!NoOverflow

(* after() completes on the expiry of its own arming, not on that of one   *)
(* before (timer.rs).                                                      *)
OwnExpiry == Timer!OwnExpiry

(* "The destructor of the service takes care [..] to remove the closure    *)
(* from the hidden thread and destroy it" (spp.rs:365, sntp.rs:221): no    *)
(* task of ESP-IDF is inside a closure, or uses what it captures, when the *)
(* service it belongs to is gone.                                          *)
ClosureOfLiving ==
    /\ Timer!CallbackAlive /\ Bt!ClosureRemoved /\ Time!ClosureOfLiving
    /\ Echo!TrackerAlive /\ Now!ClosureOfLiving
    /\ Ot!InnerAlive

(* There is one instance of a service, with the closure it was given last, *)
(* however late the drop of the one before is; espnow.rs:266 always finds  *)
(* the closure of a registered callback.                                   *)
OneInstance ==
    /\ Bt!Exclusive /\ Bt!SubscriptionKept /\ Bt!ReleaseSucceeds
    /\ Time!OneService
    /\ Now!CallbackAvailable /\ Now!NothingLeft
    /\ Ot!SlotsInUse

(* The calls come back: who sleeps on the time driver is woken, after()    *)
(* completes, ping() returns, and every drop does, whatever ESP-IDF calls  *)
(* meanwhile.                                                              *)
CallsReturn ==
    /\ part = "driver" => Driver!SleepersWake
    /\ part = "timer" => Timer!AfterCompletes /\ Timer!DropCompletes
    /\ part = "bt" => Bt!DropReturns
    /\ part = "sntp" => Time!CallsReturn
    /\ part = "ping" => Echo!PingReturns
    /\ part = "thread" => Ot!CallsReturn
=============================================================================
