-------------------------------- MODULE Ping --------------------------------
(***************************************************************************)
(* EspPing::run_ping() of src/src/ping.rs: the caller keeps a Tracker      *)
(* (summary, Waitable<bool> and reply closure) on its stack and hands a    *)
(* pointer to it to a session of esp_ping, whose task calls back with it.  *)
(* The caller sleeps on the Waitable until on_ping_end.                    *)
(***************************************************************************)
EXTENDS Naturals

CONSTANT MaxCount       \* bound: Configuration::count is in 1 .. MaxCount

(* What the constants are required to be. *)
PingAssumption == MaxCount \in Nat \ {0}

VARIABLES
    pc,             \* where the caller is
    alive,          \* the Tracker exists
    running,        \* tracker.waitable.state
    mutex,          \* who holds its mutex: "free", "caller" or "task"
    summary,        \* tracker.summary: requests transmitted, replies received
    session,        \* "none", "new", "started", "over"
    count,          \* the session's Configuration::count
    profile,        \* the session's own counts
    task            \* where the task of the session is

vars == <<pc, alive, running, mutex, summary, session, count,
          profile, task>>

tracker == <<running, mutex, summary>>
esp_ping == <<session, count, profile, task>>

Zero == [transmitted |-> 0, received |-> 0]

Init ==
    /\ pc = "idle"
    /\ alive = FALSE
    /\ running = FALSE
    /\ mutex = "free"
    /\ summary = Zero
    /\ session = "none"
    /\ count = 1
    /\ profile = Zero
    /\ task = "idle"

-----------------------------------------------------------------------------
(* Variants with a bug. *)

(* The caller looks at the state, unlocks it, and only then waits. *)
KeepWaitingUnlocked ==
    /\ pc = "check" /\ running
    /\ mutex' = "free"
    /\ pc' = "wait"
    /\ UNCHANGED <<alive, running, summary, esp_ping>>

-----------------------------------------------------------------------------
(* The caller *)

(* ping(), ping_details(): Tracker::new() and esp_ping_new_session(). *)
Call(n) ==
    /\ pc = "idle"
    /\ alive' = TRUE
    /\ running' = FALSE
    /\ summary' = Zero
    /\ count' = n
    /\ pc' = "new"
    /\ UNCHANGED <<mutex, session, profile, task>>

NewSession ==
    /\ pc = "new"
    /\ session' = "new"
    /\ profile' = Zero
    /\ pc' = "set"
    /\ UNCHANGED <<alive, tracker, count, task>>

SetRunning ==
    /\ pc = "set" /\ mutex = "free"
    /\ running' = TRUE
    /\ pc' = "start"
    /\ UNCHANGED <<alive, mutex, summary, esp_ping>>

Start ==
    /\ pc = "start"
    /\ session' = "started"
    /\ pc' = "lock"
    /\ UNCHANGED <<alive, tracker, count, profile, task>>

(* wait_while(): while the state is true. *)
Lock ==
    /\ pc = "lock" /\ mutex = "free"
    /\ mutex' = "caller"
    /\ pc' = "check"
    /\ UNCHANGED <<alive, running, summary, esp_ping>>

KeepWaiting ==
    /\ pc = "check" /\ running
    /\ pc' = "wait"
    /\ UNCHANGED <<alive, tracker, esp_ping>>

Wait ==
    /\ pc = "wait"
    /\ mutex' = IF mutex = "caller" THEN "free" ELSE mutex
    /\ pc' = "asleep"
    /\ UNCHANGED <<alive, running, summary, esp_ping>>

Spurious ==
    /\ pc = "asleep"
    /\ pc' = "lock"
    /\ UNCHANGED <<alive, tracker, esp_ping>>

Ended ==
    /\ pc = "check" /\ ~ running
    /\ mutex' = "free"
    /\ pc' = "stop"
    /\ UNCHANGED <<alive, running, summary, esp_ping>>

(* esp_ping_stop() and esp_ping_delete_session() *)
StopAndDelete ==
    /\ pc = "stop"
    /\ session' = "none"
    /\ pc' = "return"
    /\ UNCHANGED <<alive, tracker, count, profile, task>>

(* The Tracker goes out of scope. *)
Return ==
    /\ pc = "return"
    /\ alive' = FALSE
    /\ pc' = "idle"
    /\ UNCHANGED <<tracker, esp_ping>>

(* A call into C fails: the session, if there is one, is not deleted. *)
Error ==
    /\ pc \in {"new", "start", "stop"}
    /\ alive' = FALSE
    /\ pc' = "idle"
    /\ UNCHANGED <<tracker, esp_ping>>

-----------------------------------------------------------------------------
(* The task of the session: a request is answered or times out, and        *)
(* on_ping_success or on_ping_timeout brings the summary up to date.       *)
Reply(received) ==
    /\ session = "started" /\ task = "idle"
    /\ profile.transmitted < count
    /\ profile' = [transmitted |-> profile.transmitted + 1,
                   received |-> profile.received + received]
    /\ task' = "reply"
    /\ UNCHANGED <<pc, alive, tracker, session, count>>

OnReply ==
    /\ task = "reply"
    /\ summary' = profile
    /\ task' = "idle"
    /\ UNCHANGED <<pc, alive, running, mutex, session, count, profile>>

(* on_ping_end: the summary, then the state and the notification, both     *)
(* under the mutex.                                                        *)
OnEnd ==
    /\ session = "started" /\ task = "idle"
    /\ profile.transmitted = count
    /\ summary' = profile
    /\ task' = "lock"
    /\ UNCHANGED <<pc, alive, running, mutex, session, count, profile>>

LockState ==
    /\ task = "lock" /\ mutex = "free"
    /\ mutex' = "task"
    /\ task' = "clear"
    /\ UNCHANGED <<pc, alive, running, summary, session, count, profile>>

ClearRunning ==
    /\ task = "clear"
    /\ running' = FALSE
    /\ task' = "notify"
    /\ UNCHANGED <<pc, alive, mutex, summary, session, count, profile>>

NotifyAll ==
    /\ task = "notify"
    /\ pc' = IF pc = "asleep" THEN "lock" ELSE pc
    /\ task' = "unlock"
    /\ UNCHANGED <<alive, tracker, session, count, profile>>

Unlock ==
    /\ task = "unlock"
    /\ mutex' = IF mutex = "task" THEN "free" ELSE mutex
    /\ session' = IF session = "started" THEN "over" ELSE session
    /\ task' = "idle"
    /\ UNCHANGED <<pc, alive, running, summary, count, profile>>

-----------------------------------------------------------------------------
Caller ==
    \/ NewSession \/ SetRunning \/ Start \/ Lock \/ KeepWaiting \/ Wait
    \/ Ended \/ StopAndDelete \/ Return

Task ==
    \/ \E received \in {0, 1} : Reply(received)
    \/ OnReply \/ OnEnd \/ LockState \/ ClearRunning \/ NotifyAll \/ Unlock

Next ==
    \/ \E n \in 1 .. MaxCount : Call(n)
    \/ Caller \/ Error \/ Spurious \/ Task

Spec == Init /\ [][Next]_vars

(* The caller and the task run; a mutex that is given back again and again *)
(* is got in the end. Nothing is assumed of spurious wakeups.              *)
Fairness ==
    /\ WF_vars(Caller) /\ WF_vars(Task)
    /\ SF_vars(Lock) /\ SF_vars(LockState)

FairSpec == Spec /\ Fairness

-----------------------------------------------------------------------------
(* Properties *)

Counts == {p \in [transmitted : 0 .. MaxCount, received : 0 .. MaxCount] :
               p.received <= p.transmitted}

(* The values the variables take; the mutex is held only by one who is     *)
(* where the code has the guard.                                           *)
TypeOK ==
    /\ pc \in {"idle", "new", "set", "start", "lock", "check", "wait",
               "asleep", "stop", "return"}
    /\ task \in {"idle", "reply", "lock", "clear", "notify", "unlock"}
    /\ mutex = "caller" <=> pc \in {"check", "wait"}
    /\ mutex = "task" <=> task \in {"clear", "notify", "unlock"}
    /\ alive \in BOOLEAN /\ running \in BOOLEAN
    /\ {summary, profile} \subseteq Counts
    /\ session \in {"none", "new", "started", "over"}
    /\ count \in 1 .. MaxCount

(* The task never uses the pointer to a Tracker that has gone out of scope *)
(* with the stack frame of run_ping().                                     *)
TrackerAlive == task # "idle" => alive

(* What ping() returns are the counts of the whole session: they were      *)
(* written by another task, without the mutex.                             *)
SummaryFinal ==
    pc = "return" => summary.transmitted = count /\ summary = profile

(* ping() returns: the notification is never lost. *)
PingReturns == pc # "idle" ~> pc = "idle"
=============================================================================
