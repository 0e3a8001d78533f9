-------------------------------- MODULE Sntp --------------------------------
(***************************************************************************)
(* The SNTP service of src/src/sntp.rs. TAKEN lets one EspSntp exist at a  *)
(* time and is locked while one is made or dropped; SYNC_CB holds the      *)
(* closure, under a mutex of its own, for the task of lwIP that has        *)
(* synchronised the time.                                                  *)
(***************************************************************************)
EXTENDS Naturals

CONSTANTS
    Plain,          \* threads that call new()
    WithCallback,   \* threads that call new_with_callback()
    Failing,        \* those whose init() may fail, as for a bad server name
    None

Services == Plain \union WithCallback

(* What the constants are required to be. *)
SntpAssumption ==
    /\ Plain \intersect WithCallback = {} /\ Failing \subseteq Services
    /\ None \notin Services

VARIABLES
    taken,      \* TAKEN
    holder,     \* who holds the mutex of TAKEN
    slot,       \* SYNC_CB: whose closure, or None
    running,    \* sntp_init() has been called, sntp_stop() has not
    sync,       \* where the task of lwIP is: "idle", "entered" (sync_cb()
                \* has been called) or "closure"
    pc          \* where each owner is

vars == <<taken, holder, slot, running, sync, pc>>

Init ==
    /\ taken = FALSE
    /\ holder = None
    /\ slot = None
    /\ running = FALSE
    /\ sync = "idle"
    /\ pc = [o \in Services |-> "none"]

(* sync_cb() holds the mutex of SYNC_CB while the closure runs. *)
SlotUnlocked == sync # "closure"

-----------------------------------------------------------------------------
(* Variants with a bug. *)

(* The drop leaves the closure in SYNC_CB. *)
UnsubscribeNothing(o) ==
    /\ pc[o] = "stopped"
    /\ taken' = FALSE
    /\ holder' = None
    /\ pc' = [pc EXCEPT ![o] = "none"]
    /\ UNCHANGED <<slot, running, sync>>

-----------------------------------------------------------------------------
(* new(), new_with_callback() are called: TAKEN is locked, ... *)
New(o) ==
    /\ pc[o] = "none"
    /\ pc' = [pc EXCEPT ![o] = "new"]
    /\ UNCHANGED <<taken, holder, slot, running, sync>>

Begin(o) ==
    /\ pc[o] = "new"
    /\ holder = None
    /\ ~ taken
    /\ holder' = o
    /\ pc' = [pc EXCEPT ![o] = IF o \in Plain THEN "init" ELSE "set"]
    /\ UNCHANGED <<taken, slot, running, sync>>

Refused(o) ==
    /\ pc[o] = "new"
    /\ holder = None
    /\ taken
    /\ pc' = [pc EXCEPT ![o] = "none"]
    /\ UNCHANGED <<taken, holder, slot, running, sync>>

(* ... the closure put into SYNC_CB, ... *)
SetCallback(o) ==
    /\ pc[o] = "set"
    /\ SlotUnlocked
    /\ slot' = o
    /\ pc' = [pc EXCEPT ![o] = "init"]
    /\ UNCHANGED <<taken, holder, running, sync>>

(* ... and the service started: ... *)
Start(o) ==
    /\ pc[o] = "init"
    /\ running' = TRUE
    /\ taken' = TRUE
    /\ holder' = None
    /\ pc' = [pc EXCEPT ![o] = "live"]
    /\ UNCHANGED <<slot, sync>>

(* ... init() may return early, and the closure stays. *)
Fail(o) ==
    /\ pc[o] = "init"
    /\ o \in Failing
    /\ holder' = None
    /\ pc' = [pc EXCEPT ![o] = "none"]
    /\ UNCHANGED <<taken, slot, running, sync>>

(* The drop locks TAKEN and stops the service, ... *)
Drop(o) ==
    /\ pc[o] = "live"
    /\ pc' = [pc EXCEPT ![o] = "drop"]
    /\ UNCHANGED <<taken, holder, slot, running, sync>>

Stop(o) ==
    /\ pc[o] = "drop"
    /\ holder = None
    /\ holder' = o
    /\ running' = FALSE
    /\ pc' = [pc EXCEPT ![o] = "stopped"]
    /\ UNCHANGED <<taken, slot, sync>>

(* ... then removes the closure and gives TAKEN back. *)
Unsubscribe(o) ==
    /\ pc[o] = "stopped"
    /\ SlotUnlocked
    /\ slot' = None
    /\ taken' = FALSE
    /\ holder' = None
    /\ pc' = [pc EXCEPT ![o] = "none"]
    /\ UNCHANGED <<running, sync>>

-----------------------------------------------------------------------------
(* The task of lwIP calls sync_cb(); sntp_stop() does not wait for it. *)
Enter ==
    /\ sync = "idle"
    /\ running
    /\ sync' = "entered"
    /\ UNCHANGED <<taken, holder, slot, running, pc>>

(* The closure is called, if there is one. *)
Call ==
    /\ sync = "entered"
    /\ sync' = IF slot = None THEN "idle" ELSE "closure"
    /\ UNCHANGED <<taken, holder, slot, running, pc>>

Leave ==
    /\ sync = "closure"
    /\ sync' = "idle"
    /\ UNCHANGED <<taken, holder, slot, running, pc>>

-----------------------------------------------------------------------------
OwnerNext(o) ==
    \/ New(o) \/ Begin(o) \/ Refused(o) \/ SetCallback(o) \/ Start(o) \/ Fail(o)
    \/ Drop(o) \/ Stop(o) \/ Unsubscribe(o)

Next == (\E o \in Services : OwnerNext(o)) \/ Enter \/ Call \/ Leave

Spec == Init /\ [][Next]_vars

(* The task of lwIP and the owner inside a call go on; the owner gets each *)
(* mutex in the end.                                                       *)
Fairness ==
    /\ WF_vars(Call) /\ WF_vars(Leave)
    /\ \A o \in Services :
          /\ WF_vars(Start(o) \/ Fail(o))
          /\ SF_vars(SetCallback(o)) /\ SF_vars(Unsubscribe(o))
          /\ SF_vars(Begin(o) \/ Refused(o)) /\ SF_vars(Stop(o))

FairSpec == Spec /\ Fairness

-----------------------------------------------------------------------------
(* Properties *)

(* The values the variables take. *)
TypeOK ==
    /\ taken \in BOOLEAN /\ running \in BOOLEAN
    /\ holder \in {o \in Services : pc[o] \in {"set", "init", "stopped"}}
                    \union {None}
    /\ slot \in WithCallback \union {None}
    /\ sync \in {"idle", "entered", "closure"}
    /\ pc \in [Services -> {"none", "new", "set", "init", "live",
                          "drop", "stopped"}]

(* sntp.rs:221: "The destructor of the service takes care [..] to remove   *)
(* the closure from the hidden thread and destroy it." The closure that    *)
(* runs is that of a service that exists or is being made or dropped.      *)
ClosureOfLiving == sync = "closure" => pc[slot] \notin {"none", "new"}

(* One service at a time, TAKEN says whether there is one, and it runs     *)
(* with the closure it was made with.                                      *)
OneService ==
    /\ \A o, p \in Services :
          pc[o] \notin {"none", "new"} /\ pc[p] \notin {"none", "new"} => o = p
    /\ taken = \E o \in Services : pc[o] \in {"live", "drop", "stopped"}
    /\ \A o \in WithCallback : pc[o] = "live" => running /\ slot = o

(* Making and dropping the service come back, whatever the task of lwIP    *)
(* and the other threads do.                                               *)
CallsReturn ==
    \A o \in Services : pc[o] \in {"new", "drop"} ~> pc[o] \in {"none", "live"}
=============================================================================
