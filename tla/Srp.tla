---------------------------------- MODULE Srp ----------------------------------
(***************************************************************************)
(* The SRP client of src/src/thread/srp.rs: a name for the host and a few  *)
(* slots for services, in memory that OpenThread reads for as long as it   *)
(* has not reported the host or the service as removed.                    *)
(*                                                                         *)
(* Every call, and the callback of OpenThread, holds the lock of           *)
(* OpenThread: each is one step.                                           *)
(*                                                                         *)
(* Assumed of OpenThread: its list has a service once; it keeps pointers   *)
(* and copies nothing; what it reports as removed it does not read again;  *)
(* clearing does not call back.                                            *)
(***************************************************************************)
EXTENDS Naturals, FiniteSets

CONSTANTS
    Slots,      \* 0 .. SRP_SVCS - 1
    Services,   \* the services the application adds
    Hosts,      \* the configurations it sets
    TooLong,    \* the services and configurations that do not fit their buffer
    None

(* What OpenThread says of a host or a service. *)
States == {"ToAdd", "Registered", "ToRemove"}

(* What the constants are required to be. *)
SrpAssumption ==
    /\ Slots \subseteq Nat /\ IsFiniteSet(Slots) /\ Slots # {}
    /\ None \notin Services \union Hosts \union States

VARIABLES
    conf_taken, \* OtSrp::conf_taken
    conf_buf,   \* what is in conf_buf
    taken,      \* the slots that are taken
    buf,        \* what is in each slot
    host,       \* C's host: the configuration it was given and its state
    list,       \* C's services: the state of each slot, None when not in it
    added,      \* history: the service C was given at the slot
    running,    \* whether the client runs
    panicked

vars == <<conf_taken, conf_buf, taken, buf, host, list, added, running, panicked>>

NoHost == [conf |-> None, state |-> "Removed"]

Init ==
    /\ conf_taken = FALSE /\ conf_buf = None
    /\ taken = {} /\ buf = [s \in Slots |-> None]
    /\ host = NoHost
    /\ list = [s \in Slots |-> None] /\ added = [s \in Slots |-> None]
    /\ running = FALSE /\ panicked = FALSE

Listed == {s \in Slots : list[s] # None}

-----------------------------------------------------------------------------
(* What is stored in a buffer, strings with their zero byte, data and the  *)
(* tables of both, fits or not: it has no more than 300 bytes.             *)
Fits(datum) == datum \notin TooLong

(* SrpConf::store() and SrpService::store() write the buffer as far as it  *)
(* goes, and what C is given points into it.                               *)
StoreConf(c) == conf_buf' = c

StoreService(slot, service) == buf' = [buf EXCEPT ![slot] = service]

-----------------------------------------------------------------------------
(* Variants with a bug. *)

(* The slot is free once its removal is scheduled. *)
ScheduleAndFree(slot) ==
    /\ list' = [list EXCEPT ![slot] = "ToRemove"]
    /\ taken' = taken \ {slot}

(* The configuration is taken when everything has gone through. *)
TakeConfLast(accepted) == conf_taken' = accepted

-----------------------------------------------------------------------------
(* srp_set_conf(): the buffer is written, also in part when it is too      *)
(* short, and taken before C accepts the name; the addresses may still be  *)
(* refused.                                                                *)
TakeConf(accepted) == conf_taken' = TRUE

SetConf(c) ==
    /\ ~ conf_taken
    /\ StoreConf(c)
    /\ IF ~ Fits(c)
       THEN UNCHANGED <<conf_taken, host>>
       ELSE \E named, accepted \in BOOLEAN :
              /\ accepted => named
              /\ TakeConf(accepted)
              /\ host' = IF named THEN [conf |-> c, state |-> "ToAdd"] ELSE host
    /\ UNCHANGED <<taken, buf, list, added, running, panicked>>

(* srp_add_service() takes the first free slot. Without one it panics.     *)
FreeSlots == Slots \ taken

FirstFree == CHOOSE s \in FreeSlots : \A t \in FreeSlots : s <= t

AddService(service) ==
    IF FreeSlots = {}
    THEN panicked' = TRUE /\ UNCHANGED <<taken, buf, list, added>>
    ELSE LET slot == FirstFree IN
         /\ StoreService(slot, service)
         /\ UNCHANGED panicked
         /\ \/ /\ Fits(service) /\ slot \notin Listed
               /\ list' = [list EXCEPT ![slot] = "ToAdd"]
               /\ added' = [added EXCEPT ![slot] = service]
               /\ taken' = taken \union {slot}
            \/ UNCHANGED <<list, added, taken>>

(* srp_remove_service(), at once ... *)
ClearService(slot) ==
    /\ slot \in taken
    /\ IF slot \in Listed
       THEN list' = [list EXCEPT ![slot] = None] /\ taken' = taken \ {slot}
       ELSE UNCHANGED <<list, taken>>

(* ... or when the server has been told: the slot is still taken.          *)
Schedule(slot) ==
    /\ list' = [list EXCEPT ![slot] = "ToRemove"]
    /\ UNCHANGED taken

RemoveService(slot) ==
    /\ slot \in taken
    /\ IF slot \in Listed THEN Schedule(slot) ELSE UNCHANGED <<list, taken>>

(* The slot after the last one passes the check of the range.              *)
RemoveServiceBeyond == panicked' = TRUE

(* srp_remove_all(), at once ... *)
ClearAll ==
    /\ host' = NoHost /\ list' = [s \in Slots |-> None]
    /\ conf_taken' = FALSE /\ taken' = {}

(* ... or when the server has been told. C may refuse that. *)
RemoveAll ==
    /\ host' = [host EXCEPT !.state = IF host.conf = None THEN @ ELSE "ToRemove"]
    /\ list' = [s \in Slots |-> IF s \in Listed THEN "ToRemove" ELSE None]

(* srp_start(), srp_autostart(), srp_stop() *)
StartStop ==
    /\ running' = ~ running
    /\ UNCHANGED <<conf_taken, conf_buf, taken, buf, host, list, added, panicked>>

-----------------------------------------------------------------------------
(* The server has answered: some of what was to be added is registered,    *)
(* some of what was to be removed is, and the callback cleans up.          *)
Cleanup(hostRemoved, removed) ==
    /\ conf_taken' = (conf_taken /\ ~ hostRemoved)
    /\ taken' = taken \ removed

Answer ==
    /\ running
    /\ \E registered \in SUBSET {s \in Slots : list[s] = "ToAdd"},
          removed \in SUBSET {s \in Slots : list[s] = "ToRemove"},
          hostRemoved \in BOOLEAN :
         /\ hostRemoved => host.state = "ToRemove"
         /\ list' = [s \in Slots |-> IF s \in registered THEN "Registered"
                                     ELSE IF s \in removed THEN None ELSE list[s]]
         /\ host' = IF hostRemoved THEN NoHost
                    ELSE [host EXCEPT !.state =
                             IF @ = "ToAdd" THEN "Registered" ELSE @]
         /\ Cleanup(hostRemoved, removed)
    /\ UNCHANGED <<conf_buf, buf, added, running, panicked>>

Next ==
    /\ ~ panicked
    /\ \/ \E c \in Hosts : SetConf(c)
       \/ /\ \E service \in Services : AddService(service)
          /\ UNCHANGED <<conf_taken, conf_buf, host, running>>
       \/ /\ \E slot \in Slots : ClearService(slot) \/ RemoveService(slot)
          /\ UNCHANGED <<conf_taken, conf_buf, buf, host, added, running, panicked>>
       \/ /\ RemoveServiceBeyond
          /\ UNCHANGED <<conf_taken, conf_buf, taken, buf, host, list, added, running>>
       \/ /\ ClearAll
          /\ UNCHANGED <<conf_buf, buf, added, running, panicked>>
       \/ /\ RemoveAll
          /\ UNCHANGED <<conf_taken, conf_buf, taken, buf, added, running, panicked>>
       \/ StartStop \/ Answer

Spec == Init /\ [][Next]_vars

-----------------------------------------------------------------------------
(* Properties *)

(* What srp_services() passes to its closure: the services C knows.        *)
OutServices == [s \in Listed |-> <<buf[s], list[s]>>]

(* srp_is_empty() *)
IsEmpty == ~ conf_taken /\ taken = {}

(* The values the variables take. *)
TypeOK ==
    /\ conf_taken \in BOOLEAN /\ conf_buf \in Hosts \union {None}
    /\ taken \subseteq Slots
    /\ buf \in [Slots -> Services \union {None}]
    /\ host \in [conf : Hosts \union {None}, state : States \union {"Removed"}]
    /\ list \in [Slots -> States \union {None}]
    /\ added \in [Slots -> Services \union {None}]
    /\ running \in BOOLEAN /\ panicked \in BOOLEAN

(* The memory of a service and of the host's name is as OpenThread was     *)
(* given it until OpenThread is done with it, however the removal goes.    *)
MemoryIsStable ==
    /\ \A s \in Listed : OutServices[s][1] = added[s]
    /\ host.conf # None => conf_buf = host.conf

(* No slot is lost: those that are taken are those OpenThread has, and     *)
(* while there is a host the configuration is taken, so that srp_is_empty()*)
(* is true only when OpenThread has nothing.                               *)
SlotsComeBack ==
    /\ taken = Listed
    /\ host.conf # None => conf_taken
    /\ IsEmpty => Listed = {} /\ host = NoHost
=============================================================================
