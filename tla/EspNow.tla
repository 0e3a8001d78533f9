------------------------------- MODULE EspNow -------------------------------
(***************************************************************************)
(* The ESP-NOW service of src/src/espnow.rs. TAKEN lets one EspNow exist;  *)
(* threads share it by reference and register closures for what is         *)
(* received and for what has been sent. A closure sits in a static slot,   *)
(* under a mutex that the Wi-Fi task holds while it runs it. The service   *)
(* in C must be told apart from the slot: a callback that finds no closure *)
(* panics.                                                                 *)
(*                                                                         *)
(* Of the C service it is assumed that esp_now_unregister_*_cb() and       *)
(* esp_now_deinit() return when no callback is running or about to run.    *)
(***************************************************************************)
EXTENDS Naturals

CONSTANTS
    Threads,        \* those that have a reference to the EspNow
    Kinds,          \* {recv, send}, registered independently
    MaxTakes,       \* bound: how often the EspNow is taken
    None

(* What the constants are required to be. *)
EspNowAssumption == MaxTakes \in Nat /\ None \notin Kinds \union 0 .. MaxTakes

VARIABLES
    taken,          \* TAKEN
    takes,          \* the instances there have been, the last one current
    slot,           \* the instance whose closure is in each slot, or None
    registered,     \* the callbacks the C service knows
    cb,             \* what the Wi-Fi task is doing with each kind: "idle",
                    \* "entered" (*_callback() is called) or "closure"
    pc,             \* where each thread is in its call
    kind            \* the kind that call is about

vars == <<taken, takes, slot, registered, cb, pc, kind>>

Init ==
    /\ taken = FALSE
    /\ takes = 0
    /\ slot = [k \in Kinds |-> None]
    /\ registered = {}
    /\ cb = [k \in Kinds |-> "idle"]
    /\ pc = [t \in Threads |-> "idle"]
    /\ kind = [t \in Threads |-> None]

Unlocked(k) == cb[k] # "closure"

(* The mutex of TAKEN is held by a drop until it is over. *)
Dropping == \E t \in Threads : pc[t] \in {"deinit", "clear"}

Return(t) ==
    /\ pc' = [pc EXCEPT ![t] = "idle"]
    /\ kind' = [kind EXCEPT ![t] = None]

-----------------------------------------------------------------------------
(* take(): a call into C that fails leaves everything as it is. *)
Take(t) ==
    /\ pc[t] = "idle" /\ ~ Dropping
    /\ ~ taken
    /\ takes < MaxTakes
    /\ taken' = TRUE
    /\ takes' = takes + 1
    /\ UNCHANGED <<slot, registered, cb, pc, kind>>

(* register_recv_cb(), register_send_cb(): the slot ... *)
SetSlot(t, k) ==
    /\ pc[t] = "idle" /\ taken /\ ~ Dropping
    /\ Unlocked(k)
    /\ slot' = [slot EXCEPT ![k] = takes]
    /\ pc' = [pc EXCEPT ![t] = "register"]
    /\ kind' = [kind EXCEPT ![t] = k]
    /\ UNCHANGED <<taken, takes, registered, cb>>

(* ... and then the C service, which may refuse. *)
Register(t) ==
    /\ pc[t] = "register"
    /\ registered' \in {registered, registered \union {kind[t]}}
    /\ Return(t)
    /\ UNCHANGED <<taken, takes, slot, cb>>

(* unregister_recv_cb(), unregister_send_cb(): the C service, ... *)
Unregister(t, k) ==
    /\ pc[t] = "idle" /\ taken /\ ~ Dropping
    /\ cb[k] = "idle"
    /\ registered' = registered \ {k}
    /\ pc' = [pc EXCEPT ![t] = "unset"]
    /\ kind' = [kind EXCEPT ![t] = k]
    /\ UNCHANGED <<taken, takes, slot, cb>>

(* ... and then the slot. *)
ClearSlot(t) ==
    /\ pc[t] = "unset"
    /\ Unlocked(kind[t])
    /\ slot' = [slot EXCEPT ![kind[t]] = None]
    /\ Return(t)
    /\ UNCHANGED <<taken, takes, registered, cb>>

(* The drop, when no other thread is using its reference: ... *)
Drop(t) ==
    /\ taken /\ ~ Dropping
    /\ \A u \in Threads : pc[u] = "idle"
    /\ pc' = [pc EXCEPT ![t] = "deinit"]
    /\ UNCHANGED <<taken, takes, slot, registered, cb, kind>>

(* ... esp_now_deinit(), ... *)
Deinit(t) ==
    /\ pc[t] = "deinit"
    /\ \A k \in Kinds : cb[k] = "idle"
    /\ registered' = {}
    /\ pc' = [pc EXCEPT ![t] = "clear"]
    /\ UNCHANGED <<taken, takes, slot, cb, kind>>

(* ... and, with both mutexes held, the slots and TAKEN. *)
Clear(t) ==
    /\ pc[t] = "clear"
    /\ \A k \in Kinds : Unlocked(k)
    /\ slot' = [k \in Kinds |-> None]
    /\ taken' = FALSE
    /\ Return(t)
    /\ UNCHANGED <<takes, registered, cb>>

-----------------------------------------------------------------------------
(* The Wi-Fi task: recv_callback() or send_callback() is called, ... *)
Enter(k) ==
    /\ k \in registered
    /\ \A l \in Kinds : cb[l] = "idle"
    /\ cb' = [cb EXCEPT ![k] = "entered"]
    /\ UNCHANGED <<taken, takes, slot, registered, pc, kind>>

(* ... and runs the closure under its mutex. *)
Run(k) ==
    /\ cb[k] = "entered"
    /\ slot[k] # None
    /\ cb' = [cb EXCEPT ![k] = "closure"]
    /\ UNCHANGED <<taken, takes, slot, registered, pc, kind>>

Leave(k) ==
    /\ cb[k] = "closure"
    /\ cb' = [cb EXCEPT ![k] = "idle"]
    /\ UNCHANGED <<taken, takes, slot, registered, pc, kind>>

-----------------------------------------------------------------------------
Next ==
    \/ \E t \in Threads :
        \/ Take(t) \/ Register(t) \/ ClearSlot(t)
        \/ Drop(t) \/ Deinit(t) \/ Clear(t)
        \/ \E k \in Kinds : SetSlot(t, k) \/ Unregister(t, k)
    \/ \E k \in Kinds : Enter(k) \/ Run(k) \/ Leave(k)

Spec == Init /\ [][Next]_vars

-----------------------------------------------------------------------------
(* Properties *)

(* The values the variables take; a slot never holds a closure of an       *)
(* earlier EspNow.                                                         *)
TypeOK ==
    /\ taken \in BOOLEAN
    /\ takes \in 0 .. MaxTakes
    /\ slot \in [Kinds -> {takes, None}]
    /\ registered \subseteq Kinds
    /\ cb \in [Kinds -> {"idle", "entered", "closure"}]
    /\ pc \in [Threads -> {"idle", "register", "unset", "deinit", "clear"}]
    /\ kind \in [Threads -> Kinds \union {None}]
    /\ \A t \in Threads : kind[t] # None <=> pc[t] \in {"register", "unset"}

(* espnow.rs:235 and 266 panic with "EspNow callback not available": a     *)
(* callback of the C service always finds a closure.                       *)
CallbackAvailable == \A k \in Kinds : cb[k] = "entered" => slot[k] # None

(* When there is no EspNow, the C service knows no callback and no slot    *)
(* holds a closure.                                                        *)
NothingLeft == taken \/ (registered = {} /\ \A k \in Kinds : slot[k] = None)

(* The closure that runs is of the instance that exists: the drop of an    *)
(* EspNow is over only when none of its closures is running or will be.    *)
ClosureOfLiving ==
    \A k \in Kinds : cb[k] = "closure" => taken /\ slot[k] = takes
=============================================================================
