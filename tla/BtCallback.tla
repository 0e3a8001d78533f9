----------------------------- MODULE BtCallback -----------------------------
(***************************************************************************)
(* BtSingleton of src/src/bt.rs, and the profiles of Bluedroid that are    *)
(* built on it (SPP, GAP, A2DP, AVRC, HFP, BLE GAP, GATT server and        *)
(* client), of which src/src/bt/spp.rs is the one followed here. A profile *)
(* exists once; its closure is kept in a slot under a mutex and called by  *)
(* tasks of the stack. call() clones the Arc of the closure, but the guard *)
(* is a temporary of the if let and is held until the closure returns.     *)
(***************************************************************************)
EXTENDS Naturals

CONSTANTS
    Owners,         \* the threads that create the profile
    Stack,          \* the tasks of the stack that deliver events
    MaxClosures,    \* bound: the closures of one owner
    None

Closures == Owners \X (1 .. MaxClosures)

(* What the constants are required to be. *)
BtAssumption ==
    /\ MaxClosures \in Nat
    /\ Owners \intersect Stack = {} /\ None \notin Stack \union Closures

VARIABLES
    initialized,    \* BtSingleton::initialized
    slot,           \* the closure in BtSingleton::callback
    mutex,          \* who holds its mutex, None in between two steps
    cur,            \* the closure each task of the stack is calling
    pc,             \* where each owner is
    count,          \* the closures each owner has subscribed
    mine,           \* the closure it has subscribed last
    dead            \* history: the closures that must not be called any more

vars == <<initialized, slot, mutex, cur, pc, count, mine, dead>>

Init ==
    /\ initialized = FALSE
    /\ slot = None
    /\ mutex = None
    /\ cur = [s \in Stack |-> None]
    /\ pc = [o \in Owners |-> "none"]
    /\ count = [o \in Owners |-> 0]
    /\ mine = [o \in Owners |-> None]
    /\ dead = {}

Unlocked == mutex = None

-----------------------------------------------------------------------------
(* Variants with a bug. *)

(* release() gives the singleton back before the drop is over. *)
ReleaseSlotFree(o) ==
    /\ pc[o] = "release"
    /\ Unlocked
    /\ initialized' = FALSE
    /\ pc' = [pc EXCEPT ![o] = "flag"]
    /\ UNCHANGED <<slot, mutex, cur, count, mine, dead>>

-----------------------------------------------------------------------------
(* The stack: the C callback of a profile calls call(). *)

Begin(s) ==
    /\ cur[s] = None
    /\ Unlocked
    /\ slot # None
    /\ cur' = [cur EXCEPT ![s] = slot]
    /\ mutex' = s
    /\ UNCHANGED <<initialized, slot, pc, count, mine, dead>>

End(s) ==
    /\ cur[s] # None
    /\ cur' = [cur EXCEPT ![s] = None]
    /\ mutex' = IF mutex = s THEN None ELSE mutex
    /\ UNCHANGED <<initialized, slot, pc, count, mine, dead>>

-----------------------------------------------------------------------------
(* The owners *)

(* EspSpp::new: take(), then the C calls that register and initialise. *)
Take(o) ==
    /\ pc[o] = "none"
    /\ ~ initialized
    /\ initialized' = TRUE
    /\ pc' = [pc EXCEPT ![o] = "init"]
    /\ UNCHANGED <<slot, mutex, cur, count, mine, dead>>

NewOk(o) ==
    /\ pc[o] = "init"
    /\ pc' = [pc EXCEPT ![o] = "live"]
    /\ UNCHANGED <<initialized, slot, mutex, cur, count, mine, dead>>

(* One of them fails: nobody calls release(). *)
NewFails(o) ==
    /\ pc[o] = "init"
    /\ pc' = [pc EXCEPT ![o] = "none"]
    /\ UNCHANGED <<initialized, slot, mutex, cur, count, mine, dead>>

Subscribe(o) ==
    /\ pc[o] = "live"
    /\ count[o] < MaxClosures
    /\ Unlocked
    /\ count' = [count EXCEPT ![o] = @ + 1]
    /\ slot' = <<o, count[o] + 1>>
    /\ mine' = [mine EXCEPT ![o] = <<o, count[o] + 1>>]
    /\ dead' = dead \union ({mine[o]} \ {None})
    /\ UNCHANGED <<initialized, mutex, cur, pc>>

Unsubscribe(o) ==
    /\ pc[o] = "live"
    /\ Unlocked
    /\ slot' = None
    /\ mine' = [mine EXCEPT ![o] = None]
    /\ dead' = dead \union ({mine[o]} \ {None})
    /\ UNCHANGED <<initialized, mutex, cur, pc, count>>

(* EspSpp::drop: unsubscribe() ... *)
StartDrop(o) ==
    /\ pc[o] = "live"
    /\ pc' = [pc EXCEPT ![o] = "drop"]
    /\ UNCHANGED <<initialized, slot, mutex, cur, count, mine, dead>>

DropUnsubscribe(o) ==
    /\ pc[o] = "drop"
    /\ Unlocked
    /\ slot' = None
    /\ pc' = [pc EXCEPT ![o] = "release"]
    /\ UNCHANGED <<initialized, mutex, cur, count, mine, dead>>

(* ... and, when the profile is deinitialised, release(), which            *)
(* unsubscribes once more and gives the singleton back last. What the      *)
(* closures borrow may be gone when the drop has returned.                 *)
ReleaseSlot(o) ==
    /\ pc[o] = "release"
    /\ Unlocked
    /\ slot' = None
    /\ pc' = [pc EXCEPT ![o] = "flag"]
    /\ UNCHANGED <<initialized, mutex, cur, count, mine, dead>>

ReleaseFlag(o) ==
    /\ pc[o] = "flag"
    /\ initialized' = FALSE
    /\ pc' = [pc EXCEPT ![o] = "none"]
    /\ mine' = [mine EXCEPT ![o] = None]
    /\ dead' = dead \union {c \in Closures : c[1] = o /\ c[2] <= count[o]}
    /\ UNCHANGED <<slot, mutex, cur, count>>

-----------------------------------------------------------------------------
Dropping(o) == DropUnsubscribe(o) \/ ReleaseSlot(o) \/ ReleaseFlag(o)

Next ==
    \/ \E s \in Stack : Begin(s) \/ End(s)
    \/ \E o \in Owners :
        \/ Take(o) \/ NewOk(o) \/ NewFails(o)
        \/ Subscribe(o) \/ Unsubscribe(o)
        \/ StartDrop(o) \/ Dropping(o)

Spec == Init /\ [][Next]_vars

(* A closure returns and a drop goes on. The stack takes the mutex again   *)
(* and again, but not always before the drop.                              *)
Fairness ==
    /\ \A s \in Stack : WF_vars(End(s))
    /\ \A o \in Owners : SF_vars(Dropping(o))

FairSpec == Spec /\ Fairness

-----------------------------------------------------------------------------
(* Properties *)

(* The values the variables take. *)
TypeOK ==
    /\ initialized \in BOOLEAN
    /\ slot \in Closures \union {None}
    /\ mutex \in {s \in Stack : cur[s] # None} \union {None}
    /\ cur \in [Stack -> Closures \union {None}]
    /\ pc \in [Owners -> {"none", "init", "live", "drop", "release", "flag"}]
    /\ count \in [Owners -> 0 .. MaxClosures]
    /\ mine \in [Owners -> Closures \union {None}]
    /\ dead \subseteq Closures

(* spp.rs:365: "The destructor of the service takes care [..] to remove    *)
(* the closure from the hidden thread and destroy it." No task of the      *)
(* stack is inside a closure that was replaced, unsubscribed or dropped.   *)
ClosureRemoved == \A s \in Stack : cur[s] \notin dead

(* Two tasks of the stack are never inside the same FnMut, which may only  *)
(* be called exclusively.                                                  *)
Exclusive ==
    \A s, t \in Stack : s # t => cur[s] = None \/ cur[s] # cur[t]

(* The profile exists once, and what its owner has subscribed stays        *)
(* subscribed, however the drop of the profile before it was delayed.      *)
SubscriptionKept ==
    /\ \A o, p \in Owners : pc[o] # "none" /\ pc[p] # "none" => o = p
    /\ \A o \in Owners : pc[o] = "live" => slot = mine[o]

(* release().unwrap() does not panic: whoever drops owns the singleton.    *)
ReleaseSucceeds == \A o \in Owners : pc[o] # "none" => initialized

(* The drop of the profile returns although the stack goes on calling.     *)
DropReturns == \A o \in Owners : pc[o] = "drop" ~> pc[o] = "none"
=============================================================================
