-------------------------------- MODULE Loan --------------------------------
(***************************************************************************)
(* What the rendezvous of private/zerocopy.rs promises, without mutex,     *)
(* condition variable or shutdown: owners lend their data, a single user   *)
(* uses one datum at a time and only while it is on loan, and an owner     *)
(* gets its datum back only when the user has let go of it.                *)
(***************************************************************************)
CONSTANTS
    Owners,
    None

VARIABLES
    out,    \* the owners whose datum is on loan
    user    \* the owner whose datum is in use, or None

loanVars == <<out, user>>

Init ==
    /\ out = {}
    /\ user = None

Lend(p) ==
    /\ p \notin out
    /\ out' = out \union {p}
    /\ UNCHANGED user

Use(p) ==
    /\ p \in out
    /\ user = None
    /\ user' = p
    /\ UNCHANGED out

LetGo ==
    /\ user # None
    /\ user' = None
    /\ UNCHANGED out

Reclaim(p) ==
    /\ p \in out
    /\ user # p
    /\ out' = out \ {p}
    /\ UNCHANGED user

Next ==
    \/ \E p \in Owners : Lend(p) \/ Use(p) \/ Reclaim(p)
    \/ LetGo

Spec == Init /\ [][Next]_loanVars
=============================================================================
