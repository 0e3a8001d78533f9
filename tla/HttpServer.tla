----------------------------- MODULE HttpServer -----------------------------
(***************************************************************************)
(* Starting, stopping and the WebSocket handlers of EspHttpServer in        *)
(* src/src/http/server.rs. The C server serves its sessions on a task of   *)
(* its own; close_fn(), which it calls when a session ends, finds the      *)
(* close handlers in the static map CLOSE_HANDLERS under the address of    *)
(* the C server. That address is free again when httpd_stop() returns.     *)
(***************************************************************************)
EXTENDS Naturals, FiniteSets, Functions

CONSTANTS
    Servers,        \* the threads that own an EspHttpServer
    Addresses,      \* the addresses of C servers
    Fds,            \* the sockets of a C server
    MaxHandlers     \* bound: the number of handlers of one server

(* What the constants are required to be. *)
ServerAssumption == MaxHandlers \in Nat

VARIABLES
    pc,             \* where each owner is
    sd,             \* the C server of each owner
    httpd,          \* the C servers that exist
    uris,           \* the handlers registered with the C server
    pushing,        \* ws_handler() has registered, but not pushed
    registry,       \* CLOSE_HANDLERS: the close handlers by address
    sessions,       \* the open sessions, as <<address, fd>>
    owed,           \* history: who is to be told of the end of which session
    panicked        \* the unwrap() that failed

vars == <<pc, sd, httpd, uris, pushing, registry, sessions, owed, panicked>>

States == {"down", "started", "up", "stopping", "stopped"}

Handlers == Servers \X (1 .. MaxHandlers)

Init ==
    /\ pc = [s \in Servers |-> "down"]
    /\ sd \in [Servers -> Addresses]
    /\ httpd = {}
    /\ uris = [s \in Servers |-> 0]
    /\ pushing = [s \in Servers |-> FALSE]
    /\ registry = [a \in {} |-> {}]
    /\ sessions = {}
    /\ owed = {}
    /\ panicked = "no"

-----------------------------------------------------------------------------
(* Variants with a bug. *)

(* stop() forgets the handlers before the C server has closed its sessions.*)
UnregisterForgets(s) ==
    /\ pc[s] = "up" /\ ~ pushing[s]
    /\ IF uris[s] > 0
       THEN uris' = [uris EXCEPT ![s] = @ - 1] /\ UNCHANGED <<pc, registry>>
       ELSE /\ pc' = [pc EXCEPT ![s] = "stopping"]
            /\ registry' = [registry EXCEPT ![sd[s]] = {}]
            /\ UNCHANGED uris
    /\ UNCHANGED <<sd, httpd, pushing, sessions, owed, panicked>>

(* stop() counts one handler too many. *)
UnregisterMore(s) ==
    /\ pc[s] = "up" /\ ~ pushing[s]
    /\ IF uris[s] >= 0
       THEN uris' = [uris EXCEPT ![s] = @ - 1] /\ UNCHANGED pc
       ELSE pc' = [pc EXCEPT ![s] = "stopping"] /\ UNCHANGED uris
    /\ UNCHANGED <<sd, httpd, pushing, registry, sessions, owed, panicked>>

-----------------------------------------------------------------------------
(* internal_new(): the C server is started and serves ...                  *)
Start(s) ==
    /\ pc[s] = "down"
    /\ \E a \in Addresses \ httpd :
          /\ sd' = [sd EXCEPT ![s] = a]
          /\ httpd' = httpd \union {a}
    /\ pc' = [pc EXCEPT ![s] = "started"]
    /\ UNCHANGED <<uris, pushing, registry, sessions, owed, panicked>>

(* ... before it has an entry in CLOSE_HANDLERS. *)
Insert(s) ==
    /\ pc[s] = "started"
    /\ registry' = [a \in DOMAIN registry \union {sd[s]} |->
                       IF a = sd[s] THEN {} ELSE registry[a]]
    /\ pc' = [pc EXCEPT ![s] = "up"]
    /\ UNCHANGED <<sd, httpd, uris, pushing, sessions, owed, panicked>>

(* ws_handler(): the handler is registered with the C server, then its     *)
(* close handler is pushed.                                                *)
RegisterUri(s) ==
    /\ pc[s] = "up" /\ ~ pushing[s]
    /\ uris[s] < MaxHandlers
    /\ uris' = [uris EXCEPT ![s] = @ + 1]
    /\ pushing' = [pushing EXCEPT ![s] = TRUE]
    /\ UNCHANGED <<pc, sd, httpd, registry, sessions, owed, panicked>>

PushCloseHandler(s) ==
    /\ pushing[s]
    /\ IF sd[s] \in DOMAIN registry
       THEN /\ registry' = [registry EXCEPT ![sd[s]] = @ \union {<<s, uris[s]>>}]
            /\ pushing' = [pushing EXCEPT ![s] = FALSE]
            /\ UNCHANGED panicked
       ELSE panicked' = "ws_handler" /\ UNCHANGED <<registry, pushing>>
    /\ UNCHANGED <<pc, sd, httpd, uris, sessions, owed>>

(* stop(): the handlers are unregistered one by one. *)
Unregister(s) ==
    /\ pc[s] = "up" /\ ~ pushing[s]
    /\ IF uris[s] > 0
       THEN uris' = [uris EXCEPT ![s] = @ - 1] /\ UNCHANGED pc
       ELSE pc' = [pc EXCEPT ![s] = "stopping"] /\ UNCHANGED uris
    /\ UNCHANGED <<sd, httpd, pushing, registry, sessions, owed, panicked>>

(* httpd_stop() returns when the sessions are closed and the task is gone. *)
HttpdStop(s) ==
    /\ pc[s] = "stopping"
    /\ \A f \in Fds : <<sd[s], f>> \notin sessions
    /\ httpd' = httpd \ {sd[s]}
    /\ pc' = [pc EXCEPT ![s] = "stopped"]
    /\ UNCHANGED <<sd, uris, pushing, registry, sessions, owed, panicked>>

(* At last the entry in CLOSE_HANDLERS is removed. *)
Remove(s) ==
    /\ pc[s] = "stopped"
    /\ registry' = Restrict(registry, DOMAIN registry \ {sd[s]})
    /\ pc' = [pc EXCEPT ![s] = "down"]
    /\ UNCHANGED <<sd, httpd, uris, pushing, sessions, owed, panicked>>

-----------------------------------------------------------------------------
(* The task of the C server at an address. *)
Accept(a) ==
    /\ \E s \in Servers : sd[s] = a /\ pc[s] \in {"started", "up"}
    /\ a \in httpd
    /\ \E f \in Fds : sessions' = sessions \union {<<a, f>>}
    /\ UNCHANGED <<pc, sd, httpd, uris, pushing, registry, owed, panicked>>

(* A WebSocket request calls a handler, which from then on expects to be   *)
(* called with Closed if its ws_handler() has returned.                    *)
Serve(s, n) ==
    /\ n \in 1 .. uris[s]
    /\ \E f \in Fds :
          /\ <<sd[s], f>> \in sessions
          /\ owed' = IF pushing[s] /\ n = uris[s] THEN owed
                     ELSE owed \union {<<sd[s], f, <<s, n>>>>}
    /\ UNCHANGED <<pc, sd, httpd, uris, pushing, registry, sessions, panicked>>

(* close_fn() calls the handlers it finds under the address. *)
CloseFn(a, f) ==
    /\ <<a, f>> \in sessions
    /\ IF a \in DOMAIN registry
       THEN /\ sessions' = sessions \ {<<a, f>>}
            /\ owed' = {x \in owed : ~ (x[1] = a /\ x[2] = f /\ x[3] \in registry[a])}
            /\ UNCHANGED panicked
       ELSE panicked' = "close_fn" /\ UNCHANGED <<sessions, owed>>
    /\ UNCHANGED <<pc, sd, httpd, uris, pushing, registry>>

-----------------------------------------------------------------------------
(* A panic ends the program: what the model does after one is of no         *)
(* interest, and breaks none of the other properties.                      *)
Next ==
    \/ \E s \in Servers :
          \/ Start(s) \/ Insert(s) \/ RegisterUri(s) \/ PushCloseHandler(s)
          \/ Unregister(s) \/ HttpdStop(s) \/ Remove(s)
          \/ \E n \in 1 .. MaxHandlers : Serve(s, n)
    \/ \E a \in Addresses : Accept(a) \/ \E f \in Fds : CloseFn(a, f)

Spec == Init /\ [][Next]_vars

-----------------------------------------------------------------------------
(* Properties *)

(* The values the variables take. *)
TypeOK ==
    /\ pc \in [Servers -> States]
    /\ sd \in [Servers -> Addresses]
    /\ httpd \subseteq Addresses
    /\ uris \in [Servers -> 0 .. MaxHandlers]
    /\ pushing \in [Servers -> BOOLEAN]
    /\ DOMAIN registry \subseteq Addresses
    /\ \A a \in DOMAIN registry : registry[a] \subseteq Handlers
    /\ sessions \subseteq Addresses \X Fds
    /\ panicked \in {"no", "close_fn", "ws_handler"}

(* A handler that has seen a session is called when the session closes,    *)
(* when stop() closes it as well.                                          *)
HandlersAreTold ==
    \A x \in owed : <<x[1], x[2]>> \in sessions

(* Once the server is down nothing of it is left behind: no handler in the *)
(* C server, no close handler that a later server at the address would     *)
(* call.                                                                   *)
NothingLeftBehind ==
    \A s \in Servers : pc[s] = "down" =>
        /\ uris[s] = 0
        /\ \A a \in DOMAIN registry : \A h \in registry[a] : h[1] # s

(* server.rs:706: close_fn() takes for granted that the server is in       *)
(* CLOSE_HANDLERS.                                                         *)
CloseFnFindsServer == panicked # "close_fn"

(* server.rs:1653: and so does ws_handler(). *)
WsHandlerFindsServer == panicked # "ws_handler"
=============================================================================
