--------------------------------- MODULE Netif ---------------------------------
(***************************************************************************)
(* The network interfaces of src/src/netif.rs: EspNetif, which is built    *)
(* from a configuration in several calls into C, and EspNetifDriver, which *)
(* gives an interface a transport of its own (PPP over a serial line): two *)
(* handlers of IP events and a closure that C calls to transmit.           *)
(*                                                                         *)
(* Assumed of C: an event loop keeps one registration of a handler per     *)
(* event, a second one takes its place, and unregistering waits for a      *)
(* handler that runs; destroying an interface waits for a transmission,    *)
(* as both are done by the task of lwIP.                                   *)
(***************************************************************************)
EXTENDS Naturals, FiniteSets

CONSTANTS
    Interfaces, \* the interfaces that get a driver, one after the other or two
    Confs       \* the configurations they are built from

VARIABLES
    conf,       \* the configuration each was built from
    iface,      \* what C knows of it, NoIface before it is built
    alive,      \* the interfaces that are not destroyed
    inner,      \* those whose EspNetifDriverInner is not freed
    transmit,   \* those whose C driver configuration names that inner
    lent,       \* those that are lent to their driver (T = &mut EspNetif)
    handlers,   \* for got_ip and lost_ip: the interface registered last, if any
    running,    \* the event and interface of the handler that runs, or Idle
    sending,    \* the interface whose transport is in tx(), or Nobody
    broken,     \* those whose driver's constructor has failed
    pc          \* how far the life of each driver is

vars == <<conf, iface, alive, inner, transmit, lent, handlers, running, sending,
    broken, pc>>

Nobody == "nobody"
Idle == <<"none", Nobody>>

Events == {"got_ip", "lost_ip"}

(* The kinds of NetifConfiguration::ip_configuration: a client that asks   *)
(* for its address or has a fixed one, a router, and none (PPP, SLIP).     *)
Configurations ==
    [kind : {"dhcp"}, hostname : BOOLEAN, dns : {FALSE}, dhcps : {FALSE}]
    \union [kind : {"fixed"}, hostname : {FALSE}, dns : BOOLEAN, dhcps : {FALSE}]
    \union [kind : {"router"}, hostname : {FALSE}, dns : BOOLEAN, dhcps : BOOLEAN]
    \union [kind : {"none"}, hostname : {FALSE}, dns : {FALSE}, dhcps : {FALSE}]

(* What the constants are required to be. *)
NetifAssumption == Nobody \notin Interfaces /\ Confs \subseteq Configurations

NoIface == [flags |-> {}, ip |-> FALSE, dns |-> FALSE, offer |-> FALSE,
            hostname |-> FALSE]

Init ==
    /\ conf \in [Interfaces -> Confs]
    /\ lent \in SUBSET Interfaces
    /\ iface = [i \in Interfaces |-> NoIface]
    /\ alive = {} /\ inner = {} /\ transmit = {} /\ broken = {}
    /\ handlers = [e \in Events |-> Nobody]
    /\ running = Idle /\ sending = Nobody
    /\ pc = [i \in Interfaces |-> "none"]

-----------------------------------------------------------------------------
(* The flags of the inherent configuration. *)
Flags(c) ==
    CASE c.kind = "dhcp" -> {"DHCP_CLIENT"}
      [] c.kind = "fixed" -> {}
      [] c.kind = "router" ->
            {"AUTOUP"} \union (IF c.dhcps THEN {"DHCP_SERVER"} ELSE {})
      [] c.kind = "none" -> {"AUTOUP"}

(* What new_with_conf() makes of a configuration: the inherent one, then   *)
(* the DNS servers, the offer of the DNS server to the clients of a DHCP   *)
(* server, and the host name.                                              *)
Built(c) ==
    [flags |-> Flags(c), ip |-> c.kind \in {"fixed", "router"}, dns |-> c.dns,
     offer |-> c.dns /\ c.dhcps, hostname |-> c.hostname]

Goto(i, next) == pc' = [pc EXCEPT ![i] = next]

-----------------------------------------------------------------------------
(* Variants with a bug. *)

(* The DNS server is offered by whoever has one. *)
BuiltOffering(c) ==
    [flags |-> Flags(c), ip |-> c.kind \in {"fixed", "router"}, dns |-> c.dns,
     offer |-> c.dns, hostname |-> c.hostname]

(* The inner is dropped before the handlers are unregistered. *)
UnregisterNot(i, event) ==
    /\ pc[i] = "drop"
    /\ Goto(i, "free")
    /\ UNCHANGED <<conf, iface, alive, inner, transmit, lent, handlers, running,
                   sending, broken>>

-----------------------------------------------------------------------------
(* EspNetif::new_with_conf(): when esp_netif_new() or a later call fails   *)
(* the interface is dropped again.                                         *)
New(i) ==
    /\ pc[i] = "none"
    /\ \/ /\ iface' = [iface EXCEPT ![i] = Built(conf[i])]
          /\ alive' = alive \union {i}
          /\ Goto(i, "got_ip")
       \/ Goto(i, "end") /\ UNCHANGED <<iface, alive>>
    /\ UNCHANGED <<conf, inner, transmit, lent, handlers, running, sending, broken>>

(* new_nonstatic() begins: the inner is boxed.                             *)
Box(i) ==
    /\ pc[i] = "got_ip" /\ i \notin inner
    /\ inner' = inner \union {i}
    /\ UNCHANGED <<conf, iface, alive, transmit, lent, handlers, running, sending,
                   broken, pc>>

(* What dropping the inner means for an interface it owns. *)
DropInner(i) ==
    /\ sending # i
    /\ inner' = inner \ {i}
    /\ IF i \in lent
       THEN UNCHANGED <<alive, transmit>>
       ELSE alive' = alive \ {i} /\ transmit' = transmit \ {i}

(* esp_event_handler_register() of the two handlers ... *)
Register(i, event) ==
    /\ pc[i] = event /\ i \in inner
    /\ handlers' = [handlers EXCEPT ![event] = i]
    /\ Goto(i, IF event = "got_ip" THEN "lost_ip" ELSE "attach")
    /\ UNCHANGED <<conf, iface, alive, inner, transmit, lent, running, sending,
                   broken>>

(* ... esp_netif_attach(), which calls post_attach(): the transmit         *)
(* function, ...                                                           *)
Attach(i) ==
    /\ pc[i] = "attach"
    /\ transmit' = transmit \union {i}
    /\ Goto(i, "configure")
    /\ UNCHANGED <<conf, iface, alive, inner, lent, handlers, running, sending,
                   broken>>

(* ... and what the caller does with the interface (set_ppp_conf()).       *)
Configure(i) ==
    /\ pc[i] = "configure"
    /\ Goto(i, "idle")
    /\ UNCHANGED <<conf, iface, alive, inner, transmit, lent, handlers, running,
                   sending, broken>>

(* A call of the constructor fails: the inner is dropped, and what was     *)
(* registered before stays.                                                *)
ConstructorFails(i) ==
    /\ pc[i] \in {"got_ip", "lost_ip", "attach", "configure"} /\ i \in inner
    /\ DropInner(i)
    /\ broken' = broken \union {i}
    /\ Goto(i, "end")
    /\ UNCHANGED <<conf, iface, lent, handlers, running, sending>>

(* Drop of EspNetifDriver. Its stop() always fails, as nothing sets        *)
(* started, so that the interface is not stopped.                          *)
Drop(i) ==
    /\ pc[i] = "idle"
    /\ Goto(i, "drop")
    /\ UNCHANGED <<conf, iface, alive, inner, transmit, lent, handlers, running,
                   sending, broken>>

(* esp_event_handler_unregister() of the two names the handler, not the    *)
(* interface.                                                              *)
Unregister(i, event) ==
    /\ pc[i] = IF event = "got_ip" THEN "drop" ELSE "drop_lost"
    /\ running = Idle
    /\ handlers' = [handlers EXCEPT ![event] = Nobody]
    /\ Goto(i, IF event = "got_ip" THEN "drop_lost" ELSE "free")
    /\ UNCHANGED <<conf, iface, alive, inner, transmit, lent, running, sending,
                   broken>>

(* The fields of the driver are dropped: the interface before the closures.*)
Free(i) ==
    /\ pc[i] = "free"
    /\ DropInner(i)
    /\ Goto(i, "end")
    /\ UNCHANGED <<conf, iface, lent, handlers, running, sending, broken>>

-----------------------------------------------------------------------------
(* The task of the event loop: esp_netif_action_connected() or             *)
(* ..._disconnected() of the interface that is registered.                 *)
Dispatch(event) ==
    /\ running = Idle /\ handlers[event] # Nobody
    /\ running' = <<event, handlers[event]>>
    /\ UNCHANGED <<conf, iface, alive, inner, transmit, lent, handlers, sending,
                   broken, pc>>

HandlerEnds ==
    /\ running # Idle
    /\ running' = Idle
    /\ UNCHANGED <<conf, iface, alive, inner, transmit, lent, handlers, sending,
                   broken, pc>>

(* The task of lwIP: a packet of the interface is given to raw_tx().       *)
Send(i) ==
    /\ sending = Nobody /\ i \in transmit
    /\ sending' = i
    /\ UNCHANGED <<conf, iface, alive, inner, transmit, lent, handlers, running,
                   broken, pc>>

Sent ==
    /\ sending # Nobody
    /\ sending' = Nobody
    /\ UNCHANGED <<conf, iface, alive, inner, transmit, lent, handlers, running,
                   broken, pc>>

-----------------------------------------------------------------------------
Next ==
    \/ \E i \in Interfaces :
          \/ New(i) \/ Box(i) \/ Attach(i) \/ Configure(i) \/ ConstructorFails(i)
          \/ Drop(i) \/ Free(i) \/ Send(i)
          \/ \E event \in Events : Register(i, event) \/ Unregister(i, event)
    \/ \E event \in Events : Dispatch(event)
    \/ HandlerEnds \/ Sent

Spec == Init /\ [][Next]_vars

-----------------------------------------------------------------------------
(* Properties *)

(* The values the variables take. *)
TypeOK ==
    /\ conf \in [Interfaces -> Confs]
    /\ iface \in [Interfaces -> {NoIface} \union {Built(c) : c \in Confs}]
    /\ UNION {alive, inner, transmit, lent, broken} \subseteq Interfaces
    /\ handlers \in [Events -> Interfaces \union {Nobody}]
    /\ running \in {Idle} \union Events \X Interfaces
    /\ sending \in Interfaces \union {Nobody}
    /\ pc \in [Interfaces ->
               {"none", "got_ip", "lost_ip", "attach", "configure", "idle", "drop",
                "drop_lost", "free", "end"}]

(* An interface gets its address from one source, and offers its DNS       *)
(* server only to the clients it gives addresses to.                       *)
OneAddressSource ==
    \A i \in alive :
        /\ iface[i].ip => "DHCP_CLIENT" \notin iface[i].flags
        /\ "DHCP_SERVER" \in iface[i].flags => iface[i].ip
        /\ iface[i].offer => "DHCP_SERVER" \in iface[i].flags

(* The handlers of IP events are called for interfaces that exist, of the  *)
(* drivers whose constructor has gone through; the transmit function while *)
(* its driver exists, and after it only for an interface that was lent to  *)
(* it: dropping the driver neither stops nor detaches that one.            *)
CalledWhileAlive ==
    /\ running # Idle => running[2] \in alive \union broken
    /\ sending # Nobody =>
          sending \in inner \/ (sending \in lent /\ pc[sending] = "end")

(* netif.rs:1134, "The destructor of the service takes care [..] to remove *)
(* the closure from the hidden thread and destroy it.": not for a lent     *)
(* interface, to which raw_tx() still belongs.                             *)
ClosureIsRemoved == sending # Nobody => sending \in inner
=============================================================================
