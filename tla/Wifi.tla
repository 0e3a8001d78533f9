-------------------------------- MODULE Wifi --------------------------------
(***************************************************************************)
(* The Wi-Fi driver wrapper of src/src/wifi.rs: the C driver changes its    *)
(* state and posts events; the event loop task dispatches them, in order,  *)
(* to the subscription of WifiDriver, which mirrors the state in status;   *)
(* the blocking or asynchronous wrapper calls the driver and waits until   *)
(* the mirror shows what it wants to see.                                  *)
(*                                                                         *)
(* How a waiting call is woken is the subject of EventWait, of which this   *)
(* is what tells the two wrappers apart: an event that comes after the     *)
(* matcher was evaluated and before the caller sleeps makes an AsyncWifi    *)
(* look again and is lost on a BlockingWifi.                               *)
(***************************************************************************)
EXTENDS Naturals, Sequences

CONSTANTS
    Modes,      \* the modes set_configuration() is called with
    Outcomes,   \* bound: the events WPS ends with
    MaxQueue    \* bound: the number of events not yet dispatched

(* The events of WPS. The one of a success has no credentials when the     *)
(* driver has connected already, and several when the user is to choose.   *)
WpsEvents ==
    {"StaWpsSuccess", "StaWpsSuccessSeveral", "StaWpsFailed", "StaWpsTimeout",
     "StaWpsPin", "StaWpsPbcOverlap"}

(* What the constants are required to be. *)
ModesAssumption ==
    /\ Modes \subseteq {{"sta"}, {"ap"}, {"sta", "ap"}}
    /\ Modes # {}
    /\ Outcomes \subseteq WpsEvents
    /\ MaxQueue \in Nat

VARIABLES
    mode,       \* the interfaces that are enabled
    sta, ap,    \* the state of the C driver's interfaces
    scanning,   \* the C driver scans
    pairing,    \* WPS is enabled and has not come to an end
    queue,      \* the events the event loop task has yet to dispatch
    status,     \* WifiDriverStatus
    pc,         \* the call the application is in, "idle" if none
    async,      \* who waits is an AsyncWifi, not a BlockingWifi
    stage,      \* what the waiting caller is about to do, or that it sleeps
    success     \* history: the station was connected since connect() began

vars == <<mode, sta, ap, scanning, pairing, queue, status, pc, async, stage,
          success>>

driver == <<mode, sta, ap, scanning, pairing, queue>>

Init ==
    /\ mode \in Modes
    /\ sta = "Stopped" /\ ap = "Stopped"
    /\ scanning = FALSE /\ pairing = FALSE
    /\ queue = <<>>
    /\ status = [sta |-> "Stopped", ap |-> "Stopped", scan |-> "Idle",
                 wps |-> "none"]
    /\ pc = "idle"
    /\ async = FALSE /\ stage = "none"
    /\ success = FALSE

-----------------------------------------------------------------------------
(* The kinds of events that deserialize() makes of the ids of C. Those the *)
(* mirror does not take, unknown ids included, are left out.               *)
Kinds ==
    {"ScanDone", "StaStarted", "StaStopped", "StaConnected", "StaDisconnected",
     "ApStarted", "ApStopped"} \union WpsEvents

(* WpsStatus::try_from(): what is kept of them. *)
Outcome(event) ==
    CASE event = "StaWpsSuccess" -> "SuccessConnected"
      [] event = "StaWpsSuccessSeveral" -> "SuccessMultipleAccessPoints"
      [] event = "StaWpsFailed" -> "Failure"
      [] event = "StaWpsTimeout" -> "Timeout"
      [] event = "StaWpsPin" -> "Pin"
      [] event = "StaWpsPbcOverlap" -> "PbcOverlap"

-----------------------------------------------------------------------------
(* Variants of Mirrored with a bug. *)

(* A lost connection is mirrored as a stopped station. *)
MirroredStopped(st, event) ==
    CASE event = "ApStarted" -> [st EXCEPT !.ap = "Started"]
      [] event = "ApStopped" -> [st EXCEPT !.ap = "Stopped"]
      [] event = "StaStarted" -> [st EXCEPT !.sta = "Started"]
      [] event \in {"StaStopped", "StaDisconnected"} ->
            [st EXCEPT !.sta = "Stopped"]
      [] event = "StaConnected" -> [st EXCEPT !.sta = "Connected"]
      [] event = "ScanDone" -> [st EXCEPT !.scan = "Done"]
      [] event \in WpsEvents -> [st EXCEPT !.wps = Outcome(event)]

-----------------------------------------------------------------------------
(* The match in the closure of subscribe(). *)
Mirrored(st, event) ==
    CASE event = "ApStarted" -> [st EXCEPT !.ap = "Started"]
      [] event = "ApStopped" -> [st EXCEPT !.ap = "Stopped"]
      [] event = "StaStarted" -> [st EXCEPT !.sta = "Started"]
      [] event = "StaStopped" -> [st EXCEPT !.sta = "Stopped"]
      [] event = "StaConnected" -> [st EXCEPT !.sta = "Connected"]
      [] event = "StaDisconnected" -> [st EXCEPT !.sta = "Started"]
      [] event = "ScanDone" -> [st EXCEPT !.scan = "Done"]
      [] event \in WpsEvents -> [st EXCEPT !.wps = Outcome(event)]

IsStarted ==
    /\ "ap" \in mode => status.ap = "Started"
    /\ "sta" \in mode => status.sta \in {"Started", "Connected"}

IsConnected ==
    /\ "ap" \in mode => status.ap = "Started"
    /\ "sta" \in mode => status.sta = "Connected"

(* The matchers of the calls: what they wait for. *)
Arrived(call) ==
    CASE call = "start" -> IsStarted
      [] call = "stop" -> ~ IsStarted
      [] call = "connect" -> IsConnected
      [] call = "disconnect" -> ~ IsConnected
      [] call = "scan" -> status.scan = "Done"
      [] call = "wps" -> status.wps # "none"

(* The calls that wait with CONNECT_TIMEOUT or WPS_TIMEOUT. *)
TimedCalls == {"connect", "wps"}

Post(events) ==
    /\ Len(queue) + Len(events) <= MaxQueue
    /\ queue' = queue \o events

EventIf(condition, event) == IF condition THEN <<event>> ELSE <<>>

-----------------------------------------------------------------------------
(* A variant with a bug. *)

(* The wait does not evaluate the matcher before the first event. *)
WaitFirst(call) ==
    /\ pc = call \o ".wait"
    /\ pc' = call
    /\ async' \in {TRUE} \union IF call = "scan" THEN {} ELSE {FALSE}
    /\ stage' = "sleep"
    /\ UNCHANGED <<driver, status, success>>

-----------------------------------------------------------------------------
(* The C functions, as called from here: what they make of the driver and  *)
(* which events they post.                                                 *)
Start ==
    /\ sta' = IF "sta" \in mode /\ sta = "Stopped" THEN "Started" ELSE sta
    /\ ap' = IF "ap" \in mode THEN "Started" ELSE ap
    /\ Post(EventIf(sta' # sta, "StaStarted") \o EventIf(ap' # ap, "ApStarted"))
    /\ UNCHANGED <<mode, scanning, pairing>>

Stop ==
    /\ sta' = "Stopped" /\ ap' = "Stopped" /\ scanning' = FALSE
    /\ Post(EventIf(scanning, "ScanDone")
            \o EventIf(sta \in {"Connecting", "Connected"}, "StaDisconnected")
            \o EventIf(sta # "Stopped", "StaStopped")
            \o EventIf(ap # "Stopped", "ApStopped"))
    /\ UNCHANGED <<mode, pairing>>

Connect ==
    /\ sta = "Started"
    /\ sta' = "Connecting"
    /\ UNCHANGED <<mode, ap, scanning, pairing, queue>>

Disconnect ==
    /\ sta # "Stopped"
    /\ sta' = "Started"
    /\ Post(EventIf(sta # "Started", "StaDisconnected"))
    /\ UNCHANGED <<mode, ap, scanning, pairing>>

Effect(call) ==
    CASE call = "start" -> Start
      [] call = "stop" -> Stop
      [] call = "connect" -> Connect
      [] call = "disconnect" -> Disconnect

(* What the radio does on its own: the station gets or loses its           *)
(* connection, a scan or WPS comes to an end; a PIN does not end WPS.      *)
Radio ==
    /\ \/ /\ sta = "Connecting" /\ sta' = "Connected" /\ Post(<<"StaConnected">>)
          /\ UNCHANGED <<scanning, pairing>>
       \/ /\ sta \in {"Connecting", "Connected"} /\ sta' = "Started"
          /\ Post(<<"StaDisconnected">>)
          /\ UNCHANGED <<scanning, pairing>>
       \/ /\ scanning /\ scanning' = FALSE /\ Post(<<"ScanDone">>)
          /\ UNCHANGED <<sta, pairing>>
       \/ \E event \in Outcomes :
             /\ pairing /\ pairing' = (event = "StaWpsPin")
             /\ event = "StaWpsPin" => queue = <<>> /\ status.wps = "none"
             /\ Post(<<event>>)
          /\ UNCHANGED <<sta, scanning>>
    /\ success' = \/ success
                  \/ pc \in {"connect.wait", "connect"} /\ sta' = "Connected"
    /\ UNCHANGED <<mode, ap, status, pc, async, stage>>

(* The event loop task: WifiDriver's handler, then that of the wait, whose  *)
(* notify_all() reaches nobody who does not sleep yet. What an AsyncWifi    *)
(* is notified of before is kept for it: it sleeps from the moment its     *)
(* matcher was evaluated.                                                  *)
Dispatch ==
    /\ queue # <<>>
    /\ status' = Mirrored(status, Head(queue))
    /\ queue' = Tail(queue)
    /\ stage' = IF stage = "sleep" THEN "look" ELSE stage
    /\ UNCHANGED <<mode, sta, ap, scanning, pairing, pc, async, success>>

-----------------------------------------------------------------------------
(* The application. *)

(* set_configuration(), here before start() only. *)
SetConfiguration ==
    /\ pc = "idle"
    /\ sta = "Stopped" /\ ap = "Stopped"
    /\ mode' \in Modes
    /\ UNCHANGED <<sta, ap, scanning, pairing, queue, status, pc, async, stage,
                   success>>

(* A call of WifiDriver itself, which does not wait. *)
Issue(call) ==
    /\ pc = "idle"
    /\ Effect(call)
    /\ UNCHANGED <<status, pc, async, stage, success>>

(* The same call of BlockingWifi or AsyncWifi: the driver is called, only   *)
(* then the wait subscribes to the events.                                 *)
Call(call) ==
    /\ pc = "idle"
    /\ Effect(call)
    /\ pc' = call \o ".wait"
    /\ UNCHANGED <<status, async, stage, success>>

(* start_scan() first starts the C driver's scan ...                       *)
StartScan ==
    /\ pc = "idle"
    /\ sta # "Stopped" /\ ~ scanning
    /\ scanning' = TRUE
    /\ pc' = "scan.mark"
    /\ UNCHANGED <<mode, sta, ap, pairing, queue, status, async, stage, success>>

(* ... and then notes it in the status. AsyncWifi::scan() goes on to wait.  *)
MarkScan ==
    /\ pc = "scan.mark"
    /\ status' = [status EXCEPT !.scan = "Started"]
    /\ pc' \in {"idle", "scan.wait"}
    /\ UNCHANGED <<driver, async, stage, success>>

(* stop_scan(): the C driver's scan ends without an event. *)
StopScan ==
    /\ pc = "idle"
    /\ scanning' = FALSE
    /\ status' = [status EXCEPT !.scan = "Idle"]
    /\ UNCHANGED <<mode, sta, ap, pairing, queue, pc, async, stage, success>>

(* start_wps(): WPS is enabled and started first ... *)
StartWps ==
    /\ pc = "idle"
    /\ sta = "Started" /\ ~ pairing
    /\ pairing' = TRUE
    /\ pc' = "wps.mark"
    /\ UNCHANGED <<mode, sta, ap, scanning, queue, status, async, stage, success>>

(* ... and the outcome of an earlier one forgotten then. *)
MarkWps ==
    /\ pc = "wps.mark"
    /\ status' = [status EXCEPT !.wps = "none"]
    /\ pc' = "wps.wait"
    /\ UNCHANGED <<driver, async, stage, success>>

(* The wait subscribes to the events, then evaluates the matcher. A         *)
(* BlockingWifi does not wait for a scan.                                  *)
Wait(call) ==
    /\ pc = call \o ".wait"
    /\ pc' = call
    /\ async' \in {TRUE} \union IF call = "scan" THEN {} ELSE {FALSE}
    /\ stage' = "look"
    /\ UNCHANGED <<driver, status, success>>

(* The matcher is evaluated; a call that has arrived returns Ok. start_wps()*)
(* takes the outcome and disables WPS.                                     *)
Look ==
    /\ stage = "look"
    /\ IF Arrived(pc)
       THEN /\ pc' = "idle" /\ stage' = "none" /\ async' = FALSE
            /\ success' = FALSE
            /\ IF pc = "wps"
               THEN /\ status' = [status EXCEPT !.wps = "none"]
                    /\ pairing' = FALSE
               ELSE UNCHANGED <<status, pairing>>
       ELSE /\ stage' = IF async THEN "sleep" ELSE "park"
            /\ UNCHANGED <<pc, status, pairing, async, success>>
    /\ UNCHANGED <<mode, sta, ap, scanning, queue>>

(* wait_while(): the caller goes to sleep on the condition variable.       *)
Park ==
    /\ stage = "park"
    /\ stage' = "sleep"
    /\ UNCHANGED <<driver, status, pc, async, success>>

(* The condition variable of a BlockingWifi may wake without an event.     *)
SpuriousWakeup ==
    /\ stage = "sleep" /\ ~ async
    /\ stage' = "look"
    /\ UNCHANGED <<driver, status, pc, async, success>>

(* The timeout, or the end of the future of an AsyncWifi call: the driver   *)
(* goes on with what it was told.                                          *)
GiveUp(call) ==
    /\ pc = call
    /\ call \in TimedCalls \/ async
    /\ pc' = "idle" /\ stage' = "none" /\ async' = FALSE
    /\ success' = FALSE
    /\ UNCHANGED <<driver, status>>

-----------------------------------------------------------------------------
Calls == {"start", "stop", "connect", "disconnect"}

Waits == Calls \union {"scan", "wps"}

Next ==
    \/ Look \/ Park \/ SpuriousWakeup \/ Radio \/ Dispatch \/ SetConfiguration
    \/ \E call \in Calls : Issue(call) \/ Call(call)
    \/ StartScan \/ MarkScan \/ StopScan \/ StartWps \/ MarkWps
    \/ \E call \in Waits : Wait(call) \/ GiveUp(call)

Spec == Init /\ [][Next]_vars

(* The event loop task runs, the caller runs, timeouts expire. Nothing     *)
(* makes an application give up a call without a timeout.                  *)
Fairness ==
    /\ WF_vars(Dispatch)
    /\ WF_vars(Look \/ Park \/ \E call \in Waits : Wait(call))
    /\ \A call \in TimedCalls : WF_vars(GiveUp(call))

FairSpec == Spec /\ Fairness

-----------------------------------------------------------------------------
(* Properties *)

(* The values the variables take. *)
TypeOK ==
    /\ mode \in Modes
    /\ sta \in {"Stopped", "Started", "Connecting", "Connected"}
    /\ ap \in {"Stopped", "Started"}
    /\ scanning \in BOOLEAN /\ pairing \in BOOLEAN
    /\ async \in BOOLEAN /\ stage \in {"none", "look", "park", "sleep"}
    /\ success \in BOOLEAN
    /\ queue \in Seq(Kinds) /\ Len(queue) <= MaxQueue
    /\ status \in [sta : {"Stopped", "Started", "Connected"},
                   ap : {"Stopped", "Started"},
                   scan : {"Idle", "Started", "Done"},
                   wps : {"none"} \union {Outcome(event) : event \in WpsEvents}]
    /\ pc \in {"idle", "scan.mark", "scan.wait", "wps.mark", "wps.wait"}
                 \union Waits \union {call \o ".wait" : call \in Calls}

(* The latest of some events in the queue, and the status it is mirrored   *)
(* in; the status as it is when there is none.                             *)
Latest(q, events) ==
    {q[k] : k \in {k \in DOMAIN q :
        q[k] \in events /\ \A l \in DOMAIN q : q[l] \in events => l <= k}}

Final(events) ==
    IF Latest(queue, events) = {} THEN {status}
    ELSE {Mirrored(status, event) : event \in Latest(queue, events)}

StaEvents == {"StaStarted", "StaStopped", "StaConnected", "StaDisconnected"}
ApEvents == {"ApStarted", "ApStopped"}

(* The mirror lags, but does not go wrong: once the events on their way    *)
(* are dispatched it shows the interfaces as they are.                     *)
MirrorCatchesUp ==
    /\ \A st \in Final(StaEvents) :
          st.sta = IF sta = "Connecting" THEN "Started" ELSE sta
    /\ \A st \in Final(ApEvents) : st.ap = ap

(* The calls that wait without a timeout return, those of a BlockingWifi    *)
(* unless it sleeps through the very event it waits for.                   *)
Overslept(call) == pc = call /\ stage = "sleep" /\ Arrived(call) /\ ~ async

CallsReturn ==
    \A call \in {"start", "stop", "disconnect"} :
        (pc = call) ~> (pc # call \/ Overslept(call))

(* wifi.rs:2741: start() is "a blocking call that returns once the wifi     *)
(* driver has started"; so it is said of stop() and of disconnect().       *)
BlockingCallsReturn ==
    \A call \in {"start", "stop", "disconnect"} : (pc = call) ~> (pc # call)

(* wifi.rs:2755: connect() "returns once the wifi driver is connected".    *)
ConnectMeansConnected ==
    [][Look /\ pc = "connect" /\ Arrived(pc) => success]_vars

(* wifi.rs:3012: scan() "awaits until the scan is complete": it does not    *)
(* wait on when the scan is complete and its event has been dispatched.    *)
ScanEndIsNoticed ==
    pc = "scan" /\ stage = "sleep" /\ ~ scanning /\ queue = <<>> => FALSE

(* ... and does not go on before.                                          *)
ScanMeansScanned ==
    [][Look /\ pc = "scan" /\ Arrived(pc) => ~ scanning]_vars

(* wifi.rs:2807: start_wps() waits "until it connects, fails or times out": *)
(* it does not wait on when the outcome has been dispatched.               *)
WpsEndIsNoticed ==
    pc = "wps" /\ stage = "sleep" /\ ~ pairing /\ queue = <<>> => FALSE
=============================================================================
