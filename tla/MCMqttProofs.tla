----------------------------- MODULE MCMqttProofs -----------------------------
(***************************************************************************)
(* Proofs about the worker of the asynchronous client, and the theorems    *)
(* about the blocking and the asynchronous connection, carried over to the *)
(* composition MCMqtt: a behaviour of the composition is, for the part it  *)
(* is about, a behaviour of that part.                                     *)
(***************************************************************************)
EXTENDS MCMqtt, TLAPS

BlockingProofs == INSTANCE MqttConnectionProofs WITH
    Conn <- Owner, Async <- FALSE

AwaitingProofs == INSTANCE MqttConnectionProofs WITH
    Conn <- Owner, Async <- TRUE

-----------------------------------------------------------------------------
(* The asynchronous client and its worker, for any number of calls, each   *)
(* of which may be cancelled at its await points. What makes the           *)
(* invariants inductive is where the last command is: between done() and   *)
(* the end of the match in the worker it is on its way, and has not been   *)
(* run; otherwise it has been run once, and the work item has its result.  *)

WorkExists == call \notin {"dropping", "gone"}

(* Where the two are, in the channel and in their code. *)
WorkPoints ==
    /\ pc[Task] \in {"idle", "offer", "hand", "gone"}
    /\ pc[Task] \in {"offer", "hand"} => wpc = "loop"
    /\ pc[Task] = "gone" => wpc = "exit"
    /\ wpc = "exit" => state = "Quit"
    /\ pc[Owner] \in
         CASE call = "idle" -> {"idle", "using"}
           [] call \in {"asking", "result"} -> {"aget", "await"}
           [] call = "item" -> {"using"}
           [] call \in {"submitted", "dropping"} -> {"idle"}
           [] OTHER -> {"gone"}

(* The work item is on loan while the client uses it, and only the drop of *)
(* the client closes the channel.                                          *)
WorkLending ==
    /\ state = "Data" => pc[Task] = "hand"
    /\ state = "Quit" <=> call = "gone"
    /\ using # None <=> pc[Owner] = "using"
    /\ using # None => state = "Data"

(* A command has been given to the worker and not been run. *)
WorkPending == wpc = "run" \/ (pc[Task] = "hand" /\ state = "Empty")

WorkCommanded ==
    /\ command <= calls
    /\ call \in {"asking", "item"} => command < calls
    /\ call \in {"submitted", "result"} => command = calls /\ calls > 0
    /\ \A c \in Work!Commands : c > command => executed[c] = 0

WorkRunOnce ==
    WorkExists =>
        /\ \A c \in Work!Commands : executed[c] <= 1
        /\ WorkPending => command > 0 /\ executed[command] = 0
        /\ ~ WorkPending => result = command
        /\ ~ WorkPending /\ command > 0 => executed[command] = 1

WorkIInv == Work!TypeOK /\ WorkPoints /\ WorkLending /\ WorkCommanded /\ WorkRunOnce

-----------------------------------------------------------------------------
LEMMA WorkInitIInv == ASSUME Work!CallsAssumption, Work!Init PROVE WorkIInv
<1> USE DEF Work!CallsAssumption, Work!Init, Work!Fresh, Work!Ch!Init,
        Work!Ch!Threads, Work!Commands
<1>1. Work!TypeOK
  <2>1. Work!Ch!TypeOK
    BY DEF Work!Ch!TypeOK, Work!Ch!ControlPoints
  <2>2. command \in 0 .. MaxCalls /\ result \in 0 .. MaxCalls /\ calls \in 0 .. MaxCalls
    OBVIOUS
  <2>3. executed \in [Work!Commands -> Nat]
    OBVIOUS
  <2> QED
    BY <2>1, <2>2, <2>3 DEF Work!TypeOK
<1>2. WorkPoints /\ WorkLending
  BY DEF WorkPoints, WorkLending
<1>3. WorkCommanded /\ WorkRunOnce
  BY DEF WorkCommanded, WorkRunOnce, WorkExists, WorkPending
<1> QED
  BY <1>1, <1>2, <1>3 DEF WorkIInv

(* The steps of the worker. *)
LEMMA WorkWorkerKeepsIInv ==
    ASSUME Work!CallsAssumption, WorkIInv, Work!WorkerStep PROVE WorkIInv'
<1> USE DEF Work!CallsAssumption, WorkIInv, Work!TypeOK, WorkPoints,
        WorkLending, WorkCommanded, WorkRunOnce,
            WorkExists, WorkPending, Work!clientVars, Work!chVars, Work!Commands, Work!Ch!TypeOK,
            Work!Ch!Threads, Work!Ch!ControlPoints, Work!Ch!Awake
<1>1. CASE Work!WorkerShares
  <2>1. CASE Work!Ch!Share(Task)
    BY <1>1, <2>1 DEF Work!WorkerShares, Work!Ch!Share
  <2>2. CASE Work!Ch!Offer(Task)
    BY <1>1, <2>2 DEF Work!WorkerShares, Work!Ch!Offer
  <2>3. CASE Work!Ch!Sleep(Task)
    BY <1>1, <2>3 DEF Work!WorkerShares, Work!Ch!Sleep
  <2> QED
    BY <1>1, <2>1, <2>2, <2>3 DEF Work!WorkerShares
<1>2. CASE Work!ShareTrue
  BY <1>2 DEF Work!ShareTrue, Work!Ch!Return
<1>3. CASE Work!Run
  BY <1>3 DEF Work!Run
<1>4. CASE Work!ShareFalse
  BY <1>4 DEF Work!ShareFalse, Work!Ch!Refused
<1>5. CASE Work!WorkerExits
  BY <1>5 DEF Work!WorkerExits, Work!Ch!DropArc, Work!Ch!AfterRelease,
     Work!Ch!Holds
<1> QED
  BY <1>1, <1>2, <1>3, <1>4, <1>5 DEF Work!WorkerStep

(* The worker keeps its Arc as long as the channel is open. *)
LEMMA WorkWorkerHolds ==
    ASSUME Work!CallsAssumption, WorkIInv, state # "Quit"
    PROVE  ~ Work!Ch!Freed /\ \A s : Work!Ch!AfterRelease(Owner, s) = s
  BY DEF Work!CallsAssumption, WorkIInv, WorkPoints, Work!Ch!Freed,
     Work!Ch!AfterRelease, Work!Ch!Holds,
         Work!Ch!Threads

(* The steps of the client. *)
LEMMA WorkClientKeepsIInv ==
    ASSUME Work!CallsAssumption, WorkIInv,
           Work!ClientStep \/ Work!Execute \/ Work!Cancel \/ Work!DropUnblocker
    PROVE  WorkIInv'
<1> USE DEF Work!CallsAssumption, WorkIInv, Work!TypeOK, WorkPoints,
        WorkLending, WorkCommanded, WorkRunOnce,
            WorkExists, WorkPending, Work!clientVars, Work!chVars, Work!Commands, Work!Ch!TypeOK,
            Work!Ch!Threads, Work!Ch!ControlPoints, Work!Ch!Awake, Work!Ch!Outside
<1>1. CASE Work!Execute
  BY <1>1 DEF Work!Execute, Work!Ch!Get
<1>2. CASE Work!Poll
  BY <1>2, ZenonT(60) DEF Work!Poll, Work!Ch!GetAwait, Work!Ch!Notified
<1>3. CASE Work!GotItem
  BY <1>3, WorkWorkerHolds DEF Work!GotItem, Work!Ch!Got
<1>4. CASE Work!Submit
  <2>1. /\ state = "Data" /\ ~ Work!Ch!Freed /\ lent = Task /\ pc[Task] = "hand"
        /\ wpc = "loop" /\ call = "item" /\ command < calls
    BY <1>4, WorkWorkerHolds DEF Work!Submit
  <2>2. /\ state' = "Empty" /\ lent' = None /\ waiting' = {} /\ using' = None
        /\ handled' = [handled EXCEPT ![Task] = TRUE]
        /\ pc' = [pc EXCEPT ![Owner] = "idle"]
        /\ command' = calls /\ call' = "submitted"
        /\ UNCHANGED <<notified, calls, wpc, result, executed>>
    BY <1>4, <2>1 DEF Work!Submit, Work!Ch!Done
  <2>3. Work!TypeOK'
    BY <2>1, <2>2
  <2>4. WorkPoints' /\ WorkLending'
    BY <2>1, <2>2
  <2>5. WorkCommanded' /\ WorkRunOnce'
    BY <2>1, <2>2
  <2> QED
    BY <2>3, <2>4, <2>5
<1>5. CASE Work!AwaitResult
  BY <1>5 DEF Work!AwaitResult, Work!Ch!Get
<1>6. CASE Work!GotResult
  BY <1>6, WorkWorkerHolds DEF Work!GotResult, Work!Ch!Got
<1>7. CASE Work!Cancel
  BY <1>7, WorkWorkerHolds DEF Work!Cancel, Work!Ch!Cancel
<1>8. CASE Work!DropUnblocker
  BY <1>8, WorkWorkerHolds DEF Work!DropUnblocker, Work!Ch!Done
<1>9. CASE Work!DropReceiver
  BY <1>9, WorkWorkerHolds DEF Work!DropReceiver, Work!Ch!DropReceiver
<1> QED
  BY <1>1, <1>2, <1>3, <1>4, <1>5, <1>6, <1>7, <1>8, <1>9 DEF Work!ClientStep

LEMMA WorkStepKeepsIInv ==
    ASSUME Work!CallsAssumption, WorkIInv, [Work!Next]_(Work!vars)
    PROVE  WorkIInv'
<1>1. CASE UNCHANGED Work!vars
  BY <1>1 DEF Work!vars, Work!chVars, Work!clientVars, WorkIInv, Work!TypeOK,
     WorkPoints, WorkLending,
              WorkCommanded, WorkRunOnce, WorkExists, WorkPending,
              Work!Ch!TypeOK
<1> QED
  BY <1>1, WorkWorkerKeepsIInv, WorkClientKeepsIInv DEF Work!Next

(* In every reachable state the inductive invariant holds. *)
THEOREM WorkInvariance ==
    ASSUME Work!CallsAssumption PROVE Work!Spec => []WorkIInv
<1>1. Work!Init => WorkIInv
  BY WorkInitIInv
<1>2. WorkIInv /\ [Work!Next]_(Work!vars) => WorkIInv'
  BY WorkStepKeepsIInv
<1> QED
  BY <1>1, <1>2, PTL DEF Work!Spec

(* The channel, the worker and the client keep to their types. *)
THEOREM WorkTypeCorrect ==
    ASSUME Work!CallsAssumption PROVE Work!Spec => []Work!TypeOK
  BY WorkInvariance, PTL DEF WorkIInv

(* Worker and client are never inside the work item at the same time, the  *)
(* unwrap() calls of execute() do not panic, and no command is run twice   *)
(* while the client exists (unblocker.rs, mqtt/client.rs).                 *)
THEOREM WorkSharingSafety ==
    ASSUME Work!CallsAssumption
    PROVE  Work!Spec => [](Work!NoRace /\ Work!UnwrapSafe /\ Work!OnceWhileOpen)
<1>1. ASSUME WorkIInv PROVE Work!NoRace /\ Work!UnwrapSafe /\ Work!OnceWhileOpen
  <2>1. Work!NoRace
    BY <1>1 DEF WorkIInv, WorkPoints, WorkLending, Work!NoRace
  <2>2. Work!UnwrapSafe
    BY <1>1, WorkWorkerHolds DEF WorkIInv, WorkLending, Work!UnwrapSafe
  <2>3. Work!OnceWhileOpen
    BY <1>1 DEF WorkIInv, WorkRunOnce, WorkExists, Work!OnceWhileOpen
  <2> QED
    BY <2>1, <2>2, <2>3
<1> QED
  BY <1>1, WorkInvariance, PTL

(* execute() returns the result of its own command, which has been run     *)
(* once, whatever calls were cancelled before it.                          *)
THEOREM WorkResultSafety ==
    ASSUME Work!CallsAssumption PROVE Work!Spec => Work!OwnResult
<1>1. WorkIInv /\ [Work!Next]_(Work!vars) => [Work!ReturnsOwn]_(Work!vars)
  <2> SUFFICES ASSUME WorkIInv, Work!Next, call = "result", using' # None
               PROVE  result = calls /\ executed[calls] = 1
    BY DEF Work!ReturnsOwn
  <2>1. using = None /\ pc[Owner] \in {"aget", "await"}
    BY DEF WorkIInv, WorkPoints, WorkLending
  <2>2. Work!GotResult
    BY <2>1, Zenon
    DEF Work!Next, Work!WorkerStep, Work!ClientStep, Work!WorkerShares,
    Work!ShareTrue, Work!Run, Work!ShareFalse,
        Work!WorkerExits, Work!Poll, Work!GotItem, Work!Submit,
        Work!AwaitResult, Work!DropReceiver, Work!Execute,
        Work!Cancel, Work!DropUnblocker, Work!chVars, Work!Ch!Share,
        Work!Ch!Offer, Work!Ch!Sleep, Work!Ch!Return,
        Work!Ch!Refused, Work!Ch!DropArc, Work!Ch!GetAwait, Work!Ch!Notified,
        Work!Ch!Cancel
  <2>3. state = "Data" /\ ~ WorkPending /\ command = calls /\ calls > 0
    BY <2>2 DEF Work!GotResult, Work!Ch!Got, WorkIInv, Work!TypeOK, WorkPoints,
       WorkLending, WorkPending,
                WorkCommanded
  <2> QED
    BY <2>3 DEF WorkIInv, WorkRunOnce, WorkExists
<1> QED
  BY <1>1, WorkInvariance, PTL DEF Work!Spec, Work!OwnResult

-----------------------------------------------------------------------------
(* A behaviour is about one part, and is a behaviour of it. *)
LEMMA Parts ==
    Spec => \/ [](part = "work") /\ Work!Spec
            \/ [](part = "blocking") /\ Blocking!Spec
            \/ [](part = "awaiting") /\ Awaiting!Spec
<1>1. Init => \/ part = "work" /\ Work!Init
              \/ part = "blocking" /\ Blocking!Init
              \/ part = "awaiting" /\ Awaiting!Init
  BY DEF Init, Work!Init, Blocking!Init, Awaiting!Init, Blocking!Fresh,
         Awaiting!Fresh, Blocking!Ch!Init, Awaiting!Ch!Init,
         Blocking!Ch!Threads, Awaiting!Ch!Threads
<1>2. part = "work" /\ [Next]_vars =>
        (part = "work")' /\ [Work!Next]_(Work!vars)
  BY DEF Next, vars, workVars, Work!vars, Work!chVars, Work!clientVars
<1>3. part = "blocking" /\ [Next]_vars =>
        (part = "blocking")' /\ [Blocking!Next]_(Blocking!vars)
  BY DEF Next, vars, connVars, Blocking!vars, Blocking!chVars
<1>4. part = "awaiting" /\ [Next]_vars =>
        (part = "awaiting")' /\ [Awaiting!Next]_(Awaiting!vars)
  BY DEF Next, vars, connVars, Awaiting!vars, Awaiting!chVars
<1>5. part = "work" /\ Work!Init /\ [][Next]_vars
        => [](part = "work") /\ Work!Spec
  BY <1>2, PTL DEF Work!Spec
<1>6. part = "blocking" /\ Blocking!Init /\ [][Next]_vars
        => [](part = "blocking") /\ Blocking!Spec
  BY <1>3, PTL DEF Blocking!Spec
<1>7. part = "awaiting" /\ Awaiting!Init /\ [][Next]_vars
        => [](part = "awaiting") /\ Awaiting!Spec
  BY <1>4, PTL DEF Awaiting!Spec
<1> QED
  BY <1>1, <1>5, <1>6, <1>7, PTL DEF Spec

(* The modules with the proofs are about the same specifications. *)
LEMMA SameSpecs ==
    /\ Blocking!Spec <=> BlockingProofs!Spec
    /\ Awaiting!Spec <=> AwaitingProofs!Spec
<1>2. Blocking!Spec <=> BlockingProofs!Spec
  BY
  DEF Blocking!Spec, BlockingProofs!Spec, Blocking!Init,
      BlockingProofs!Init, Blocking!Next, BlockingProofs!Next,
      Blocking!vars, BlockingProofs!vars, Blocking!chVars,
      BlockingProofs!chVars, Blocking!Fresh, BlockingProofs!Fresh,
      Blocking!Event, BlockingProofs!Event,
      Blocking!CallbackWaits, BlockingProofs!CallbackWaits,
      Blocking!CallbackEnds, BlockingProofs!CallbackEnds,
      Blocking!DropClient, BlockingProofs!DropClient,
      Blocking!TaskStops, BlockingProofs!TaskStops,
      Blocking!DropCallback, BlockingProofs!DropCallback,
      Blocking!NextCall, BlockingProofs!NextCall,
      Blocking!NextGets, BlockingProofs!NextGets,
      Blocking!NextWaits, BlockingProofs!NextWaits,
      Blocking!NextReturns, BlockingProofs!NextReturns,
      Blocking!NextFails, BlockingProofs!NextFails,
      Blocking!CancelNext, BlockingProofs!CancelNext,
      Blocking!DropConnection, BlockingProofs!DropConnection,
      Blocking!TaskStep, BlockingProofs!TaskStep,
      Blocking!ConnStep, BlockingProofs!ConnStep,
      Blocking!Ch!Threads, BlockingProofs!Ch!Threads,
      Blocking!Ch!Holds, BlockingProofs!Ch!Holds,
      Blocking!Ch!Freed, BlockingProofs!Ch!Freed,
      Blocking!Ch!Awake, BlockingProofs!Ch!Awake,
      Blocking!Ch!Init, BlockingProofs!Ch!Init,
      Blocking!Ch!AfterRelease, BlockingProofs!Ch!AfterRelease,
      Blocking!Ch!Outside, BlockingProofs!Ch!Outside,
      Blocking!Ch!Share, BlockingProofs!Ch!Share,
      Blocking!Ch!Offer, BlockingProofs!Ch!Offer,
      Blocking!Ch!Refused, BlockingProofs!Ch!Refused,
      Blocking!Ch!Sleep, BlockingProofs!Ch!Sleep,
      Blocking!Ch!Return, BlockingProofs!Ch!Return,
      Blocking!Ch!DropArc, BlockingProofs!Ch!DropArc,
      Blocking!Ch!Get, BlockingProofs!Ch!Get, Blocking!Ch!Got,
      BlockingProofs!Ch!Got, Blocking!Ch!GetAwait,
      BlockingProofs!Ch!GetAwait, Blocking!Ch!Notified,
      BlockingProofs!Ch!Notified, Blocking!Ch!Cancel,
      BlockingProofs!Ch!Cancel, Blocking!Ch!Done,
      BlockingProofs!Ch!Done, Blocking!Ch!DropReceiver,
      BlockingProofs!Ch!DropReceiver, Blocking!Ch!DropGuard,
      BlockingProofs!Ch!DropGuard, Blocking!Ch!Quit,
      BlockingProofs!Ch!Quit, Blocking!Ch!GotQuit,
      BlockingProofs!Ch!GotQuit, Blocking!Ch!GetSleep,
      BlockingProofs!Ch!GetSleep
<1>3. Awaiting!Spec <=> AwaitingProofs!Spec
  BY
  DEF Awaiting!Spec, AwaitingProofs!Spec, Awaiting!Init,
      AwaitingProofs!Init, Awaiting!Next, AwaitingProofs!Next,
      Awaiting!vars, AwaitingProofs!vars, Awaiting!chVars,
      AwaitingProofs!chVars, Awaiting!Fresh, AwaitingProofs!Fresh,
      Awaiting!Event, AwaitingProofs!Event,
      Awaiting!CallbackWaits, AwaitingProofs!CallbackWaits,
      Awaiting!CallbackEnds, AwaitingProofs!CallbackEnds,
      Awaiting!DropClient, AwaitingProofs!DropClient,
      Awaiting!TaskStops, AwaitingProofs!TaskStops,
      Awaiting!DropCallback, AwaitingProofs!DropCallback,
      Awaiting!NextCall, AwaitingProofs!NextCall,
      Awaiting!NextGets, AwaitingProofs!NextGets,
      Awaiting!NextWaits, AwaitingProofs!NextWaits,
      Awaiting!NextReturns, AwaitingProofs!NextReturns,
      Awaiting!NextFails, AwaitingProofs!NextFails,
      Awaiting!CancelNext, AwaitingProofs!CancelNext,
      Awaiting!DropConnection, AwaitingProofs!DropConnection,
      Awaiting!TaskStep, AwaitingProofs!TaskStep,
      Awaiting!ConnStep, AwaitingProofs!ConnStep,
      Awaiting!Ch!Threads, AwaitingProofs!Ch!Threads,
      Awaiting!Ch!Holds, AwaitingProofs!Ch!Holds,
      Awaiting!Ch!Freed, AwaitingProofs!Ch!Freed,
      Awaiting!Ch!Awake, AwaitingProofs!Ch!Awake,
      Awaiting!Ch!Init, AwaitingProofs!Ch!Init,
      Awaiting!Ch!AfterRelease, AwaitingProofs!Ch!AfterRelease,
      Awaiting!Ch!Outside, AwaitingProofs!Ch!Outside,
      Awaiting!Ch!Share, AwaitingProofs!Ch!Share,
      Awaiting!Ch!Offer, AwaitingProofs!Ch!Offer,
      Awaiting!Ch!Refused, AwaitingProofs!Ch!Refused,
      Awaiting!Ch!Sleep, AwaitingProofs!Ch!Sleep,
      Awaiting!Ch!Return, AwaitingProofs!Ch!Return,
      Awaiting!Ch!DropArc, AwaitingProofs!Ch!DropArc,
      Awaiting!Ch!Get, AwaitingProofs!Ch!Get, Awaiting!Ch!Got,
      AwaitingProofs!Ch!Got, Awaiting!Ch!GetAwait,
      AwaitingProofs!Ch!GetAwait, Awaiting!Ch!Notified,
      AwaitingProofs!Ch!Notified, Awaiting!Ch!Cancel,
      AwaitingProofs!Ch!Cancel, Awaiting!Ch!Done,
      AwaitingProofs!Ch!Done, Awaiting!Ch!DropReceiver,
      AwaitingProofs!Ch!DropReceiver, Awaiting!Ch!DropGuard,
      AwaitingProofs!Ch!DropGuard, Awaiting!Ch!Quit,
      AwaitingProofs!Ch!Quit, Awaiting!Ch!GotQuit,
      AwaitingProofs!Ch!GotQuit, Awaiting!Ch!GetSleep,
      AwaitingProofs!Ch!GetSleep
<1> QED
  BY <1>2, <1>3

LEMMA SameAssumptions ==
    /\ BlockingProofs!ConnectionAssumption
    /\ AwaitingProofs!ConnectionAssumption
<1>1. Blocking!ConnectionAssumption
  BY Assumptions
<1> QED
  BY <1>1
  DEF Blocking!ConnectionAssumption, BlockingProofs!ConnectionAssumption,
      AwaitingProofs!ConnectionAssumption

-----------------------------------------------------------------------------
(* The variables of the part that runs keep to their types. *)
THEOREM TypeCorrect == Spec => []TypeOK
<1>1. Work!Spec => []Work!TypeOK
  BY Assumptions, WorkTypeCorrect
<1>2. BlockingProofs!Spec => []Blocking!TypeOK
  <2>1. BlockingProofs!TypeOK <=> Blocking!TypeOK
    BY DEF Blocking!TypeOK, BlockingProofs!TypeOK, Blocking!Ch!TypeOK,
           BlockingProofs!Ch!TypeOK, Blocking!Ch!Threads,
           BlockingProofs!Ch!Threads, Blocking!Ch!ControlPoints,
           BlockingProofs!Ch!ControlPoints
  <2> QED
    BY <2>1, SameAssumptions, BlockingProofs!TypeCorrect, PTL
<1>3. AwaitingProofs!Spec => []Awaiting!TypeOK
  <2>1. AwaitingProofs!TypeOK <=> Awaiting!TypeOK
    BY DEF Awaiting!TypeOK, AwaitingProofs!TypeOK, Awaiting!Ch!TypeOK,
           AwaitingProofs!Ch!TypeOK, Awaiting!Ch!Threads,
           AwaitingProofs!Ch!Threads, Awaiting!Ch!ControlPoints,
           AwaitingProofs!Ch!ControlPoints
  <2> QED
    BY <2>1, SameAssumptions, AwaitingProofs!TypeCorrect, PTL
<1>4. /\ part = "work" /\ Work!TypeOK => TypeOK
      /\ part = "blocking" /\ Blocking!TypeOK => TypeOK
      /\ part = "awaiting" /\ Awaiting!TypeOK => TypeOK
  BY DEF TypeOK
<1> QED
  BY <1>1, <1>2, <1>3, <1>4, Parts, SameSpecs, PTL

(* The worker and the client are never inside the work item at the same    *)
(* time, the unwrap() calls of execute() find the channel open, and while  *)
(* the client exists no command is run twice.                              *)
THEOREM SharingSafety == Spec => []WorkItemIsShared
<1>1. Work!Spec => [](Work!NoRace /\ Work!UnwrapSafe /\ Work!OnceWhileOpen)
  BY Assumptions, WorkSharingSafety
<1>2. /\ Work!NoRace /\ Work!UnwrapSafe /\ Work!OnceWhileOpen => WorkItemIsShared
      /\ part = "blocking" => WorkItemIsShared
      /\ part = "awaiting" => WorkItemIsShared
  BY DEF WorkItemIsShared
<1> QED
  BY <1>1, <1>2, Parts, SameSpecs, PTL

(* execute() returns the result of its own command, also after calls that  *)
(* were cancelled.                                                         *)
THEOREM ResultSafety == Spec => OwnResult
<1>1. Work!Spec => [][Work!ReturnsOwn]_(Work!vars)
  BY Assumptions, WorkResultSafety DEF Work!OwnResult
<1>2. part = "work" /\ [Next]_vars /\ [Work!ReturnsOwn]_(Work!vars)
        => [part = "work" => Work!ReturnsOwn]_vars
  BY DEF Next, vars, workVars, connVars, Work!vars, Work!chVars, Work!clientVars
<1>3. /\ part = "blocking" => [part = "work" => Work!ReturnsOwn]_vars
      /\ part = "awaiting" => [part = "work" => Work!ReturnsOwn]_vars
  OBVIOUS
<1> QED
  BY <1>1, <1>2, <1>3, Parts, SameSpecs, PTL DEF Spec, OwnResult

(* What next() has returned is the event of a callback that has not        *)
(* returned, of a client that is not destroyed.                            *)
THEOREM LoanSafety == Spec => []BorrowedEventIsAlive
<1>1. /\ BlockingProofs!Spec => []BlockingProofs!BorrowedEventIsAlive
      /\ AwaitingProofs!Spec => []AwaitingProofs!BorrowedEventIsAlive
  BY SameAssumptions, BlockingProofs!LoanSafety, AwaitingProofs!LoanSafety
<1>2. /\ BlockingProofs!BorrowedEventIsAlive => BorrowedEventIsAlive
      /\ AwaitingProofs!BorrowedEventIsAlive => BorrowedEventIsAlive
      /\ part = "work" => BorrowedEventIsAlive
  BY DEF BorrowedEventIsAlive, Blocking!BorrowedEventIsAlive,
         BlockingProofs!BorrowedEventIsAlive,
         AwaitingProofs!BorrowedEventIsAlive
<1> QED
  BY <1>1, <1>2, Parts, SameSpecs, PTL

(* The blocking next() returns every event once and in order, the          *)
(* asynchronous one returns none twice.                                    *)
THEOREM OrderSafety == Spec => EachEventOnce
<1> DEFINE Once == /\ part = "blocking" => Blocking!LeavesNoneOut
                   /\ part = "awaiting" => Awaiting!GoesOn
<1>1. BlockingProofs!Spec => [][Blocking!LeavesNoneOut]_(Blocking!vars)
  <2>1. BlockingProofs!NoEventLost
          <=> [][Blocking!LeavesNoneOut]_(Blocking!vars)
    BY DEF Blocking!LeavesNoneOut, BlockingProofs!LeavesNoneOut,
           Blocking!vars, BlockingProofs!vars, Blocking!chVars,
           BlockingProofs!chVars,
           BlockingProofs!NoEventLost
  <2> QED
    BY <2>1, SameAssumptions, BlockingProofs!LossSafety, PTL
<1>2. AwaitingProofs!Spec => [][Awaiting!GoesOn]_(Awaiting!vars)
  <2>1. AwaitingProofs!NoDuplicates <=> [][Awaiting!GoesOn]_(Awaiting!vars)
    BY DEF Awaiting!GoesOn, AwaitingProofs!GoesOn, Awaiting!vars,
           AwaitingProofs!vars, Awaiting!chVars, AwaitingProofs!chVars,
           AwaitingProofs!NoDuplicates
  <2> QED
    BY <2>1, SameAssumptions, AwaitingProofs!OrderSafety, PTL
<1>3. part = "blocking" /\ [Next]_vars /\ [Blocking!LeavesNoneOut]_(Blocking!vars)
        => [Once]_vars
  BY DEF Next, vars, workVars, connVars, Blocking!vars, Blocking!chVars
<1>4. part = "awaiting" /\ [Next]_vars /\ [Awaiting!GoesOn]_(Awaiting!vars)
        => [Once]_vars
  BY DEF Next, vars, workVars, connVars, Awaiting!vars, Awaiting!chVars
<1>5. part = "work" => [Once]_vars
  OBVIOUS
<1> QED
  BY <1>1, <1>2, <1>3, <1>4, <1>5, Parts, SameSpecs, PTL DEF Spec, EachEventOnce
=============================================================================
