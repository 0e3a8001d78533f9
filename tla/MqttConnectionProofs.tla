------------------------- MODULE MqttConnectionProofs -------------------------
(***************************************************************************)
(* Proofs about MqttConnection, for any number of events, for the blocking *)
(* connection and for the asynchronous one, whose next() may be cancelled. *)
(* The number of the event in the callback and the number of the last one  *)
(* that next() returned are equal or one apart; which of the two is known  *)
(* from where the callback is, and whether its event was given back.       *)
(***************************************************************************)
EXTENDS MqttConnection, TLAPS

(* Where the MQTT task is in the channel while its client exists, and      *)
(* where the connection is.                                                *)
Points ==
    /\ IF client = "stopped" THEN pc[Task] \in {"idle", "quit", "gone"}
                             ELSE pc[Task] \in {"idle", "offer", "hand"}
    /\ pc[Task] = "quit" => ~ Async
    /\ pc[Conn] \in
         CASE conn = "idle" -> {"idle", "using"}
           [] conn = "fetch" -> {"idle"}
           [] conn = "wait" -> IF Async THEN {"aget", "await"} ELSE {"get"}
           [] OTHER -> {"gone"}

(* The event on loan is that of the callback; the channel is closed by the *)
(* end of either side only.                                                *)
Lending ==
    /\ state = "Data" => pc[Task] = "hand"
    /\ state = "Quit" => conn = "dropped" \/ pc[Task] = "gone"
    /\ using # None <=> pc[Conn] = "using"
    /\ using # None => state = "Data" /\ seen = sent

(* What the connection has not seen: the event that is offered, or on loan *)
(* and not in use.                                                         *)
Unseen ==
    /\ pc[Task] = "offer" => seen < sent
    /\ state = "Data" /\ using = None => seen < sent

(* The blocking connection has seen all but the last, and that as soon as  *)
(* the callback can return.                                                *)
AllSeen ==
    ~ Async /\ conn # "dropped" =>
        /\ conn = "idle" /\ given => using # None
        /\ sent <= seen + 1
        /\ pc[Task] # "offer" /\ state # "Data" => seen = sent

IInv == TypeOK /\ Points /\ Lending /\ Unseen /\ AllSeen

-----------------------------------------------------------------------------
LEMMA InitIInv == ASSUME ConnectionAssumption, Init PROVE IInv
<1> USE DEF ConnectionAssumption, Init, Fresh, Ch!Init, Ch!Threads
<1>1. Ch!TypeOK
  <2>1. pc \in [Ch!Threads -> Ch!ControlPoints]
    BY DEF Ch!ControlPoints
  <2>2. handled \in [{Task} -> BOOLEAN]
    OBVIOUS
  <2> QED
    BY <2>1, <2>2 DEF Ch!TypeOK
<1>2. TypeOK
  <2>1. sent = 0 /\ seen = 0 /\ MaxEvents \in Nat
    OBVIOUS
  <2>2. sent \in 0 .. MaxEvents /\ seen \in 0 .. sent
    BY <2>1
  <2> QED
    BY <1>1, <2>2 DEF TypeOK
<1>3. Points /\ Lending /\ Unseen /\ AllSeen
  BY DEF Points, Lending, Unseen, AllSeen
<1> QED
  BY <1>2, <1>3 DEF IInv

(* The steps of the MQTT task and of the drop of the client. *)
LEMMA TaskKeepsIInv ==
    ASSUME ConnectionAssumption, IInv, Event \/ TaskStep \/ DropClient
    PROVE  IInv'
<1> USE DEF ConnectionAssumption, IInv, TypeOK, Points, Lending, Unseen,
            AllSeen, chVars, Ch!TypeOK, Ch!Threads, Ch!ControlPoints, Ch!Awake
<1>1. CASE Event
  BY <1>1 DEF Event, Ch!Share
<1>2. CASE CallbackWaits
  <2>1. CASE Ch!Offer(Task)
    BY <1>2, <2>1 DEF CallbackWaits, Ch!Offer
  <2>2. CASE Ch!Sleep(Task)
    BY <1>2, <2>2 DEF CallbackWaits, Ch!Sleep
  <2> QED
    BY <1>2, <2>1, <2>2 DEF CallbackWaits
<1>3. CASE CallbackEnds
  <2>1. CASE Ch!Return(Task)
    BY <1>3, <2>1 DEF CallbackEnds, Ch!Return
  <2>2. CASE Ch!Refused(Task)
    BY <1>3, <2>2 DEF CallbackEnds, Ch!Refused
  <2> QED
    BY <1>3, <2>1, <2>2 DEF CallbackEnds
<1>4. CASE TaskStops
  BY <1>4 DEF TaskStops
<1>5. CASE DropCallback
  <2>1. CASE Ch!DropGuard(Task)
    BY <1>5, <2>1 DEF DropCallback, Ch!DropGuard
  <2>2. CASE Ch!DropArc(Task)
    BY <1>5, <2>2 DEF DropCallback, Ch!DropArc, Ch!AfterRelease, Ch!Holds
  <2>3. CASE Ch!Quit(Task)
    BY <1>5, <2>3 DEF DropCallback, Ch!Quit
  <2> QED
    BY <1>5, <2>1, <2>2, <2>3 DEF DropCallback
<1>6. CASE DropClient
  BY <1>6 DEF DropClient
<1> QED
  BY <1>1, <1>2, <1>3, <1>4, <1>5, <1>6 DEF TaskStep

(* The steps of the connection. *)
LEMMA ConnKeepsIInv ==
    ASSUME ConnectionAssumption, IInv,
           NextCall \/ ConnStep \/ CancelNext \/ DropConnection
    PROVE  IInv'
<1> USE DEF ConnectionAssumption, IInv, TypeOK, Points, Lending, Unseen,
            AllSeen, chVars, Ch!TypeOK, Ch!Threads, Ch!ControlPoints, Ch!Awake,
            Ch!Outside
<1>1. CASE NextCall
  <2>1. CASE given
    <3>1. state = "Data" => ~ Ch!Freed /\ lent = Task
      BY DEF Ch!Freed, Ch!Holds
    <3>2. /\ conn = "idle" /\ conn' = "fetch" /\ using' = None
          /\ pc' = [pc EXCEPT ![Conn] = "idle"]
          /\ IF state = "Data"
             THEN /\ state' = "Empty" /\ lent' = None /\ waiting' = {}
                  /\ handled' = [handled EXCEPT ![Task] = TRUE]
             ELSE UNCHANGED <<state, lent, waiting, handled>>
          /\ UNCHANGED <<notified, client, sent, given, seen>>
      BY <1>1, <2>1, <3>1 DEF NextCall, Ch!Done
    <3>3. TypeOK'
      BY <3>1, <3>2
    <3>4. Points' /\ Lending' /\ Unseen'
      BY <3>2
    <3>5. AllSeen'
      BY <2>1, <3>2
    <3> QED
      BY <3>3, <3>4, <3>5
  <2>2. CASE ~ given
    BY <1>1, <2>2 DEF NextCall
  <2> QED
    BY <2>1, <2>2
<1>2. CASE NextGets
  BY <1>2 DEF NextGets, Ch!Get
<1>3. CASE NextWaits
  BY <1>3, ZenonT(60) DEF NextWaits, Ch!GetSleep, Ch!GetAwait, Ch!Notified
<1>4. CASE NextReturns
  <2>1. /\ state = "Data" /\ lent = Task /\ using' = Task /\ state' = state
        /\ pc[Task] = "hand" /\ client # "stopped"
        /\ pc' = [pc EXCEPT ![Conn] = "using"]
        /\ given' = TRUE /\ seen' = sent /\ conn = "wait" /\ conn' = "idle"
        /\ UNCHANGED <<client, sent, lent, notified, waiting, handled>>
    BY <1>4 DEF NextReturns, Ch!Got, Ch!AfterRelease
  <2>2. TypeOK'
    BY <2>1
  <2>3. Points' /\ Lending' /\ Unseen' /\ AllSeen'
    BY <2>1
  <2> QED
    BY <2>2, <2>3
<1>5. CASE NextFails
  BY <1>5 DEF NextFails, Ch!GotQuit, Ch!Freed, Ch!Holds
<1>6. CASE CancelNext
  BY <1>6 DEF CancelNext, Ch!Cancel, Ch!AfterRelease, Ch!Holds
<1>7. CASE DropConnection
  <2>1. /\ using' = None /\ conn' = "dropped" /\ conn = "idle"
        /\ pc' = [pc EXCEPT ![Conn] = "gone"]
        /\ \/ UNCHANGED <<state, lent, waiting>>
           \/ state' = "Quit" /\ lent' = None /\ waiting' = {}
        /\ UNCHANGED <<notified, handled, client, sent, given, seen>>
    BY <1>7 DEF DropConnection, Ch!DropReceiver
  <2>2. TypeOK'
    BY <2>1
  <2>3. Points' /\ Lending' /\ AllSeen'
    BY <2>1
  <2>4. Unseen'
    BY <1>7, <2>1 DEF DropConnection, Ch!DropReceiver, Ch!Freed, Ch!Holds
  <2> QED
    BY <2>2, <2>3, <2>4
<1> QED
  BY <1>1, <1>2, <1>3, <1>4, <1>5, <1>6, <1>7 DEF ConnStep

LEMMA StepKeepsIInv ==
    ASSUME ConnectionAssumption, IInv, [Next]_vars PROVE IInv'
<1>1. CASE UNCHANGED vars
  BY <1>1 DEF vars, chVars, IInv, TypeOK, Points, Lending, Unseen, AllSeen,
              Ch!TypeOK
<1> QED
  BY <1>1, TaskKeepsIInv, ConnKeepsIInv DEF Next

(* In every reachable state the inductive invariant holds. *)
THEOREM Invariance == ASSUME ConnectionAssumption PROVE Spec => []IInv
<1>1. Init => IInv
  BY InitIInv
<1>2. IInv /\ [Next]_vars => IInv'
  BY StepKeepsIInv
<1> QED
  BY <1>1, <1>2, PTL DEF Spec

(* The channel, the client and the connection keep to their types. *)
THEOREM TypeCorrect == ASSUME ConnectionAssumption PROVE Spec => []TypeOK
  BY Invariance, PTL DEF IInv

(* The event that next() has returned is that of a callback that has not   *)
(* returned, of a client that still exists.                                *)
THEOREM LoanSafety ==
    ASSUME ConnectionAssumption PROVE Spec => []BorrowedEventIsAlive
<1>1. IInv => BorrowedEventIsAlive
  BY DEF IInv, Points, Lending, BorrowedEventIsAlive
<1> QED
  BY <1>1, Invariance, PTL

(* An event comes out of next() only when the connection waits for one.    *)
LEMMA ReturnsAre ==
    ASSUME IInv, Next, conn = "wait", using' # None PROVE NextReturns
<1>1. using = None /\ pc[Conn] \in {"get", "aget", "await"}
  BY DEF IInv, Points, Lending
<1> QED
  BY <1>1, Zenon
  DEF Next, Event, TaskStep, CallbackWaits, CallbackEnds, TaskStops,
      DropCallback, DropClient, NextCall, ConnStep, NextGets, NextWaits,
      NextFails, CancelNext, DropConnection, chVars, Ch!Share, Ch!Offer,
      Ch!Sleep, Ch!Return, Ch!Refused, Ch!DropGuard, Ch!DropArc, Ch!Quit,
      Ch!Get, Ch!GetSleep, Ch!GetAwait, Ch!Notified, Ch!GotQuit, Ch!Cancel

(* Neither connection returns an event twice, or an earlier one after it.  *)
THEOREM OrderSafety == ASSUME ConnectionAssumption PROVE Spec => NoDuplicates
<1>1. IInv /\ [Next]_vars => [GoesOn]_vars
  <2> SUFFICES ASSUME IInv, Next, conn = "wait", using' # None
               PROVE  seen' > seen
    BY DEF GoesOn
  <2>1. seen' = sent /\ state = "Data" /\ using = None
    BY ReturnsAre DEF NextReturns, Ch!Got, IInv, Points, Lending
  <2> QED
    BY <2>1 DEF IInv, TypeOK, Unseen
<1> QED
  BY <1>1, Invariance, PTL DEF Spec, NoDuplicates

(* The blocking connection leaves none out. *)
THEOREM LossSafety ==
    ASSUME ConnectionAssumption, ~ Async PROVE Spec => NoEventLost
<1>1. IInv /\ [Next]_vars => [LeavesNoneOut]_vars
  <2> SUFFICES ASSUME IInv, Next, conn = "wait", using' # None
               PROVE  seen' = seen + 1
    BY DEF LeavesNoneOut
  <2>1. seen' = sent /\ state = "Data" /\ using = None
    BY ReturnsAre DEF NextReturns, Ch!Got, IInv, Points, Lending
  <2> QED
    BY <2>1 DEF IInv, TypeOK, Unseen, AllSeen
<1> QED
  BY <1>1, Invariance, PTL DEF Spec, NoEventLost
=============================================================================
