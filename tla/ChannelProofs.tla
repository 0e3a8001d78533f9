---------------------------- MODULE ChannelProofs ----------------------------
(***************************************************************************)
(* Proofs about Channel, for any set of producers and any choice of those  *)
(* whose handle is a QuitOnDrop.                                           *)
(*                                                                         *)
(* The invariants of Channel are not inductive one by one.  What makes     *)
(* them so is IInv: it says at which control points a thread can be, which *)
(* threads can be asleep, and - the heart of the matter - that the lender  *)
(* of the shared reference is still in the second loop of set().           *)
(***************************************************************************)
EXTENDS Channel, TLAPS

(* Control points of the two kinds of threads. *)
ThreadPoints ==
    /\ \A p \in Producers : pc[p] \in {"idle", "offer", "hand", "quit", "gone"}
    /\ pc[Receiver] \in {"idle", "get", "aget", "await", "using", "gone"}

(* Only a thread inside one of the waiting loops can be asleep. *)
Sleepers ==
    \A t \in waiting :
        pc[t] \in IF t = Receiver THEN {"get"} ELSE {"offer", "hand", "quit"}

(* The shared reference points into the frame of a share() in progress. *)
LenderWaits == state = "Data" => pc[lent] = "hand"

(* The receiver uses a reference between get_shared*() and its next call. *)
UserIsUsing == using # None => pc[Receiver] = "using"

(* Why a thread is in the second loop: its datum is shared, or has been    *)
(* given back, or the receiver is no more.                                 *)
HandExplained ==
    \A p \in Producers :
        pc[p] = "hand" =>
            \/ state = "Data" /\ lent = p
            \/ handled[p]
            \/ pc[Receiver] = "gone"

IInv ==
    /\ TypeOK
    /\ ThreadPoints
    /\ Sleepers
    /\ LenderWaits
    /\ HandExplained
    /\ UserIsUsing
    /\ LentWhileUsed
    /\ NoLostWakeup
    /\ LastDropNeverBlocks

-----------------------------------------------------------------------------
LEMMA InitIInv == Init => IInv
  BY ThreadsAssumption
  DEF Init, IInv, TypeOK, ThreadPoints, Sleepers, LenderWaits,
            HandExplained, UserIsUsing,
      LentWhileUsed, NoLostWakeup, LastDropNeverBlocks, Freed, Holds, Threads,
      ControlPoints

(* The steps of a producer. *)
LEMMA ProducerKeepsIInv ==
    ASSUME IInv, NEW p \in Producers,
           Share(p) \/ ProducerStep(p) \/ DropArc(p) \/ DropGuard(p)
    PROVE  IInv'
<1> USE ThreadsAssumption
<1> USE DEF IInv, TypeOK, ThreadPoints, Sleepers, LenderWaits,
            HandExplained, UserIsUsing,
            LentWhileUsed, NoLostWakeup, LastDropNeverBlocks, Threads,
            ControlPoints, Freed, Holds, Awake
<1>1. CASE Share(p)
  BY <1>1 DEF Share
<1>2. CASE Offer(p)
  BY <1>2 DEF Offer
<1>3. CASE Refused(p)
  BY <1>3 DEF Refused
<1>4. CASE Sleep(p)
  BY <1>4 DEF Sleep
<1>5. CASE Return(p)
  BY <1>5 DEF Return
<1>6. CASE Quit(p)
  BY <1>6 DEF Quit
<1>7. CASE DropArc(p)
  BY <1>7 DEF DropArc, AfterRelease
<1>8. CASE DropGuard(p)
  BY <1>8 DEF DropGuard
<1> QED
  BY <1>1, <1>2, <1>3, <1>4, <1>5, <1>6, <1>7, <1>8 DEF ProducerStep

(* The steps of the receiver. *)
LEMMA ReceiverKeepsIInv ==
    ASSUME IInv,
           \/ \E entry \in {"get", "aget"} : Get(entry)
           \/ ReceiverStep \/ Cancel \/ Done \/ DropReceiver
    PROVE  IInv'
<1> USE ThreadsAssumption
<1> USE DEF IInv, TypeOK, ThreadPoints, Sleepers, LenderWaits,
            HandExplained, UserIsUsing,
            LentWhileUsed, NoLostWakeup, LastDropNeverBlocks, Threads,
            ControlPoints, Freed, Holds, Awake, Outside
<1>1. CASE \E entry \in {"get", "aget"} : Get(entry)
  BY <1>1 DEF Get
<1>2. CASE Got
  BY <1>2 DEF Got, AfterRelease
<1>3. CASE GotQuit
  BY <1>3 DEF GotQuit
<1>4. CASE GetSleep
  BY <1>4 DEF GetSleep
<1>5. CASE GetAwait
  BY <1>5 DEF GetAwait
<1>6. CASE Notified
  BY <1>6 DEF Notified
<1>7. CASE Cancel
  BY <1>7 DEF Cancel, AfterRelease
<1>8. CASE Done
  BY <1>8 DEF Done
<1>9. CASE DropReceiver
  BY <1>9 DEF DropReceiver
<1> QED
  BY <1>1, <1>2, <1>3, <1>4, <1>5, <1>6, <1>7, <1>8, <1>9 DEF ReceiverStep

LEMMA StepKeepsIInv == IInv /\ [Next]_vars => IInv'
<1> SUFFICES ASSUME IInv, [Next]_vars PROVE IInv'
  OBVIOUS
<1>1. CASE \E t \in Threads : SpuriousWakeup(t)
  BY <1>1 DEF SpuriousWakeup, IInv, TypeOK, ThreadPoints, Sleepers, LenderWaits,
     HandExplained, UserIsUsing, LentWhileUsed, NoLostWakeup,
     LastDropNeverBlocks, Freed, Holds
<1>2. CASE UNCHANGED vars
  BY <1>2 DEF vars, IInv, TypeOK, ThreadPoints, Sleepers, LenderWaits,
     HandExplained, UserIsUsing, LentWhileUsed, NoLostWakeup,
     LastDropNeverBlocks, Freed, Holds
<1> QED
  BY <1>1, <1>2, ProducerKeepsIInv, ReceiverKeepsIInv DEF Next

(* In every reachable state of the channel the inductive invariant holds.  *)
THEOREM Invariance == Spec => []IInv
  BY InitIInv, StepKeepsIInv, PTL DEF Spec

(* The variables of private/zerocopy.rs keep to their types, and only Data *)
(* carries a pointer.                                                      *)
THEOREM TypeCorrect == Spec => []TypeOK
  BY Invariance, PTL DEF IInv

(* A reference is only ever used while the thread on whose stack it lives  *)
(* is still inside share(): what the SAFETY comments of zerocopy.rs rest   *)
(* the Send and Sync implementations on.                                   *)
THEOREM LoanSafety == Spec => []LentWhileUsed
  BY Invariance, PTL DEF IInv

(* No thread sleeps through the wake-up it waits for, on the condition     *)
(* variable or on the notification.                                        *)
THEOREM WakeupSafety == Spec => []NoLostWakeup
  BY Invariance, PTL DEF IInv

(* Channel::drop never blocks the thread that gives up the last Arc.       *)
THEOREM LastDropSafety == Spec => []LastDropNeverBlocks
  BY Invariance, PTL DEF IInv

(* share() returns true only for a datum that went through done(), or      *)
(* because the receiver was dropped.                                       *)
THEOREM ReturnSafety == Spec => ReturnJustified
<1>1. IInv /\ [Next]_vars =>
        [\A p \in Producers :
            pc[p] = "hand" /\ pc'[p] # "hand"
                => handled[p] \/ pc[Receiver] = "gone"]_vars
  <2> SUFFICES ASSUME IInv, Next, NEW p \in Producers,
                      pc[p] = "hand", pc'[p] # "hand"
               PROVE  handled[p] \/ pc[Receiver] = "gone"
    OBVIOUS
  <2>1. state # "Data"
    BY ThreadsAssumption
    DEF IInv, TypeOK, Threads, ThreadPoints, Next, ProducerStep, ReceiverStep,
        Share, Offer, Refused, Sleep, Return, Quit, DropArc, DropGuard, Get,
        Got, GotQuit, GetSleep, GetAwait, Notified, Cancel, Done, DropReceiver,
        SpuriousWakeup
  <2> QED
    BY <2>1 DEF IInv, HandExplained
<1> QED
  BY <1>1, Invariance, PTL DEF Spec, ReturnJustified

(* The channel implements Loan, what it promises its two sides.            *)
THEOREM Refinement == Spec => ImplementsLoan
<1> DEFINE out == {p \in Producers : pc[p] = "hand"}
<1>1. Init => Promise!Init
  BY ThreadsAssumption DEF Init, Promise!Init, Threads
<1>2. IInv /\ [Next]_vars => [Promise!Next]_(Promise!loanVars)
  <2> SUFFICES ASSUME IInv, [Next]_vars
               PROVE  [Promise!Next]_(Promise!loanVars)
    OBVIOUS
  <2> USE ThreadsAssumption DEF IInv, TypeOK, ThreadPoints, Threads,
      ControlPoints, Promise!loanVars
  <2>1. CASE UNCHANGED vars
    BY <2>1 DEF vars
  <2>2. ASSUME NEW p \in Producers, Offer(p) PROVE Promise!Lend(p)
    BY <2>2 DEF Offer, Promise!Lend
  <2>3. ASSUME NEW p \in Producers, Return(p) PROVE Promise!Reclaim(p)
    BY <2>3 DEF Return, Promise!Reclaim, LentWhileUsed
  <2>4. CASE Got
    <3>1. Promise!Use(lent)
      BY <2>4 DEF Got, Promise!Use, LenderWaits, UserIsUsing
    <3> QED
      BY <3>1, <2>4 DEF Got, Promise!Next
  <2>5. ASSUME NEW p \in Producers,
               Share(p) \/ Refused(p) \/ Sleep(p) \/ Quit(p) \/ DropArc(p)
                  \/ DropGuard(p)
        PROVE  UNCHANGED <<out, using>>
    BY <2>5 DEF Share, Refused, Sleep, Quit, DropArc, DropGuard
  <2>6. ASSUME \/ \E entry \in {"get", "aget"} : Get(entry)
               \/ Done \/ DropReceiver
        PROVE  UNCHANGED <<out, using>> \/ Promise!LetGo
    BY <2>6 DEF Get, Done, DropReceiver, Promise!LetGo
  <2>7. ASSUME \/ GotQuit \/ GetSleep \/ GetAwait \/ Notified \/ Cancel
               \/ \E t \in Threads : SpuriousWakeup(t)
        PROVE  UNCHANGED <<out, using>>
    BY <2>7 DEF GotQuit, GetSleep, GetAwait, Notified, Cancel, SpuriousWakeup
  <2> QED
    BY <2>1, <2>2, <2>3, <2>4, <2>5, <2>6, <2>7
    DEF Next, ProducerStep, ReceiverStep, Promise!Next
<1> QED
  BY <1>1, <1>2, Invariance, PTL DEF Spec, ImplementsLoan, Promise!Spec
=============================================================================
