---------------------------- MODULE MCServicesProofs ----------------------------
(***************************************************************************)
(* Proofs about the services, for any number of threads, closures and      *)
(* armings and any clock. What MCServices does is, seen from one of its    *)
(* parts, a behaviour of that part: for each part an inductive invariant   *)
(* is proved of its specification, and the theorems at the end put         *)
(* together what these imply.                                              *)
(***************************************************************************)
EXTENDS MCServices, FiniteSetTheorems, WellFoundedInduction, TLAPS

-----------------------------------------------------------------------------
(* A set of natural numbers has a least element: the intervals that end in *)
(* its elements are finite sets, which inclusion orders well.              *)
LEMMA Smallest ==
    ASSUME NEW S \in SUBSET Nat, S # {}
    PROVE  \E m \in S : \A n \in S : m <= n
<1> DEFINE below == {0 .. n : n \in S}
<1>1. below # {} /\ below \subseteq FiniteSubsetsOf(Nat)
  <2>1. ASSUME NEW n \in S PROVE 0 .. n \in FiniteSubsetsOf(Nat)
    <3>1. 0 .. n \subseteq Nat
      OBVIOUS
    <3>2. IsFiniteSet(0 .. n)
      BY FS_Interval
    <3> QED
      BY <3>1, <3>2 DEF FiniteSubsetsOf
  <2> QED
    BY <2>1
<1>2. \E b \in below : \A c \in below : <<c, b>> \notin StrictSubsetOrdering(Nat)
  <2> HIDE DEF below
  <2> QED
    BY <1>1, FS_StrictSubsetOrderingWellFounded, WFMin
<1>3. PICK m \in S : \A n \in S : <<0 .. n, 0 .. m>> \notin StrictSubsetOrdering(Nat)
  BY <1>2
<1>4. ASSUME NEW n \in S, n < m PROVE FALSE
  <2>1. 0 .. n \subseteq 0 .. m /\ 0 .. n # 0 .. m
    <3>1. n \in Nat /\ m \in Nat
      OBVIOUS
    <3>2. m \in 0 .. m /\ m \notin 0 .. n
      BY <1>4, <3>1
    <3>3. \A x \in 0 .. n : x \in 0 .. m
      BY <1>4, <3>1
    <3> QED
      BY <3>2, <3>3
  <2>2. 0 .. n \in SUBSET Nat /\ 0 .. m \in SUBSET Nat
    OBVIOUS
  <2> QED
    BY <1>3, <2>1, <2>2 DEF StrictSubsetOrdering
<1> QED
  BY <1>4

-----------------------------------------------------------------------------
(* The time driver. *)

(* The timeout that is about to be set is safe. *)
DriverIInv ==
    /\ Driver!TypeOK /\ Driver!NoLostAlarm
    /\ phase = "start" => /\ after <= Driver!MaxSafeTimeout
                          /\ now <= clock
                          /\ \A w \in Driver!Queued : now + after <= queue[w]

(* What schedule_next_expiration() waits for: nobody who is not due sleeps *)
(* until an earlier time.                                                  *)
LEMMA DriverNext ==
    ASSUME Driver!TimeAssumption, Driver!TypeOK
    PROVE  /\ Driver!NextExpiration(clock) \in Driver!Times
           /\ \A w \in Driver!Queued \ Driver!Due(clock) :
                Driver!NextExpiration(clock) <= queue[w]
<1> DEFINE rest == {queue[w] : w \in Driver!Queued \ Driver!Due(clock)}
<1>1. rest \subseteq Driver!Times /\ Driver!Times \subseteq Nat
  BY DEF Driver!TypeOK, Driver!Queued, Driver!Due, Driver!Times
<1>2. CASE rest = {}
  <2>1. Driver!NextExpiration(clock) = Wrap - 1
    BY <1>2 DEF Driver!NextExpiration
  <2>2. Wrap - 1 \in Driver!Times
    BY DEF Driver!TimeAssumption, Driver!Times, Driver!TypeOK
  <2> QED
    BY <1>2, <2>1, <2>2
<1>3. CASE rest # {}
  <2>1. \E t \in rest : \A u \in rest : t <= u
    BY <1>1, <1>3, Smallest
  <2>2. Driver!NextExpiration(clock) = CHOOSE t \in rest : \A u \in rest : t <= u
    BY <1>3 DEF Driver!NextExpiration
  <2>3. /\ Driver!NextExpiration(clock) \in rest
        /\ \A u \in rest : Driver!NextExpiration(clock) <= u
    <3> HIDE DEF rest
    <3> QED
      BY <2>1, <2>2
  <2> QED
    BY <1>1, <2>3
<1> QED
  BY <1>2, <1>3

LEMMA DriverInit == ASSUME Driver!TimeAssumption, Driver!Init PROVE DriverIInv
<1>1. 0 \in Driver!Times /\ 0 \in 0 .. MaxClock
  BY DEF Driver!TimeAssumption, Driver!Times
<1>2. Driver!TypeOK
  BY <1>1 DEF Driver!Init, Driver!TypeOK
<1>3. Driver!NoLostAlarm
  BY DEF Driver!Init, Driver!NoLostAlarm, Driver!Queued
<1> QED
  BY <1>2, <1>3 DEF DriverIInv, Driver!Init

LEMMA DriverStep ==
    ASSUME Driver!TimeAssumption, DriverIInv, [Driver!Next]_(Driver!vars)
    PROVE  DriverIInv'
<1> USE DEF Driver!TimeAssumption, DriverIInv, Driver!TypeOK, Driver!Times
<1>1. ASSUME NEW w \in Wakers, NEW at \in Driver!Times, Driver!ScheduleWake(w, at)
      PROVE  DriverIInv'
  <2>1. /\ phase' = "expire" /\ queue' = [queue EXCEPT ![w] = at]
        /\ byCallback' = FALSE /\ UNCHANGED <<clock, alarm, fired, now, after>>
    BY <1>1 DEF Driver!ScheduleWake
  <2>2. Driver!TypeOK'
    BY <1>1, <2>1
  <2> QED
    BY <2>1, <2>2 DEF Driver!NoLostAlarm, Driver!Queued
<1>2. CASE Driver!Fire
  BY <1>2 DEF Driver!Fire, Driver!NoLostAlarm, Driver!Queued
<1>3. CASE Driver!Callback
  BY <1>3 DEF Driver!Callback, Driver!NoLostAlarm, Driver!Queued
<1>4. CASE Driver!Expire
  <2>1. /\ Driver!NextExpiration(clock) \in Driver!Times
        /\ \A w \in Driver!Queued \ Driver!Due(clock) :
             Driver!NextExpiration(clock) <= queue[w]
    BY DriverNext
  <2>2. Driver!TypeOK'
    BY <1>4, <2>1 DEF Driver!Expire
  <2>3. ASSUME phase' = "start"
        PROVE  /\ after' <= Driver!MaxSafeTimeout /\ now' <= clock'
               /\ \A w \in Driver!Queued' : now' + after' <= queue'[w]
    <3>1. /\ now' = clock /\ after' = Driver!NextExpiration(clock) - clock
          /\ after' <= Driver!MaxSafeTimeout /\ clock' = clock
      BY <1>4, <2>3 DEF Driver!Expire
    <3>2. ASSUME NEW w \in Driver!Queued'
          PROVE  w \in Driver!Queued \ Driver!Due(clock) /\ queue'[w] = queue[w]
      BY <1>4 DEF Driver!Expire, Driver!Queued, Driver!Due
    <3>3. clock \in Nat /\ Driver!NextExpiration(clock) \in Nat
      BY <2>1
    <3> QED
      BY <2>1, <3>1, <3>2, <3>3
  <2>4. ASSUME phase' = "free", NEW w \in Driver!Queued'
        PROVE  queue'[w] > Driver!MaxSafeTimeout
    <3>1. w \in Driver!Queued \ Driver!Due(clock) /\ queue'[w] = queue[w]
      BY <1>4, <2>4 DEF Driver!Expire, Driver!Queued, Driver!Due
    <3>2. Driver!NextExpiration(clock) - clock > Driver!MaxSafeTimeout
      BY <1>4, <2>1, <2>4 DEF Driver!Expire, Driver!MaxSafeTimeout
    <3> QED
      BY <2>1, <3>1, <3>2 DEF Driver!MaxSafeTimeout, Driver!Queued
  <2>5. Driver!NoLostAlarm'
    BY <2>2, <2>4 DEF Driver!NoLostAlarm, Driver!Queued, Driver!MaxSafeTimeout
  <2> QED
    BY <2>2, <2>3, <2>5
<1>5. CASE Driver!Start
  <2>1. (clock + after) % Wrap \in Driver!Times
    OBVIOUS
  <2> QED
    BY <1>5, <2>1 DEF Driver!Start, Driver!NoLostAlarm, Driver!Queued
<1>6. CASE Driver!Tick
  BY <1>6 DEF Driver!Tick, Driver!NoLostAlarm, Driver!Queued
<1>7. CASE UNCHANGED Driver!vars
  BY <1>7 DEF Driver!vars, Driver!NoLostAlarm, Driver!Queued
<1> QED
  BY <1>1, <1>2, <1>3, <1>4, <1>5, <1>6, <1>7 DEF Driver!Next

(* The addition in esp_timer_start_once() stays within the clock's width   *)
(* for a sleeper that is due before the last day of the epoch, if the      *)
(* clock has gone on by at most a day since it was read, and for any while *)
(* the clock is younger than a day.                                        *)
LEMMA DriverStart ==
    ASSUME Driver!TimeAssumption, DriverIInv, Driver!Start
    PROVE  /\ clock - now <= Day =>
                \A w \in Driver!Queued :
                   queue[w] <= Driver!MaxSafeTimeout =>
                      alarm' \in clock .. queue[w] + (clock - now)
           /\ clock <= Day => alarm' >= clock
<1>1. /\ clock \in Nat /\ now \in Nat /\ after \in Nat /\ Wrap \in Nat
      /\ Day \in Nat /\ after <= Wrap - 1 - Day /\ now <= clock
      /\ \A w \in Driver!Queued : now + after <= queue[w] /\ queue[w] \in Nat
      /\ alarm' = (clock + after) % Wrap
  BY DEF Driver!TimeAssumption, DriverIInv, Driver!TypeOK, Driver!Times,
         Driver!MaxSafeTimeout, Driver!Start, Driver!Queued
<1>2. clock + after < Wrap => alarm' = clock + after
  BY <1>1
<1>3. ASSUME clock - now <= Day, NEW w \in Driver!Queued,
             queue[w] <= Driver!MaxSafeTimeout
      PROVE  alarm' \in clock .. queue[w] + (clock - now)
  <2>1. now + after <= queue[w] /\ queue[w] <= Wrap - 1 - Day /\ queue[w] \in Nat
    BY <1>1, <1>3 DEF Driver!MaxSafeTimeout
  <2>2. clock + after < Wrap
    BY <1>1, <1>3, <2>1
  <2> QED
    BY <1>1, <1>2, <2>1, <2>2
<1>4. ASSUME clock <= Day PROVE alarm' >= clock
  BY <1>1, <1>2, <1>4
<1> QED
  BY <1>3, <1>4
-----------------------------------------------------------------------------
(* The asynchronous timer. *)

(* The closure lives until the timer is deleted, and nothing expires from  *)
(* the moment the timer is stopped until it is armed again. Between the    *)
(* reset and the end of after(), what is notified or about to be is the    *)
(* last arming, or the reset met a callback that ran.                      *)
TimerIInv ==
    /\ Timer!TypeOK
    /\ callback <=> timerPc # "gone"
    /\ timerPc = "gone" => timerRunning = 0
    /\ timerPc \in {"after.reset", "every.reset", "after.arm", "every.arm"} =>
         armed = 0 /\ last < MaxArmings
    /\ timerPc \in {"delete", "gone"} => armed = 0
    /\ timerPc = "after.arm" /\ ~ overlap => notified = 0 /\ timerRunning = 0
    /\ timerPc = "after.wait" /\ ~ overlap =>
         notified \in {0, last} /\ timerRunning \in {0, last}

LEMMA TimerInit == ASSUME Timer!BoundAssumption, Timer!Init PROVE TimerIInv
<1>1. Timer!TypeOK
  <2>1. 0 \in Timer!Armings /\ 0 \in 0 .. 0
    BY DEF Timer!BoundAssumption, Timer!Armings
  <2> QED
    BY <2>1 DEF Timer!Init, Timer!TypeOK
<1> QED
  BY <1>1 DEF Timer!Init, TimerIInv

LEMMA TimerStep ==
    ASSUME Timer!BoundAssumption, TimerIInv, [Timer!Next]_(Timer!vars)
    PROVE  TimerIInv'
<1> USE DEF Timer!BoundAssumption, TimerIInv, Timer!TypeOK, Timer!Armings,
        Timer!timer
<1>1. CASE Timer!Stop("after.reset") \/ Timer!Stop("every.reset")
  BY <1>1 DEF Timer!Stop
<1>2. CASE Timer!Reset
  BY <1>2 DEF Timer!Reset
<1>3. CASE Timer!Arm
  BY <1>3 DEF Timer!Arm
<1>4. CASE Timer!Tick \/ Timer!Complete \/ Timer!Cancel
  BY <1>4 DEF Timer!Tick, Timer!Complete, Timer!Cancel
<1>5. CASE Timer!Drop \/ Timer!Delete
  BY <1>5 DEF Timer!Drop, Timer!Delete
<1>6. CASE Timer!Expire
  BY <1>6 DEF Timer!Expire
<1>7. CASE Timer!Callback
  BY <1>7 DEF Timer!Callback
<1>8. CASE UNCHANGED Timer!vars
  BY <1>8 DEF Timer!vars
<1> QED
  BY <1>1, <1>2, <1>3, <1>4, <1>5, <1>6, <1>7, <1>8 DEF Timer!Next

LEMMA TimerIsSafe ==
    ASSUME TimerIInv
    PROVE  /\ Timer!TypeOK /\ Timer!CallbackAlive
           /\ Timer!Complete /\ timerPc = "after.wait" => notified = last \/ overlap
  BY DEF TimerIInv, Timer!TypeOK, Timer!CallbackAlive, Timer!Complete

-----------------------------------------------------------------------------
(* The singleton of a Bluetooth profile. *)

(* One owner at most has the profile; the closure in the slot is the one   *)
(* it has subscribed last, and is there until the drop takes it out, after *)
(* which nobody holds the mutex.                                           *)
BtOwned ==
    /\ \A o, p \in Owners : btPc[o] # "none" /\ btPc[p] # "none" => o = p
    /\ \A o \in Owners : btPc[o] # "none" => initialized
    /\ btSlot # None =>
         \E o \in Owners : btPc[o] \in {"live", "drop"} /\ btSlot = mine[o]
    /\ \A o \in Owners :
         /\ btPc[o] = "live" => btSlot = mine[o]
         /\ btPc[o] \in {"none", "init"} => mine[o] = None
         /\ btPc[o] \in {"release", "flag"} => btSlot = None
         /\ btPc[o] = "flag" => btMutex = None

(* Whoever is inside a closure holds the mutex. Closures that are dead     *)
(* have been subscribed, and the last one is dead only when it is replaced. *)
BtLiving ==
    /\ \A s \in Stack : cur[s] # None => btMutex = s
    /\ \A s \in Stack : cur[s] \notin dead
    /\ \A o \in Owners : mine[o] # None => mine[o] = <<o, btCount[o]>>
    /\ \A o \in Owners : mine[o] \notin dead
    /\ \A c \in dead : c[2] <= btCount[c[1]]

BtIInv == Bt!TypeOK /\ BtOwned /\ BtLiving

LEMMA BtInit == ASSUME Bt!BtAssumption, Bt!Init PROVE BtIInv
<1>1. Bt!TypeOK
  <2>1. 0 \in 0 .. MaxClosures
    BY DEF Bt!BtAssumption
  <2> QED
    BY <2>1 DEF Bt!Init, Bt!TypeOK
<1>2. BtOwned
  BY DEF Bt!Init, BtOwned
<1>3. BtLiving
  BY DEF Bt!Init, BtLiving
<1> QED
  BY <1>1, <1>2, <1>3 DEF BtIInv

LEMMA BtClosures ==
    ASSUME Bt!BtAssumption
    PROVE  /\ None \notin Bt!Closures
           /\ \A c \in Bt!Closures : c[1] \in Owners /\ c[2] \in 1 .. MaxClosures
                                     /\ c = <<c[1], c[2]>>
           /\ \A o \in Owners, n \in 1 .. MaxClosures :
                /\ <<o, n>> \in Bt!Closures
                /\ <<o, n>>[1] = o /\ <<o, n>>[2] = n
  BY DEF Bt!BtAssumption, Bt!Closures

LEMMA BtStep ==
    ASSUME Bt!BtAssumption, BtIInv, [Bt!Next]_(Bt!vars)
    PROVE  BtIInv'
<1> USE BtClosures DEF BtIInv, Bt!TypeOK, Bt!Unlocked
<1>0. None \notin Stack /\ MaxClosures \in Nat
  BY DEF Bt!BtAssumption
<1>1. ASSUME NEW s \in Stack, Bt!Begin(s) PROVE BtIInv'
  <2>1. btSlot \in Bt!Closures /\ cur' = [cur EXCEPT ![s] = btSlot] /\ btMutex' = s
    BY <1>1 DEF Bt!Begin
  <2>2. \A t \in Stack : cur[t] = None
    BY <1>0, <1>1 DEF Bt!Begin, BtLiving
  <2>3. Bt!TypeOK'
    BY <1>1, <2>1 DEF Bt!Begin
  <2>4. BtOwned' /\ BtLiving'
    BY <1>0, <1>1, <2>1, <2>2 DEF Bt!Begin, BtOwned, BtLiving
  <2> QED
    BY <2>3, <2>4
<1>2. ASSUME NEW s \in Stack, Bt!End(s) PROVE BtIInv'
  BY <1>0, <1>2 DEF Bt!End, BtOwned, BtLiving
<1>3. ASSUME NEW o \in Owners, Bt!Take(o) \/ Bt!NewOk(o) \/ Bt!NewFails(o)
      PROVE  BtIInv'
  <2>1. Bt!TypeOK'
    <3>1. initialized' \in BOOLEAN
      BY <1>3 DEF Bt!Take, Bt!NewOk, Bt!NewFails
    <3>2. btPc' \in [Owners -> {"none", "init", "live", "drop", "release", "flag"}]
      BY <1>3 DEF Bt!Take, Bt!NewOk, Bt!NewFails
    <3> QED
      BY <1>3, <3>1, <3>2 DEF Bt!Take, Bt!NewOk, Bt!NewFails
  <2>2. BtOwned'
    <3>1. CASE Bt!Take(o)
      BY <3>1 DEF Bt!Take, BtOwned
    <3>2. CASE Bt!NewOk(o)
      BY <3>2 DEF Bt!NewOk, BtOwned
    <3>3. CASE Bt!NewFails(o)
      BY <3>3 DEF Bt!NewFails, BtOwned
    <3> QED
      BY <1>3, <3>1, <3>2, <3>3
  <2>3. BtLiving'
    BY <1>3 DEF Bt!Take, Bt!NewOk, Bt!NewFails, BtLiving
  <2> QED
    BY <2>1, <2>2, <2>3
<1>4. ASSUME NEW o \in Owners, Bt!Subscribe(o) PROVE BtIInv'
  BY <1>0, <1>4 DEF Bt!Subscribe, BtOwned, BtLiving
<1>5. ASSUME NEW o \in Owners, Bt!Unsubscribe(o) PROVE BtIInv'
  BY <1>0, <1>5 DEF Bt!Unsubscribe, BtOwned, BtLiving
<1>6. ASSUME NEW o \in Owners,
             Bt!StartDrop(o) \/ Bt!DropUnsubscribe(o) \/ Bt!ReleaseSlot(o)
      PROVE  BtIInv'
  BY <1>0, <1>6
  DEF Bt!StartDrop, Bt!DropUnsubscribe, Bt!ReleaseSlot, BtOwned, BtLiving
<1>7. ASSUME NEW o \in Owners, Bt!ReleaseFlag(o) PROVE BtIInv'
  <2>1. /\ dead' = dead \union {c \in Bt!Closures : c[1] = o /\ c[2] <= btCount[o]}
        /\ btPc' = [btPc EXCEPT ![o] = "none"] /\ mine' = [mine EXCEPT ![o] = None]
        /\ initialized' = FALSE /\ UNCHANGED <<btSlot, btMutex, cur, btCount>>
    BY <1>7 DEF Bt!ReleaseFlag
  <2>2. Bt!TypeOK'
    BY <2>1
  <2>3. btSlot = None /\ btMutex = None /\ \A p \in Owners : btPc'[p] = "none"
    BY <1>7, <2>1 DEF Bt!ReleaseFlag, BtOwned
  <2>4. BtOwned'
    BY <1>7, <2>1, <2>3 DEF BtOwned
  <2>5. \A s \in Stack : cur[s] = None
    BY <1>0, <2>3 DEF BtLiving
  <2>6. \A p \in Owners : mine'[p] = None
    BY <2>1, <2>3, <2>4 DEF BtOwned
  <2>7. BtLiving'
    BY <1>0, <2>1, <2>2, <2>5, <2>6 DEF BtLiving
  <2> QED
    BY <2>2, <2>4, <2>7
<1>8. CASE UNCHANGED Bt!vars
  BY <1>8 DEF Bt!vars, BtOwned, BtLiving
<1> QED
  BY <1>1, <1>2, <1>3, <1>4, <1>5, <1>6, <1>7, <1>8 DEF Bt!Next, Bt!Dropping

LEMMA BtIsSafe ==
    ASSUME Bt!BtAssumption, BtIInv
    PROVE  /\ Bt!TypeOK /\ Bt!ClosureRemoved
           /\ Bt!Exclusive /\ Bt!SubscriptionKept /\ Bt!ReleaseSucceeds
<1>1. Bt!ClosureRemoved /\ Bt!Exclusive
  BY DEF Bt!BtAssumption, BtIInv, BtLiving, Bt!ClosureRemoved, Bt!Exclusive
<1> QED
  BY <1>1
  DEF BtIInv, BtOwned, Bt!SubscriptionKept, Bt!ReleaseSucceeds

-----------------------------------------------------------------------------
(* SNTP. *)

(* One service is being made, lives or is dropped; TAKEN tells of it and   *)
(* its mutex is held while it is made and at the end of its drop. It runs  *)
(* with its own closure if it has one.                                     *)
TimeBusy == {"set", "init", "live", "drop", "stopped"}

TimeIInv ==
    /\ Time!TypeOK
    /\ \A o, p \in Time!Services :
          sntpPc[o] \in TimeBusy /\ sntpPc[p] \in TimeBusy => o = p
    /\ sntpTaken = \E o \in Time!Services : sntpPc[o] \in {"live", "drop", "stopped"}
    /\ \A o \in Time!Services :
          /\ sntpPc[o] \in {"set", "init", "stopped"} => holder = o
          /\ sntpPc[o] = "set" => o \in WithCallback
          /\ sntpPc[o] = "live" => sntpRunning
          /\ sntpPc[o] \in {"init", "live"} /\ o \in WithCallback => sntpSlot = o

(* If only services without a closure fail to start, the closure that is   *)
(* kept is that of the service there is.                                   *)
TimeOwned ==
    /\ sntpSlot # None => sntpPc[sntpSlot] \in {"init", "live", "drop", "stopped"}
    /\ sync = "closure" => sntpSlot # None

LEMMA TimeInit ==
    ASSUME Time!SntpAssumption, Time!Init PROVE TimeIInv /\ TimeOwned
<1>1. Time!TypeOK
  BY DEF Time!Init, Time!TypeOK
<1> QED
  BY <1>1 DEF Time!Init, TimeIInv, TimeOwned, TimeBusy

LEMMA TimeStep ==
    ASSUME Time!SntpAssumption, TimeIInv, [Time!Next]_(Time!vars)
    PROVE  TimeIInv'
<1> USE DEF Time!SntpAssumption, Time!Services, TimeIInv, Time!TypeOK, TimeBusy
<1>1. ASSUME NEW o \in Time!Services, Time!New(o) PROVE TimeIInv'
  BY <1>1 DEF Time!New
<1>11. ASSUME NEW o \in Time!Services, Time!Refused(o) PROVE TimeIInv'
  BY <1>11 DEF Time!Refused
<1>2. ASSUME NEW o \in Time!Services, Time!Begin(o) PROVE TimeIInv'
  BY <1>2 DEF Time!Begin
<1>3. ASSUME NEW o \in Time!Services, Time!SetCallback(o) PROVE TimeIInv'
  BY <1>3 DEF Time!SetCallback
<1>4. ASSUME NEW o \in Time!Services, Time!Start(o) PROVE TimeIInv'
  BY <1>4 DEF Time!Start
<1>5. ASSUME NEW o \in Time!Services, Time!Fail(o) PROVE TimeIInv'
  BY <1>5 DEF Time!Fail
<1>6. ASSUME NEW o \in Time!Services, Time!Drop(o) PROVE TimeIInv'
  BY <1>6 DEF Time!Drop
<1>7. ASSUME NEW o \in Time!Services, Time!Stop(o) PROVE TimeIInv'
  BY <1>7 DEF Time!Stop
<1>8. ASSUME NEW o \in Time!Services, Time!Unsubscribe(o) PROVE TimeIInv'
  BY <1>8 DEF Time!Unsubscribe
<1>9. CASE Time!Enter \/ Time!Call \/ Time!Leave
  BY <1>9 DEF Time!Enter, Time!Call, Time!Leave
<1>10. CASE UNCHANGED Time!vars
  BY <1>10 DEF Time!vars
<1> QED
  BY <1>1, <1>2, <1>3, <1>4, <1>5, <1>6, <1>7, <1>8, <1>9, <1>10, <1>11
  DEF Time!Next, Time!OwnerNext

LEMMA TimeOwnedStep ==
    ASSUME Time!SntpAssumption, Failing \intersect WithCallback = {},
           TimeIInv, TimeOwned, [Time!Next]_(Time!vars)
    PROVE  TimeOwned'
<1> USE DEF Time!SntpAssumption, Time!Services, Time!TypeOK, TimeOwned, TimeBusy
<1>1. ASSUME NEW o \in Time!Services,
             Time!New(o) \/ Time!Refused(o) \/ Time!Begin(o) \/ Time!Start(o)
                \/ Time!Drop(o) \/ Time!Stop(o)
      PROVE  TimeOwned'
  <2>1. /\ UNCHANGED <<sntpSlot, sync>> /\ sntpPc[o] \notin {"set", "stopped"}
        /\ sntpPc' = [sntpPc EXCEPT ![o] = sntpPc'[o]]
        /\ sntpPc[o] \in TimeBusy =>
             sntpPc'[o] \in {"init", "live", "drop", "stopped"}
    <3>1. CASE Time!New(o) \/ Time!Refused(o) \/ Time!Begin(o)
      BY <3>1 DEF TimeIInv, Time!New, Time!Refused, Time!Begin
    <3>2. CASE Time!Start(o) \/ Time!Drop(o) \/ Time!Stop(o)
      BY <3>2 DEF TimeIInv, Time!Start, Time!Drop, Time!Stop
    <3> QED
      BY <1>1, <3>1, <3>2
  <2> QED
    BY <2>1 DEF TimeIInv
<1>2. ASSUME NEW o \in Time!Services,
             Time!SetCallback(o) \/ Time!Unsubscribe(o)
      PROVE  TimeOwned'
  BY <1>2 DEF TimeIInv, Time!SetCallback, Time!Unsubscribe, Time!SlotUnlocked
<1>3. ASSUME NEW o \in Time!Services, Time!Fail(o) PROVE TimeOwned'
  BY <1>3 DEF TimeIInv, Time!Fail
<1>4. CASE Time!Enter \/ Time!Call \/ Time!Leave
  BY <1>4 DEF Time!Enter, Time!Call, Time!Leave
<1>5. CASE UNCHANGED Time!vars
  BY <1>5 DEF Time!vars
<1> QED
  BY <1>1, <1>2, <1>3, <1>4, <1>5 DEF Time!Next, Time!OwnerNext

LEMMA TimeIsSafe ==
    ASSUME Time!SntpAssumption, TimeIInv
    PROVE  /\ Time!TypeOK /\ Time!OneService
           /\ TimeOwned => Time!ClosureOfLiving
<1>1. Time!TypeOK
  BY DEF TimeIInv
<1>2. Time!OneService
  BY DEF TimeIInv, Time!TypeOK, TimeBusy, Time!OneService, Time!Services
<1>3. TimeOwned => Time!ClosureOfLiving
  BY DEF TimeOwned, Time!ClosureOfLiving
<1> QED
  BY <1>1, <1>2, <1>3

-----------------------------------------------------------------------------
(* Ping. *)

(* The session calls back only while the caller waits for its end, and the *)
(* caller gets on only when the task has given the mutex back; the counts  *)
(* are final from on_ping_end on.                                          *)
EchoWaits == {"lock", "check", "wait", "asleep"}

EchoFinal ==
    \/ task \in {"lock", "clear", "notify", "unlock"}
    \/ pingPc \in EchoWaits /\ session = "over"
    \/ pingPc \in {"stop", "return"}

EchoIInv ==
    /\ Echo!TypeOK
    /\ pingMutex \in {"free", "caller", "task"}
    /\ alive <=> pingPc # "idle"
    /\ task # "idle" => session = "started"
    /\ session = "started" => pingPc \in EchoWaits
    /\ session = "started" => (pingRunning <=> task \notin {"notify", "unlock"})
    /\ pingPc = "set" => session = "new"
    /\ pingPc = "start" => session = "new" /\ pingRunning
    /\ pingPc \in EchoWaits => session \in {"started", "over"}
    /\ pingPc \in EchoWaits /\ session = "over" => ~ pingRunning
    /\ EchoFinal => summary = profile /\ summary.transmitted = pingCount

LEMMA EchoInit == ASSUME Echo!PingAssumption, Echo!Init PROVE EchoIInv
<1>1. Echo!Zero \in Echo!Counts /\ 1 \in 1 .. MaxCount
  BY DEF Echo!PingAssumption, Echo!Zero, Echo!Counts
<1>2. Echo!TypeOK
  BY <1>1 DEF Echo!Init, Echo!TypeOK
<1> QED
  BY <1>2 DEF Echo!Init, EchoIInv, EchoFinal, EchoWaits

LEMMA EchoStep ==
    ASSUME Echo!PingAssumption, EchoIInv, [Echo!Next]_(Echo!vars)
    PROVE  EchoIInv'
<1> USE DEF EchoIInv, EchoFinal, Echo!TypeOK, EchoWaits, Echo!tracker,
        Echo!esp_ping
<1>0. Echo!Zero \in Echo!Counts
  BY DEF Echo!PingAssumption, Echo!Zero, Echo!Counts
<1>1. ASSUME NEW n \in 1 .. MaxCount, Echo!Call(n) PROVE EchoIInv'
  BY <1>0, <1>1 DEF Echo!Call
<1>2. CASE Echo!NewSession \/ Echo!SetRunning \/ Echo!Start
  BY <1>0, <1>2 DEF Echo!NewSession, Echo!SetRunning, Echo!Start
<1>3. CASE Echo!Lock \/ Echo!KeepWaiting \/ Echo!Wait \/ Echo!Spurious
  BY <1>3 DEF Echo!Lock, Echo!KeepWaiting, Echo!Wait, Echo!Spurious
<1>4. CASE Echo!Ended
  <2>1. task = "idle" /\ session = "over"
    BY <1>4 DEF Echo!Ended
  <2> QED
    BY <1>4, <2>1 DEF Echo!Ended
<1>9. CASE Echo!StopAndDelete
  BY <1>9 DEF Echo!StopAndDelete
<1>10. CASE Echo!Return \/ Echo!Error
  BY <1>10 DEF Echo!Return, Echo!Error
<1>5. ASSUME NEW received \in {0, 1}, Echo!Reply(received) PROVE EchoIInv'
  <2>1. profile' \in Echo!Counts
    BY <1>5 DEF Echo!Reply, Echo!Counts, Echo!PingAssumption
  <2> QED
    BY <1>5, <2>1 DEF Echo!Reply
<1>6. CASE Echo!OnReply \/ Echo!OnEnd
  BY <1>6 DEF Echo!OnReply, Echo!OnEnd
<1>7. CASE Echo!LockState \/ Echo!ClearRunning
  BY <1>7 DEF Echo!LockState, Echo!ClearRunning
<1>11. CASE Echo!NotifyAll
  BY <1>11 DEF Echo!NotifyAll
<1>12. CASE Echo!Unlock
  BY <1>12 DEF Echo!Unlock
<1>8. CASE UNCHANGED Echo!vars
  BY <1>8 DEF Echo!vars
<1> QED
  BY <1>1, <1>2, <1>3, <1>4, <1>5, <1>6, <1>7, <1>8, <1>9, <1>10, <1>11, <1>12
  DEF Echo!Next, Echo!Caller, Echo!Task

LEMMA EchoIsSafe ==
    EchoIInv => Echo!TypeOK /\ Echo!TrackerAlive /\ Echo!SummaryFinal
  BY DEF EchoIInv, EchoFinal, Echo!TrackerAlive, Echo!SummaryFinal, EchoWaits

-----------------------------------------------------------------------------
(* ESP-NOW. *)

(* A thread that is in a call uses an EspNow that exists, and one that     *)
(* drops it is alone; the slots are empty when there is none.              *)
NowIInv ==
    /\ Now!TypeOK /\ Now!NothingLeft /\ Now!ClosureOfLiving
    /\ \A t \in Threads : nowPc[t] # "idle" => nowTaken
    /\ \A t, u \in Threads :
          nowPc[t] \in {"deinit", "clear"} /\ nowPc[u] # "idle" => t = u
    /\ \A k \in Kinds : nowSlot[k] # None => nowSlot[k] = takes
    /\ ~ nowTaken => \A k \in Kinds : cb[k] = "idle"
    /\ \A t \in Threads :
          nowPc[t] = "clear" => registered = {} /\ \A k \in Kinds : cb[k] = "idle"

(* With one thread, nobody sets a slot while it is being emptied.          *)
NowAlone ==
    /\ Now!CallbackAvailable
    /\ \A k \in registered : nowSlot[k] # None
    /\ \A t \in Threads :
          /\ nowPc[t] = "register" => nowSlot[kind[t]] # None
          /\ nowPc[t] = "unset" => kind[t] \notin registered /\ cb[kind[t]] # "entered"

LEMMA NowInit == ASSUME Now!EspNowAssumption, Now!Init PROVE NowIInv /\ NowAlone
<1>1. Now!TypeOK
  <2>1. 0 \in 0 .. MaxTakes
    BY DEF Now!EspNowAssumption
  <2> QED
    BY <2>1 DEF Now!Init, Now!TypeOK
<1> QED
  BY <1>1
  DEF Now!Init, NowIInv, NowAlone, Now!NothingLeft, Now!ClosureOfLiving,
      Now!CallbackAvailable

LEMMA NowStep ==
    ASSUME Now!EspNowAssumption, NowIInv, [Now!Next]_(Now!vars)
    PROVE  NowIInv'
<1> USE DEF NowIInv, Now!TypeOK, Now!NothingLeft, Now!ClosureOfLiving,
        Now!Dropping,
            Now!Return, Now!Unlocked
<1>0. None \notin Kinds /\ None \notin 0 .. MaxTakes /\ MaxTakes \in Nat
  BY DEF Now!EspNowAssumption
<1>1. ASSUME NEW t \in Threads, Now!Take(t) PROVE NowIInv'
  <2>1. takes' \in 0 .. MaxTakes
    BY <1>0, <1>1 DEF Now!Take
  <2> QED
    BY <1>0, <1>1, <2>1 DEF Now!Take
<1>2. ASSUME NEW t \in Threads, Now!Register(t) \/ Now!ClearSlot(t) PROVE NowIInv'
  <2>1. Now!TypeOK'
    BY <1>0, <1>2 DEF Now!Register, Now!ClearSlot
  <2> QED
    BY <1>0, <1>2, <2>1 DEF Now!Register, Now!ClearSlot
<1>3. ASSUME NEW t \in Threads, NEW k \in Kinds, Now!SetSlot(t, k) PROVE NowIInv'
  <2>1. Now!TypeOK'
    BY <1>0, <1>3 DEF Now!SetSlot
  <2> QED
    BY <1>0, <1>3, <2>1 DEF Now!SetSlot
<1>4. ASSUME NEW t \in Threads, NEW k \in Kinds, Now!Unregister(t, k) PROVE NowIInv'
  <2>1. Now!TypeOK'
    BY <1>0, <1>4 DEF Now!Unregister
  <2> QED
    BY <1>0, <1>4, <2>1 DEF Now!Unregister
<1>5. ASSUME NEW t \in Threads, Now!Drop(t) \/ Now!Deinit(t) PROVE NowIInv'
  BY <1>0, <1>5 DEF Now!Drop, Now!Deinit
<1>6. ASSUME NEW t \in Threads, Now!Clear(t) PROVE NowIInv'
  <2>1. Now!TypeOK'
    BY <1>0, <1>6 DEF Now!Clear
  <2> QED
    BY <1>0, <1>6, <2>1 DEF Now!Clear
<1>7. ASSUME NEW k \in Kinds, Now!Enter(k) \/ Now!Run(k) \/ Now!Leave(k)
      PROVE  NowIInv'
  BY <1>0, <1>7 DEF Now!Enter, Now!Run, Now!Leave
<1>8. CASE UNCHANGED Now!vars
  BY <1>8 DEF Now!vars
<1> QED
  BY <1>1, <1>2, <1>3, <1>4, <1>5, <1>6, <1>7, <1>8 DEF Now!Next

LEMMA NowAloneStep ==
    ASSUME Now!EspNowAssumption, \A t, u \in Threads : t = u,
           NowIInv, NowAlone, [Now!Next]_(Now!vars)
    PROVE  NowAlone'
<1> USE DEF NowAlone, Now!CallbackAvailable, Now!TypeOK, Now!Return,
        Now!Unlocked
<1>0. None \notin Kinds /\ None \notin 0 .. MaxTakes /\ MaxTakes \in Nat
  BY DEF Now!EspNowAssumption
<1>1. ASSUME NEW t \in Threads,
             Now!Take(t) \/ Now!Drop(t) \/ Now!Deinit(t) \/ Now!Clear(t)
      PROVE  NowAlone'
  BY <1>0, <1>1 DEF NowIInv, Now!Take, Now!Drop, Now!Deinit, Now!Clear
<1>2. ASSUME NEW t \in Threads, Now!Register(t) \/ Now!ClearSlot(t) PROVE NowAlone'
  BY <1>0, <1>2 DEF NowIInv, Now!Register, Now!ClearSlot
<1>3. ASSUME NEW t \in Threads, NEW k \in Kinds, Now!SetSlot(t, k)
      PROVE  NowAlone'
  BY <1>0, <1>3 DEF NowIInv, Now!SetSlot
<1>6. ASSUME NEW t \in Threads, NEW k \in Kinds, Now!Unregister(t, k)
      PROVE  NowAlone'
  BY <1>0, <1>6 DEF NowIInv, Now!Unregister
<1>4. ASSUME NEW k \in Kinds, Now!Enter(k) \/ Now!Run(k) \/ Now!Leave(k)
      PROVE  NowAlone'
  BY <1>0, <1>4 DEF NowIInv, Now!Enter, Now!Run, Now!Leave
<1>5. CASE UNCHANGED Now!vars
  BY <1>5 DEF Now!vars
<1> QED
  BY <1>1, <1>2, <1>3, <1>4, <1>5, <1>6 DEF Now!Next

LEMMA NowIsSafe ==
    ASSUME NowIInv
    PROVE  Now!TypeOK /\ Now!NothingLeft /\ Now!ClosureOfLiving
  BY DEF NowIInv

-----------------------------------------------------------------------------
(* Thread. *)

(* The state of the driver tells of the task; the owner waits until a task *)
(* it has created has said so, and frees the driver when the task has said *)
(* that it is over. Closures run in the main loop.                         *)
OtIInv ==
    /\ Ot!TypeOK /\ Ot!InnerAlive /\ Ot!SlotsInUse
    /\ started <=> otTask \in {"told", "loop", "tail"}
    /\ otTask = "begin" => otPc = "starting"
    /\ otPc = "deinit" => otTask \in {"none", "telling"}
    /\ dataset \in Tods \union {None}

LEMMA OtMode ==
    ASSUME Ot!TypeOK, mode' \in Ot!Modes
    PROVE  (Ot!IsHost <=> Ot!PlatformConfig(mode).host = "none")'
  BY DEF Ot!Modes, Ot!IsHost, Ot!PlatformConfig, Ot!HostConfig, Ot!RcpConfig

LEMMA OtInit == ASSUME Ot!Init PROVE OtIInv
<1>1. mode \in Ot!Modes /\ (Ot!IsHost <=> Ot!PlatformConfig(mode).host = "none")
  BY DEF Ot!Init, Ot!Modes, Ot!IsHost, Ot!PlatformConfig, Ot!HostConfig
<1>2. Ot!TypeOK
  BY <1>1 DEF Ot!Init, Ot!TypeOK, Ot!Unset
<1> QED
  BY <1>2 DEF Ot!Init, OtIInv, Ot!InnerAlive, Ot!SlotsInUse, Ot!Unset

LEMMA OtStep ==
    ASSUME Ot!ThreadAssumption, OtIInv, [Ot!Next]_(Ot!vars)
    PROVE  OtIInv' /\ dataset' \in Tods \union {None}
<1> SUFFICES OtIInv'
  BY DEF OtIInv
<1> USE DEF OtIInv, Ot!TypeOK, Ot!InnerAlive, Ot!SlotsInUse, Ot!tods, Ot!run,
            Ot!closures, Ot!owner, Ot!Unlocked, Ot!Idle
<1>0. UNCHANGED mode => (Ot!IsHost <=> Ot!PlatformConfig(mode).host = "none")'
  BY OtMode
<1>1. ASSUME NEW m \in Ot!Modes, Ot!New(m) PROVE OtIInv'
  <2>1. mode' \in Ot!Modes
    BY <1>1 DEF Ot!New
  <2> QED
    BY <1>1, <2>1, OtMode DEF Ot!New
<1>2. CASE Ot!WrapInEsp
  BY <1>0, <1>2 DEF Ot!WrapInEsp, Ot!Wrappable
<1>3. CASE Ot!Start
  BY <1>0, <1>3 DEF Ot!Start
<1>17. CASE Ot!Stop
  <2>1. Ot!TypeOK'
    BY <1>0, <1>17 DEF Ot!Stop
  <2>2. Ot!InnerAlive' /\ Ot!SlotsInUse'
    BY <1>17 DEF Ot!Stop
  <2> QED
    BY <1>17, <2>1, <2>2 DEF Ot!Stop
<1>4. CASE Ot!Check
  <2>1. Ot!TypeOK'
    BY <1>0, <1>4 DEF Ot!Check, Ot!WaitsFor
  <2>2. Ot!InnerAlive' /\ Ot!SlotsInUse'
    BY <1>4 DEF Ot!Check, Ot!WaitsFor
  <2>3. UNCHANGED <<started, otTask, dataset>>
    BY <1>4 DEF Ot!Check
  <2>4. otTask = "begin" => otPc' = "starting"
    BY <1>4 DEF Ot!Check, Ot!WaitsFor
  <2>5. otPc' = "deinit" => otTask \in {"none", "telling"}
    BY <1>4 DEF Ot!Check, Ot!WaitsFor
  <2> QED
    BY <2>1, <2>2, <2>3, <2>4, <2>5
<1>18. CASE Ot!Spurious
  <2>1. Ot!TypeOK'
    BY <1>0, <1>18 DEF Ot!Spurious
  <2>2. Ot!InnerAlive' /\ Ot!SlotsInUse'
    BY <1>18 DEF Ot!Spurious
  <2> QED
    BY <1>18, <2>1, <2>2 DEF Ot!Spurious
<1>5. CASE Ot!DropEsp
  BY <1>0, <1>5 DEF Ot!DropEsp
<1>6. CASE Ot!Drop
  BY <1>0, <1>6 DEF Ot!Drop, Ot!StopInDrop
<1>7. CASE Ot!Deinit
  BY <1>0, <1>7 DEF Ot!Deinit, Ot!Unset
<1>8. ASSUME NEW slot \in Ot!Scans, Ot!Scan(slot) PROVE OtIInv'
  <2>1. slot \in Ot!Slots /\ otCur # slot
    BY <1>8 DEF Ot!ThreadAssumption, Ot!Scan, Ot!Slots, Ot!Scans
  <2>2. /\ {otCb', reg'} \subseteq [Ot!Slots -> BOOLEAN]
        /\ otCur # None => otCb'[otCur]
        /\ \A k \in Ot!Slots : reg'[k] <=> otCb'[k]
    BY <1>8, <2>1 DEF Ot!Scan, Ot!ScanFails
  <2>3. UNCHANGED <<Ot!owner, Ot!run, otCur, Ot!tods>>
    BY <1>8 DEF Ot!Scan
  <2> QED
    BY <1>0, <2>2, <2>3
<1>9. ASSUME NEW given \in BOOLEAN, Ot!SetRxCallback(given) PROVE OtIInv'
  BY <1>0, <1>9 DEF Ot!SetRxCallback, Ot!Called, Ot!Slots
<1>10. ASSUME NEW tod \in Tods \union Oversized, NEW hexstr \in BOOLEAN,
              Ot!SetTod(tod, hexstr)
       PROVE  OtIInv'
  BY <1>0, <1>10 DEF Ot!SetTod, Ot!FillDataset
<1>11. CASE Ot!Tod
  BY <1>0, <1>11 DEF Ot!Tod
<1>12. ASSUME NEW slot \in Ot!Slots, Ot!OnResult(slot) PROVE OtIInv'
  BY <1>0, <1>12 DEF Ot!OnResult
<1>13. CASE Ot!Begin \/ Ot!LaunchMainloop
  BY <1>0, <1>13 DEF Ot!Begin, Ot!LaunchMainloop, Ot!Tell, Ot!Notify
<1>14. CASE Ot!MainloopEnds
  BY <1>0, <1>14 DEF Ot!MainloopEnds
<1>19. CASE Ot!End
  BY <1>0, <1>19 DEF Ot!End, Ot!Tell
<1>20. CASE Ot!Destroy
  BY <1>0, <1>20 DEF Ot!Destroy, Ot!Notify
<1>15. ASSUME NEW end \in BOOLEAN, Ot!Returns(end) PROVE OtIInv'
  <2>1. otCb' \in [Ot!Slots -> BOOLEAN] /\ reg' \in [Ot!Slots -> BOOLEAN]
    <3>1. CASE end
      BY <1>15, <3>1 DEF Ot!Returns
    <3>2. CASE ~ end
      BY <1>15, <3>2 DEF Ot!Returns
    <3> QED
      BY <3>1, <3>2
  <2>4. Ot!TypeOK'
    BY <1>0, <1>15, <2>1 DEF Ot!Returns
  <2>2. Ot!InnerAlive'
    BY <1>15 DEF Ot!Returns
  <2>3. Ot!SlotsInUse'
    BY <1>15 DEF Ot!Returns, Ot!Scans
  <2> QED
    BY <1>15, <2>2, <2>3, <2>4 DEF Ot!Returns
<1>16. CASE UNCHANGED Ot!vars
  BY <1>0, <1>16 DEF Ot!vars
<1> QED
  BY <1>1, <1>2, <1>3, <1>4, <1>5, <1>6, <1>7, <1>8, <1>9, <1>10, <1>11,
     <1>12, <1>13, <1>14, <1>15, <1>16, <1>17, <1>18, <1>19, <1>20
  DEF Ot!Next, Ot!Task

-----------------------------------------------------------------------------
(* The composition runs its parts. *)
LEMMA Steps ==
    ASSUME [Next]_vars
    PROVE  /\ [Driver!Next]_(Driver!vars) /\ [Timer!Next]_(Timer!vars)
           /\ [Bt!Next]_(Bt!vars) /\ [Time!Next]_(Time!vars)
           /\ [Echo!Next]_(Echo!vars) /\ [Now!Next]_(Now!vars)
           /\ [Ot!Next]_(Ot!vars)
<1> USE DEF Next, vars, driverVars, timerVars, btVars, sntpVars, pingVars,
        nowVars,
            otVars
<1>1. [Driver!Next]_(Driver!vars)
  BY DEF Driver!vars
<1>2. [Timer!Next]_(Timer!vars)
  BY DEF Timer!vars
<1>3. [Bt!Next]_(Bt!vars)
  BY DEF Bt!vars
<1>4. [Time!Next]_(Time!vars)
  BY DEF Time!vars
<1>5. [Echo!Next]_(Echo!vars)
  BY DEF Echo!vars
<1>6. [Now!Next]_(Now!vars)
  BY DEF Now!vars
<1>7. [Ot!Next]_(Ot!vars)
  BY DEF Ot!vars
<1> QED
  BY <1>1, <1>2, <1>3, <1>4, <1>5, <1>6, <1>7

IInv ==
    /\ DriverIInv /\ TimerIInv /\ BtIInv /\ TimeIInv /\ EchoIInv /\ NowIInv
    /\ OtIInv

(* In every reachable state the inductive invariants hold. *)
THEOREM Invariance == Spec => []IInv
<1>1. Init => IInv
  BY Assumptions, DriverInit, TimerInit, BtInit, TimeInit, EchoInit, NowInit,
     OtInit
  DEF Init, IInv
<1>2. IInv /\ [Next]_vars => IInv'
  BY Assumptions, Steps, DriverStep, TimerStep, BtStep, TimeStep, EchoStep,
     NowStep, OtStep
  DEF IInv
<1> QED
  BY <1>1, <1>2, PTL DEF Spec

(* The state of the services keeps to its types. *)
THEOREM TypeCorrect == Spec => []TypeOK
<1>1. IInv => TypeOK
  BY Assumptions, TimerIsSafe, BtIsSafe, TimeIsSafe, EchoIsSafe, NowIsSafe
  DEF IInv, TypeOK, DriverIInv, OtIInv
<1> QED
  BY <1>1, Invariance, PTL

(* While anybody sleeps on the time driver until a time before the last    *)
(* day of the epoch, and nobody holds its mutex, some alarm is set or the  *)
(* callback is on its way (timer.rs); for when, see OverflowSafety.        *)
THEOREM AlarmSafety == Spec => []NoLostAlarm
<1>1. IInv => NoLostAlarm
  BY DEF IInv, DriverIInv, NoLostAlarm
<1> QED
  BY <1>1, Invariance, PTL

(* after() completes on the expiry of its own arming (timer.rs). *)
THEOREM ExpirySafety == Spec => OwnExpiry
<1>1. IInv /\ [Next]_vars =>
        [Timer!Complete /\ timerPc = "after.wait" => notified = last \/ overlap]_(Timer!vars)
  BY TimerIsSafe DEF IInv
<1> QED
  BY <1>1, Invariance, PTL DEF Spec, OwnExpiry, Timer!OwnExpiry

(* The margin of a day does what it is for, however old the clock is: the  *)
(* alarm of a sleeper that is due before the last day of the epoch is not  *)
(* in the past, and as late as the clock went on while it was set, at most *)
(* (timer.rs); and no dataset that overflows its buffer is used in part    *)
(* (thread.rs).                                                            *)
THEOREM OverflowSafety == Spec => ArmedInTime
<1> DEFINE InTime ==
      /\ clock - now <= Day =>
           \A w \in Driver!Queued :
              queue[w] <= Driver!MaxSafeTimeout =>
                 alarm' \in clock .. queue[w] + (clock - now)
      /\ clock <= Day => alarm' >= clock
<1>1. IInv /\ [Next]_vars =>
        [phase = "start" /\ phase' = "free" => InTime]_(Driver!vars)
  <2> SUFFICES ASSUME IInv, [Next]_vars, phase = "start", phase' = "free"
               PROVE  InTime
    OBVIOUS
  <2>1. Driver!Start
    BY Steps
    DEF Driver!Next, Driver!vars, Driver!ScheduleWake, Driver!Fire,
        Driver!Callback, Driver!Expire, Driver!Tick
  <2> QED
    BY <2>1, Assumptions, DriverStart DEF IInv
<1>2. IInv /\ [Next]_vars => [dataset' \in Tods \union {None}]_dataset
  BY Assumptions, Steps, OtStep DEF IInv
<1> QED
  BY <1>1, <1>2, Invariance, PTL
  DEF Spec, ArmedInTime, Driver!ArmedInTime, Ot!NoOverflow

(* What the tasks of ESP-IDF use is alive: closures of timers (timer.rs),  *)
(* of Bluetooth (bt.rs), of ESP-NOW (espnow.rs) and of Thread (thread.rs), *)
(* and the tracker of ping() (ping.rs).                                    *)
THEOREM CalleeSafety ==
    Spec => [](/\ Timer!CallbackAlive /\ Bt!ClosureRemoved /\ Echo!TrackerAlive
               /\ Now!ClosureOfLiving /\ Ot!InnerAlive)
<1>1. IInv => /\ Timer!CallbackAlive /\ Bt!ClosureRemoved /\ Echo!TrackerAlive
              /\ Now!ClosureOfLiving /\ Ot!InnerAlive
  BY Assumptions, TimerIsSafe, BtIsSafe, EchoIsSafe, NowIsSafe DEF IInv, OtIInv
<1> QED
  BY <1>1, Invariance, PTL

(* No task of ESP-IDF is inside a closure of a service that is gone, or    *)
(* uses what it captures. SNTP: when a service with a closure cannot fail  *)
(* to start, since it would leave its closure behind (sntp.rs).            *)
THEOREM ClosureSafety ==
    ASSUME Failing \intersect WithCallback = {}
    PROVE  Spec => []ClosureOfLiving
<1>1. Init => TimeOwned
  BY Assumptions, TimeInit DEF Init
<1>2. IInv /\ TimeOwned /\ [Next]_vars => TimeOwned'
  BY Assumptions, Steps, TimeOwnedStep DEF IInv
<1>3. IInv /\ TimeOwned => ClosureOfLiving
  BY Assumptions, TimerIsSafe, BtIsSafe, TimeIsSafe, EchoIsSafe, NowIsSafe
  DEF IInv, OtIInv, ClosureOfLiving
<1> QED
  BY <1>1, <1>2, <1>3, Invariance, PTL DEF Spec

(* A Bluetooth singleton has one owner, whose subscription is the one it   *)
(* made last, and its release succeeds (bt.rs); there is one SNTP service  *)
(* (sntp.rs); the last owner of ESP-NOW leaves no closure behind           *)
(* (espnow.rs); a scan of Thread runs exactly while its closure is there   *)
(* (thread.rs).                                                            *)
THEOREM SingletonSafety ==
    Spec => [](/\ Bt!Exclusive /\ Bt!SubscriptionKept /\ Bt!ReleaseSucceeds
               /\ Time!OneService /\ Now!NothingLeft /\ Ot!SlotsInUse)
<1>1. IInv => /\ Bt!Exclusive /\ Bt!SubscriptionKept /\ Bt!ReleaseSucceeds
              /\ Time!OneService /\ Now!NothingLeft /\ Ot!SlotsInUse
  BY Assumptions, BtIsSafe, TimeIsSafe, NowIsSafe DEF IInv, OtIInv
<1> QED
  BY <1>1, Invariance, PTL

(* There is one instance of a service, with the closure it was given last, *)
(* however late the drop of the one before is. ESP-NOW: when one thread    *)
(* registers and unregisters, since two would leave a callback without a   *)
(* closure (espnow.rs).                                                    *)
THEOREM InstanceSafety ==
    ASSUME \A t, u \in Threads : t = u
    PROVE  Spec => []OneInstance
<1>1. Init => NowAlone
  BY Assumptions, NowInit DEF Init
<1>2. IInv /\ NowAlone /\ [Next]_vars => NowAlone'
  BY Assumptions, Steps, NowAloneStep DEF IInv
<1>3. IInv /\ NowAlone => OneInstance
  BY Assumptions, BtIsSafe, TimeIsSafe, NowIsSafe
  DEF IInv, OtIInv, NowAlone, OneInstance
<1> QED
  BY <1>1, <1>2, <1>3, Invariance, PTL DEF Spec

(* ping() returns the counts of the whole session (ping.rs). *)
THEOREM SummarySafety == Spec => []Echo!SummaryFinal
<1>1. IInv => Echo!SummaryFinal
  BY EchoIsSafe DEF IInv
<1> QED
  BY <1>1, Invariance, PTL
=============================================================================
