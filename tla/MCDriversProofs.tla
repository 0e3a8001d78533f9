--------------------------- MODULE MCDriversProofs ---------------------------
(***************************************************************************)
(* Proofs about the driver wrappers, for any closures, interfaces, modes,  *)
(* lengths of the event queue and durations of a wait. What MCDrivers does *)
(* is, seen from one of its parts, a behaviour of that part: for each part *)
(* an inductive invariant is proved of its specification, and the theorems *)
(* at the end put together what these imply.                               *)
(***************************************************************************)
EXTENDS MCDrivers, Sequences, SequenceTheorems, TLAPS

-----------------------------------------------------------------------------
(* The composition runs its components. *)
LEMMA Components ==
    Spec => Driver!Spec /\ Link!Spec /\ Ethernet!Spec /\ Profile!Spec
<1>1. Init => Driver!Init /\ Link!Init /\ Ethernet!Init /\ Profile!Init
  BY DEF Init
<1>2. [Next]_vars => [Driver!Next]_(Driver!vars)
  BY DEF Next, vars, wifiVars, Driver!vars
<1>3. [Next]_vars => [Link!Next]_(Link!vars)
  BY DEF Next, vars, linkVars, Link!vars
<1>4. [Next]_vars => [Ethernet!Next]_(Ethernet!vars)
  BY DEF Next, vars, ethVars, Ethernet!vars
<1>5. [Next]_vars => [Profile!Next]_(Profile!vars)
  BY DEF Next, vars, btVars, Profile!vars
<1> QED
  BY <1>1, <1>2, <1>3, <1>4, <1>5, PTL
  DEF Spec, Driver!Spec, Link!Spec, Ethernet!Spec, Profile!Spec

-----------------------------------------------------------------------------
(* What was posted last is dispatched last: the latest event of a kind in  *)
(* a queue, as Wifi and Eth define it.                                     *)

Latest(q, S) ==
    {q[k] : k \in {k \in DOMAIN q :
        q[k] \in S /\ \A l \in DOMAIN q : q[l] \in S => l <= k}}

(* A queue with an event of the kind has a latest one. *)
HasLatest(q, S) == (\E k \in DOMAIN q : q[k] \in S) => Latest(q, S) # {}

LEMMA LatestAppend ==
    ASSUME NEW E, NEW S, NEW q \in Seq(E), NEW e \in E, HasLatest(q, S)
    PROVE  /\ HasLatest(Append(q, e), S)
           /\ e \in S => Latest(Append(q, e), S) = {e}
           /\ e \notin S => Latest(Append(q, e), S) = Latest(q, S)
<1> DEFINE r == Append(q, e)
<1>1. /\ DOMAIN q = 1 .. Len(q) /\ Len(q) \in Nat
      /\ DOMAIN r = 1 .. Len(q) + 1
      /\ r[Len(q) + 1] = e
      /\ \A k \in 1 .. Len(q) : r[k] = q[k]
  OBVIOUS
<1> HIDE DEF r
<1>2. CASE e \in S
  <2>1. \A k \in DOMAIN r :
          (r[k] \in S /\ \A l \in DOMAIN r : r[l] \in S => l <= k) <=> k = Len(q) + 1
    BY <1>1, <1>2
  <2>2. Latest(r, S) = {e}
    BY <1>1, <2>1 DEF Latest
  <2> QED
    BY <1>2, <2>2 DEF HasLatest, r
<1>3. CASE e \notin S
  <2>1. \A k \in DOMAIN r :
          (r[k] \in S /\ \A l \in DOMAIN r : r[l] \in S => l <= k)
          <=> /\ k \in DOMAIN q /\ q[k] \in S
              /\ \A l \in DOMAIN q : q[l] \in S => l <= k
    BY <1>1, <1>3
  <2>2. Latest(r, S) = Latest(q, S)
    BY <1>1, <2>1 DEF Latest
  <2>3. (\E k \in DOMAIN r : r[k] \in S) => \E k \in DOMAIN q : q[k] \in S
    BY <1>1, <1>3
  <2> QED
    BY <1>3, <2>2, <2>3 DEF HasLatest, r
<1> QED
  BY <1>2, <1>3

LEMMA LatestTail ==
    ASSUME NEW E, NEW S, NEW q \in Seq(E), q # <<>>, HasLatest(q, S)
    PROVE  /\ HasLatest(Tail(q), S)
           /\ Latest(q, S) =
                 IF Head(q) \in S /\ Latest(Tail(q), S) = {}
                 THEN {Head(q)} ELSE Latest(Tail(q), S)
<1> DEFINE t == Tail(q)
           Is(s, k) == /\ k \in DOMAIN s /\ s[k] \in S
                       /\ \A l \in DOMAIN s : s[l] \in S => l <= k
<1>1. /\ DOMAIN q = 1 .. Len(q) /\ Len(q) \in Nat \ {0}
      /\ DOMAIN t = 1 .. Len(q) - 1
      /\ \A k \in 1 .. Len(q) - 1 : t[k] = q[k + 1]
      /\ Head(q) = q[1]
  OBVIOUS
<1>2. Latest(q, S) = {q[k] : k \in {k \in DOMAIN q : Is(q, k)}}
  BY DEF Latest
<1>3. Latest(t, S) = {t[k] : k \in {k \in DOMAIN t : Is(t, k)}}
  BY DEF Latest
<1> HIDE DEF t
<1>4. \A k \in DOMAIN t : Is(t, k) <=> Is(q, k + 1)
  <2>1. ASSUME NEW k \in DOMAIN t, Is(t, k) PROVE Is(q, k + 1)
    <3>1. k + 1 \in DOMAIN q /\ q[k + 1] \in S
      BY <1>1, <2>1
    <3>2. ASSUME NEW l \in DOMAIN q, q[l] \in S PROVE l <= k + 1
      <4>1. CASE l = 1
        BY <1>1, <4>1
      <4>2. CASE l # 1
        <5>1. l - 1 \in DOMAIN t /\ t[l - 1] = q[l]
          BY <1>1, <4>2
        <5>2. l - 1 <= k
          BY <2>1, <3>2, <5>1
        <5> QED
          BY <1>1, <5>2
      <4> QED
        BY <4>1, <4>2
    <3> QED
      BY <3>1, <3>2
  <2>2. ASSUME NEW k \in DOMAIN t, Is(q, k + 1) PROVE Is(t, k)
    <3>1. ASSUME NEW l \in DOMAIN t, t[l] \in S PROVE l <= k
      <4>1. l + 1 \in DOMAIN q /\ q[l + 1] \in S
        BY <1>1, <3>1
      <4>2. l + 1 <= k + 1
        BY <2>2, <4>1
      <4> QED
        BY <1>1, <4>2
    <3> QED
      BY <1>1, <2>2, <3>1
  <2> QED
    BY <2>1, <2>2
<1>5. \A k \in DOMAIN q : Is(q, k) => Latest(q, S) = {q[k]}
  <2>1. ASSUME NEW k \in DOMAIN q, Is(q, k), NEW l \in DOMAIN q, Is(q, l) PROVE k = l
    BY <1>1, <2>1
  <2> QED
    BY <1>2, <2>1
<1>6. \A k \in DOMAIN t : Is(t, k) => Latest(t, S) = {t[k]}
  <2>1. ASSUME NEW k \in DOMAIN t, Is(t, k), NEW l \in DOMAIN t, Is(t, l) PROVE k = l
    BY <1>1, <2>1
  <2> QED
    BY <1>3, <2>1
<1>7. CASE \E k \in DOMAIN t : t[k] \in S
  <2>1. PICK k \in DOMAIN t : t[k] \in S
    BY <1>7
  <2>2. k + 1 \in DOMAIN q /\ q[k + 1] \in S /\ k + 1 > 1
    BY <1>1, <2>1
  <2>3. PICK m \in DOMAIN q : Is(q, m)
    BY <1>2, <2>2 DEF HasLatest
  <2>4. k + 1 <= m
    BY <2>2, <2>3
  <2>5. m - 1 \in DOMAIN t /\ (m - 1) + 1 = m /\ t[m - 1] = q[m]
    BY <1>1, <2>2, <2>4
  <2>6. Is(t, m - 1)
    BY <1>4, <2>3, <2>5
  <2>7. Latest(t, S) = {t[m - 1]} /\ Latest(q, S) = {q[m]}
    BY <1>5, <1>6, <2>3, <2>5, <2>6
  <2> QED
    BY <2>5, <2>7 DEF HasLatest, t
<1>8. CASE ~ \E k \in DOMAIN t : t[k] \in S
  <2>1. Latest(t, S) = {}
    BY <1>3, <1>8
  <2>2. \A l \in DOMAIN q : q[l] \in S => l = 1
    <3> SUFFICES ASSUME NEW l \in DOMAIN q, q[l] \in S, l # 1 PROVE FALSE
      OBVIOUS
    <3>1. l - 1 \in DOMAIN t /\ t[l - 1] = q[l]
      BY <1>1
    <3> QED
      BY <1>8, <3>1
  <2>3. 1 \in DOMAIN q
    BY <1>1
  <2>4. CASE Head(q) \in S
    <3>1. Is(q, 1)
      BY <1>1, <2>2, <2>3, <2>4
    <3> QED
      BY <1>1, <1>5, <1>8, <2>1, <2>3, <2>4, <3>1 DEF HasLatest, t
  <2>5. CASE ~ Head(q) \in S
    <3>1. Latest(q, S) = {}
      BY <1>1, <1>2, <2>2, <2>5
    <3> QED
      BY <1>8, <2>1, <2>5, <3>1 DEF HasLatest, t
  <2> QED
    BY <2>4, <2>5
<1> QED
  BY <1>7, <1>8

-----------------------------------------------------------------------------
(* The Wi-Fi driver. It changes its state and posts the events of it in    *)
(* one step; the station and the access point have events of their own.    *)

(* What an event tells of the station and of the access point.             *)
WifiStaOf(event) ==
    CASE event = "StaStarted" -> "Started"
      [] event = "StaStopped" -> "Stopped"
      [] event = "StaConnected" -> "Connected"
      [] event = "StaDisconnected" -> "Started"

WifiApOf(event) == IF event = "ApStarted" THEN "Started" ELSE "Stopped"

(* Once the events in q are dispatched the status st shows the station as  *)
(* s and the access point as a.                                            *)
WifiShows(q, st, s, a) ==
    /\ q \in Seq(Driver!Kinds)
    /\ HasLatest(q, Driver!StaEvents) /\ HasLatest(q, Driver!ApEvents)
    /\ Latest(q, Driver!StaEvents) = {} => st.sta = s
    /\ \A e \in Latest(q, Driver!StaEvents) : WifiStaOf(e) = s
    /\ Latest(q, Driver!ApEvents) = {} => st.ap = a
    /\ \A e \in Latest(q, Driver!ApEvents) : WifiApOf(e) = a

LEMMA WifiPostIf ==
    ASSUME NEW q, NEW st, NEW s, NEW a, WifiShows(q, st, s, a),
           NEW c \in BOOLEAN, NEW e \in Driver!Kinds
    PROVE  WifiShows(q \o Driver!EventIf(c, e), st,
                     IF c /\ e \in Driver!StaEvents THEN WifiStaOf(e) ELSE s,
                     IF c /\ e \in Driver!ApEvents THEN WifiApOf(e) ELSE a)
<1>1. q \in Seq(Driver!Kinds)
  BY DEF WifiShows
<1>2. CASE c
  <2>1. q \o Driver!EventIf(c, e) = Append(q, e) /\ Append(q, e) \in Seq(Driver!Kinds)
    <3>1. Driver!EventIf(c, e) = <<e>>
      BY <1>2 DEF Driver!EventIf
    <3> QED
      BY <1>1, <3>1, AppendIsConcat
  <2>2. /\ HasLatest(Append(q, e), Driver!StaEvents)
        /\ e \in Driver!StaEvents =>
              Latest(Append(q, e), Driver!StaEvents) = {e}
        /\ e \notin Driver!StaEvents =>
              Latest(Append(q, e), Driver!StaEvents) = Latest(q, Driver!StaEvents)
    BY LatestAppend DEF WifiShows
  <2>3. /\ HasLatest(Append(q, e), Driver!ApEvents)
        /\ e \in Driver!ApEvents =>
              Latest(Append(q, e), Driver!ApEvents) = {e}
        /\ e \notin Driver!ApEvents =>
              Latest(Append(q, e), Driver!ApEvents) = Latest(q, Driver!ApEvents)
    BY LatestAppend DEF WifiShows
  <2> QED
    BY <1>2, <2>1, <2>2, <2>3 DEF WifiShows
<1>3. CASE ~ c
  <2>1. q \o Driver!EventIf(c, e) = q
    BY <1>1, <1>3, ConcatEmptySeq DEF Driver!EventIf
  <2> QED
    BY <1>3, <2>1
<1> QED
  BY <1>2, <1>3
LEMMA WifiDispatched ==
    ASSUME NEW q, NEW st, NEW s, NEW a, NEW st2, WifiShows(q, st, s, a), q # <<>>,
           st2.sta = IF Head(q) \in Driver!StaEvents
                     THEN WifiStaOf(Head(q)) ELSE st.sta,
           st2.ap = IF Head(q) \in Driver!ApEvents
                    THEN WifiApOf(Head(q)) ELSE st.ap
    PROVE  WifiShows(Tail(q), st2, s, a)
<1>1. q \in Seq(Driver!Kinds) /\ Tail(q) \in Seq(Driver!Kinds)
  BY DEF WifiShows
<1>2. /\ HasLatest(Tail(q), Driver!StaEvents)
      /\ Latest(q, Driver!StaEvents) =
            IF Head(q) \in Driver!StaEvents /\ Latest(Tail(q), Driver!StaEvents) = {}
            THEN {Head(q)} ELSE Latest(Tail(q), Driver!StaEvents)
  BY <1>1, LatestTail DEF WifiShows
<1>3. /\ HasLatest(Tail(q), Driver!ApEvents)
      /\ Latest(q, Driver!ApEvents) =
            IF Head(q) \in Driver!ApEvents /\ Latest(Tail(q), Driver!ApEvents) = {}
            THEN {Head(q)} ELSE Latest(Tail(q), Driver!ApEvents)
  BY <1>1, LatestTail DEF WifiShows
<1> QED
  BY <1>1, <1>2, <1>3 DEF WifiShows

(* The event of the station, or of the access point, alone. *)
LEMMA WifiPostSta ==
    ASSUME NEW q, NEW st, NEW s, NEW a, WifiShows(q, st, s, a),
           NEW c \in BOOLEAN, NEW e \in Driver!Kinds,
           e \in Driver!StaEvents, e \notin Driver!ApEvents
    PROVE  WifiShows(q \o Driver!EventIf(c, e), st,
                     IF c THEN WifiStaOf(e) ELSE s, a)
<1>1. WifiShows(q \o Driver!EventIf(c, e), st,
                IF c /\ e \in Driver!StaEvents THEN WifiStaOf(e) ELSE s,
                IF c /\ e \in Driver!ApEvents THEN WifiApOf(e) ELSE a)
  BY WifiPostIf
<1> QED
  BY <1>1, Zenon

LEMMA WifiPostAp ==
    ASSUME NEW q, NEW st, NEW s, NEW a, WifiShows(q, st, s, a),
           NEW c \in BOOLEAN, NEW e \in Driver!Kinds,
           e \in Driver!ApEvents, e \notin Driver!StaEvents
    PROVE  WifiShows(q \o Driver!EventIf(c, e), st,
                     s, IF c THEN WifiApOf(e) ELSE a)
<1>1. WifiShows(q \o Driver!EventIf(c, e), st,
                IF c /\ e \in Driver!StaEvents THEN WifiStaOf(e) ELSE s,
                IF c /\ e \in Driver!ApEvents THEN WifiApOf(e) ELSE a)
  BY WifiPostIf
<1> QED
  BY <1>1, Zenon

(* A connection that is being made is not shown. *)
WifiSta == IF sta = "Connecting" THEN "Started" ELSE sta

WifiIInv == Driver!TypeOK /\ WifiShows(queue, status, WifiSta, ap)

WifiStatuses ==
    [sta : {"Stopped", "Started", "Connected"}, ap : {"Stopped", "Started"},
     scan : {"Idle", "Started", "Done"},
     wps : {"none"} \union {Driver!Outcome(event) : event \in Driver!WpsEvents}]

WifiWait == async \in BOOLEAN /\ stage \in {"none", "look", "park", "sleep"}

LEMMA WifiInitIInv ==
    ASSUME Driver!ModesAssumption, Driver!Init PROVE WifiIInv
<1>1. queue \in Seq(Driver!Kinds) /\ Len(queue) = 0 /\ DOMAIN queue = {}
  BY DEF Driver!Init
<1>2. /\ Latest(queue, Driver!StaEvents) = {} /\ HasLatest(queue, Driver!StaEvents)
      /\ Latest(queue, Driver!ApEvents) = {} /\ HasLatest(queue, Driver!ApEvents)
  BY <1>1 DEF Latest, HasLatest
<1>3. WifiShows(queue, status, WifiSta, ap)
  BY <1>1, <1>2 DEF Driver!Init, WifiShows, WifiSta
<1>4. Driver!TypeOK
  <2>1. status \in WifiStatuses
    BY DEF Driver!Init, WifiStatuses
  <2>2. /\ mode \in Modes /\ sta = "Stopped" /\ ap = "Stopped" /\ wifiPc = "idle"
        /\ scanning \in BOOLEAN /\ pairing \in BOOLEAN
        /\ WifiWait /\ success \in BOOLEAN
    BY DEF Driver!Init, WifiWait
  <2>3. Len(queue) <= MaxQueue
    BY <1>1 DEF Driver!ModesAssumption
  <2> QED
    BY <1>1, <2>1, <2>2, <2>3 DEF Driver!TypeOK, WifiStatuses, WifiWait
<1> QED
  BY <1>3, <1>4 DEF WifiIInv

(* The status is mirrored field by field. *)
LEMMA WifiMirrored ==
    ASSUME NEW st \in WifiStatuses, NEW e \in Driver!Kinds
    PROVE  /\ Driver!Mirrored(st, e) \in WifiStatuses
           /\ Driver!Mirrored(st, e).sta =
                 IF e \in Driver!StaEvents THEN WifiStaOf(e) ELSE st.sta
           /\ Driver!Mirrored(st, e).ap =
                 IF e \in Driver!ApEvents THEN WifiApOf(e) ELSE st.ap
<1>1. CASE e \in Driver!WpsEvents
  <2> DEFINE o == Driver!Outcome(e)
             W == {"none"} \union {Driver!Outcome(event) : event \in Driver!WpsEvents}
  <2>1. o \in W
    BY <1>1
  <2>2. Driver!Mirrored(st, e) = [st EXCEPT !.wps = o]
    BY <1>1 DEF Driver!Mirrored, Driver!WpsEvents
  <2>3. e \notin Driver!StaEvents /\ e \notin Driver!ApEvents
    BY <1>1 DEF Driver!WpsEvents, Driver!StaEvents, Driver!ApEvents
  <2> HIDE DEF o, W
  <2>4. WifiStatuses = [sta : {"Stopped", "Started", "Connected"},
                        ap : {"Stopped", "Started"},
                        scan : {"Idle", "Started", "Done"}, wps : W]
    BY DEF WifiStatuses, W
  <2> QED
    BY <2>1, <2>2, <2>3, <2>4
<1>2. CASE e \notin Driver!WpsEvents
  <2>1. e \in Driver!StaEvents \union Driver!ApEvents \union {"ScanDone"}
    BY <1>2 DEF Driver!Kinds, Driver!StaEvents, Driver!ApEvents
  <2> QED
    BY <1>2, <2>1 DEF Driver!Mirrored, Driver!StaEvents, Driver!ApEvents,
       WifiStaOf,
       WifiApOf, WifiStatuses
<1> QED
  BY <1>1, <1>2

LEMMA WifiDispatchKeepsIInv ==
    ASSUME Driver!ModesAssumption, WifiIInv, Driver!Dispatch
    PROVE  WifiIInv'
<1>1. /\ queue # <<>> /\ queue' = Tail(queue)
      /\ status' = Driver!Mirrored(status, Head(queue))
      /\ UNCHANGED <<mode, sta, ap, scanning, pairing, wifiPc, success>>
  BY DEF Driver!Dispatch
<1>2. /\ queue \in Seq(Driver!Kinds) /\ Len(queue) <= MaxQueue /\ MaxQueue \in Nat
      /\ status \in WifiStatuses
  BY DEF WifiIInv, Driver!TypeOK, WifiStatuses, Driver!ModesAssumption
<1>3. /\ Head(queue) \in Driver!Kinds /\ queue' \in Seq(Driver!Kinds)
      /\ Len(queue') <= MaxQueue
  <2>1. Len(queue') = Len(queue) - 1 /\ Len(queue) \in Nat
    BY <1>1, <1>2
  <2> QED
    BY <1>1, <1>2, <2>1
<1>4. /\ status' \in WifiStatuses
      /\ WifiShows(queue', status', WifiSta, ap)
  BY <1>1, <1>2, <1>3, WifiMirrored, WifiDispatched DEF WifiIInv
<1>5. WifiWait'
  BY DEF Driver!Dispatch, WifiIInv, Driver!TypeOK, WifiWait
<1>6. Driver!TypeOK'
  BY <1>1, <1>3, <1>4, <1>5 DEF WifiIInv, Driver!TypeOK, WifiStatuses, WifiWait
<1> QED
  BY <1>1, <1>4, <1>6 DEF WifiIInv, WifiSta

(* What is posted is one event, or up to four. *)
LEMMA WifiPosted ==
    ASSUME Driver!ModesAssumption, WifiIInv,
           NEW events \in Seq(Driver!Kinds), Driver!Post(events)
    PROVE  /\ queue' = queue \o events
           /\ queue' \in Seq(Driver!Kinds) /\ Len(queue') <= MaxQueue
<1>1. /\ queue \in Seq(Driver!Kinds) /\ queue' = queue \o events
      /\ Len(queue) + Len(events) <= MaxQueue
  BY DEF WifiIInv, Driver!TypeOK, Driver!Post
<1>2. queue' \in Seq(Driver!Kinds) /\ Len(queue') = Len(queue) + Len(events)
  BY <1>1, ConcatProperties
<1> QED
  BY <1>1, <1>2

LEMMA WifiEventIf ==
    ASSUME NEW c \in BOOLEAN, NEW e \in Driver!Kinds
    PROVE  Driver!EventIf(c, e) \in Seq(Driver!Kinds)
BY DEF Driver!EventIf

LEMMA WifiStartKeepsIInv ==
    ASSUME Driver!ModesAssumption, WifiIInv, Driver!Start, status' = status
    PROVE  /\ WifiShows(queue', status', WifiSta', ap') /\ Len(queue') <= MaxQueue
           /\ sta' \in {"Stopped", "Started", "Connecting", "Connected"}
           /\ ap' \in {"Stopped", "Started"}
           /\ mode' = mode /\ scanning' \in BOOLEAN /\ pairing' \in BOOLEAN
<1> DEFINE s == sta' # sta
           a == ap' # ap
           q == queue \o Driver!EventIf(s, "StaStarted")
           r == q \o Driver!EventIf(a, "ApStarted")
<1>1. /\ sta \in {"Stopped", "Started", "Connecting", "Connected"}
      /\ ap \in {"Stopped", "Started"}
      /\ scanning \in BOOLEAN /\ pairing \in BOOLEAN
      /\ WifiShows(queue, status, WifiSta, ap) /\ queue \in Seq(Driver!Kinds)
  BY DEF WifiIInv, Driver!TypeOK
<1>2. /\ sta' = IF "sta" \in mode /\ sta = "Stopped" THEN "Started" ELSE sta
      /\ ap' = IF "ap" \in mode THEN "Started" ELSE ap
      /\ UNCHANGED <<mode, scanning, pairing>>
  BY DEF Driver!Start
<1>3. "StaStarted" \in Driver!Kinds /\ "ApStarted" \in Driver!Kinds
  BY DEF Driver!Kinds
<1>4. s \in BOOLEAN /\ a \in BOOLEAN
  OBVIOUS
<1>5. /\ Driver!EventIf(s, "StaStarted") \in Seq(Driver!Kinds)
      /\ Driver!EventIf(a, "ApStarted") \in Seq(Driver!Kinds)
  BY <1>3, WifiEventIf
<1>6. queue' = r /\ Len(queue') <= MaxQueue
  <2>1. Driver!Post(Driver!EventIf(s, "StaStarted") \o Driver!EventIf(a, "ApStarted"))
    BY DEF Driver!Start
  <2>2. Driver!EventIf(s, "StaStarted") \o Driver!EventIf(a, "ApStarted")
          \in Seq(Driver!Kinds)
    BY <1>5, ConcatProperties
  <2>3. /\ queue' = queue \o (Driver!EventIf(s, "StaStarted")
                                \o Driver!EventIf(a, "ApStarted"))
        /\ Len(queue') <= MaxQueue
    BY <2>1, <2>2, WifiPosted
  <2> QED
    BY <1>1, <1>5, <2>3, ConcatAssociative, SMTT(30)
<1>7. WifiShows(q, status, IF s THEN "Started" ELSE WifiSta, ap)
  <2>1. "StaStarted" \in Driver!StaEvents /\ "StaStarted" \notin Driver!ApEvents
    BY DEF Driver!StaEvents, Driver!ApEvents
  <2>2. WifiStaOf("StaStarted") = "Started"
    BY DEF WifiStaOf
  <2> QED
    BY <1>1, <1>3, <1>4, <2>1, <2>2, WifiPostIf
<1> HIDE DEF q, s, a
<1>8. WifiShows(r, status, IF s THEN "Started" ELSE WifiSta,
                IF a THEN "Started" ELSE ap)
  <2>1. "ApStarted" \in Driver!ApEvents /\ "ApStarted" \notin Driver!StaEvents
    BY DEF Driver!StaEvents, Driver!ApEvents
  <2>2. WifiApOf("ApStarted") = "Started"
    BY DEF WifiApOf
  <2> QED
    BY <1>3, <1>4, <1>7, <2>1, <2>2, WifiPostIf
<1>9. /\ WifiSta' = IF s THEN "Started" ELSE WifiSta
      /\ ap' = IF a THEN "Started" ELSE ap
  BY <1>1, <1>2 DEF WifiSta, s, a
<1> QED
  BY <1>1, <1>2, <1>6, <1>8, <1>9

(* One queue behind the other. *)
WifiCat(a, b) == a \o b

LEMMA WifiCatAssociative ==
    ASSUME NEW E, NEW q \in Seq(E), NEW a \in Seq(E), NEW b \in Seq(E)
    PROVE  /\ WifiCat(a, b) \in Seq(E)
           /\ WifiCat(q, WifiCat(a, b)) = WifiCat(WifiCat(q, a), b)
<1>1. a \o b \in Seq(E)
  BY ConcatProperties
<1>2. q \o (a \o b) = (q \o a) \o b
  BY ConcatAssociative, SMTT(30)
<1> QED
  BY <1>1, <1>2 DEF WifiCat

LEMMA WifiCatFour ==
    ASSUME NEW E, NEW q \in Seq(E), NEW a \in Seq(E), NEW b \in Seq(E),
           NEW c \in Seq(E), NEW d \in Seq(E)
    PROVE  WifiCat(q, WifiCat(WifiCat(WifiCat(a, b), c), d))
             = WifiCat(WifiCat(WifiCat(WifiCat(q, a), b), c), d)
<1>1. WifiCat(a, b) \in Seq(E) /\ WifiCat(WifiCat(a, b), c) \in Seq(E)
  BY WifiCatAssociative
<1> QED
  BY <1>1, WifiCatAssociative

LEMMA WifiStopKeepsIInv ==
    ASSUME Driver!ModesAssumption, WifiIInv, Driver!Stop, status' = status
    PROVE  /\ WifiShows(queue', status', WifiSta', ap') /\ Len(queue') <= MaxQueue
           /\ sta' \in {"Stopped", "Started", "Connecting", "Connected"}
           /\ ap' \in {"Stopped", "Started"}
           /\ mode' = mode /\ scanning' \in BOOLEAN /\ pairing' \in BOOLEAN
<1> DEFINE d == sta \in {"Connecting", "Connected"}
           s == sta # "Stopped"
           a == ap # "Stopped"
           E1 == Driver!EventIf(scanning, "ScanDone")
           E2 == Driver!EventIf(d, "StaDisconnected")
           E3 == Driver!EventIf(s, "StaStopped")
           E4 == Driver!EventIf(a, "ApStopped")
<1>1. /\ sta \in {"Stopped", "Started", "Connecting", "Connected"}
      /\ ap \in {"Stopped", "Started"}
      /\ scanning \in BOOLEAN /\ pairing \in BOOLEAN
      /\ WifiShows(queue, status, WifiSta, ap) /\ queue \in Seq(Driver!Kinds)
  BY DEF WifiIInv, Driver!TypeOK
<1>2. /\ sta' = "Stopped" /\ ap' = "Stopped" /\ scanning' = FALSE
      /\ UNCHANGED <<mode, pairing>>
      /\ Driver!Post(((E1 \o E2) \o E3) \o E4)
  BY DEF Driver!Stop
<1>3. /\ "ScanDone" \in Driver!Kinds /\ "StaDisconnected" \in Driver!Kinds
      /\ "StaStopped" \in Driver!Kinds /\ "ApStopped" \in Driver!Kinds
  BY DEF Driver!Kinds
<1>4. s \in BOOLEAN /\ a \in BOOLEAN /\ d \in BOOLEAN
  OBVIOUS
<1>5. /\ E1 \in Seq(Driver!Kinds) /\ E2 \in Seq(Driver!Kinds)
      /\ E3 \in Seq(Driver!Kinds) /\ E4 \in Seq(Driver!Kinds)
  <2> HIDE DEF d, s, a
  <2>1. E1 \in Seq(Driver!Kinds) /\ E2 \in Seq(Driver!Kinds)
    BY <1>1, <1>3, <1>4, WifiEventIf
  <2>2. E3 \in Seq(Driver!Kinds) /\ E4 \in Seq(Driver!Kinds)
    BY <1>3, <1>4, WifiEventIf
  <2> QED
    BY <2>1, <2>2
<1>6. /\ queue' = (((queue \o E1) \o E2) \o E3) \o E4
      /\ Len(queue') <= MaxQueue
  <2> HIDE DEF E1, E2, E3, E4
  <2>1. /\ E1 \o E2 \in Seq(Driver!Kinds) /\ (E1 \o E2) \o E3 \in Seq(Driver!Kinds)
        /\ ((E1 \o E2) \o E3) \o E4 \in Seq(Driver!Kinds)
    BY <1>5, ConcatProperties
  <2>2. /\ queue' = queue \o (((E1 \o E2) \o E3) \o E4)
        /\ Len(queue') <= MaxQueue
    BY <1>2, <2>1, WifiPosted
  <2>3. queue \o (((E1 \o E2) \o E3) \o E4) = (((queue \o E1) \o E2) \o E3) \o E4
    <3>1. WifiCat(queue, WifiCat(WifiCat(WifiCat(E1, E2), E3), E4))
            = WifiCat(WifiCat(WifiCat(WifiCat(queue, E1), E2), E3), E4)
      BY <1>1, <1>5, WifiCatFour
    <3> QED
      BY <3>1, Zenon DEF WifiCat
  <2> QED
    BY <2>2, <2>3
<1>7. WifiShows(queue \o E1, status, WifiSta, ap)
  <2>1. "ScanDone" \notin Driver!StaEvents /\ "ScanDone" \notin Driver!ApEvents
    BY DEF Driver!StaEvents, Driver!ApEvents
  <2> QED
    BY <1>1, <1>3, <2>1, WifiPostIf
<1>8. /\ "StaDisconnected" \in Driver!StaEvents
      /\ "StaDisconnected" \notin Driver!ApEvents
      /\ "StaStopped" \in Driver!StaEvents /\ "StaStopped" \notin Driver!ApEvents
      /\ "ApStopped" \in Driver!ApEvents /\ "ApStopped" \notin Driver!StaEvents
      /\ WifiStaOf("StaDisconnected") = "Started"
      /\ WifiStaOf("StaStopped") = "Stopped" /\ WifiApOf("ApStopped") = "Stopped"
  BY DEF Driver!StaEvents, Driver!ApEvents, WifiStaOf, WifiApOf
<1> DEFINE q1 == queue \o E1
           q2 == q1 \o E2
           q3 == q2 \o E3
<1>9. WifiShows(q2, status, IF d THEN "Started" ELSE WifiSta, ap)
  <2> HIDE DEF q1, d
  <2>1. WifiShows(q1, status, WifiSta, ap)
    BY <1>7 DEF q1
  <2> QED
    BY <1>3, <1>4, <1>8, <2>1, WifiPostSta
<1>10. WifiShows(q3, status,
                 IF s THEN "Stopped" ELSE IF d THEN "Started" ELSE WifiSta, ap)
  <2> HIDE DEF q2, d, s
  <2> QED
    BY <1>3, <1>4, <1>8, <1>9, WifiPostSta
<1>11. WifiShows(q3 \o E4, status,
                 IF s THEN "Stopped" ELSE IF d THEN "Started" ELSE WifiSta,
                 IF a THEN "Stopped" ELSE ap)
  <2> HIDE DEF q3, d, s, a
  <2> QED
    BY <1>3, <1>4, <1>8, <1>10, WifiPostAp
<1>12. /\ WifiSta' = IF s THEN "Stopped" ELSE IF d THEN "Started" ELSE WifiSta
       /\ ap' = IF a THEN "Stopped" ELSE ap
  BY <1>1, <1>2 DEF WifiSta
<1> QED
  BY <1>1, <1>2, <1>6, <1>11, <1>12

(* A disconnect, and what the radio does on its own, posts one event at    *)
(* the most.                                                               *)
LEMMA WifiOneEvent ==
    ASSUME Driver!ModesAssumption, WifiIInv,
           NEW c \in BOOLEAN, NEW e \in Driver!Kinds, Driver!Post(Driver!EventIf(c, e)),
           status' = status,
           WifiSta' = IF c /\ e \in Driver!StaEvents THEN WifiStaOf(e) ELSE WifiSta,
           ap' = IF c /\ e \in Driver!ApEvents THEN WifiApOf(e) ELSE ap
    PROVE  WifiShows(queue', status', WifiSta', ap') /\ Len(queue') <= MaxQueue
<1>1. Driver!EventIf(c, e) \in Seq(Driver!Kinds)
  BY WifiEventIf
<1>2. queue' = queue \o Driver!EventIf(c, e) /\ Len(queue') <= MaxQueue
  BY <1>1, WifiPosted
<1>3. WifiShows(queue, status, WifiSta, ap)
  BY DEF WifiIInv
<1> QED
  BY <1>2, <1>3, WifiPostIf

LEMMA WifiConnectKeepsIInv ==
    ASSUME Driver!ModesAssumption, WifiIInv,
           Driver!Connect \/ Driver!Disconnect, status' = status
    PROVE  /\ WifiShows(queue', status', WifiSta', ap') /\ Len(queue') <= MaxQueue
           /\ sta' \in {"Stopped", "Started", "Connecting", "Connected"}
           /\ ap' \in {"Stopped", "Started"}
           /\ mode' = mode /\ scanning' \in BOOLEAN /\ pairing' \in BOOLEAN
<1>1. /\ sta \in {"Stopped", "Started", "Connecting", "Connected"}
      /\ ap \in {"Stopped", "Started"}
      /\ scanning \in BOOLEAN /\ pairing \in BOOLEAN /\ Len(queue) <= MaxQueue
      /\ WifiShows(queue, status, WifiSta, ap)
  BY DEF WifiIInv, Driver!TypeOK
<1>2. UNCHANGED <<mode, ap, scanning, pairing>>
  BY DEF Driver!Connect, Driver!Disconnect
<1>3. CASE Driver!Connect
  <2>1. sta = "Started" /\ sta' = "Connecting" /\ queue' = queue
    BY <1>3 DEF Driver!Connect
  <2>2. WifiSta' = WifiSta
    BY <2>1 DEF WifiSta
  <2> QED
    BY <1>1, <1>2, <2>1, <2>2
<1>4. CASE Driver!Disconnect
  <2> DEFINE c == sta # "Started"
  <2>1. /\ sta # "Stopped" /\ sta' = "Started"
        /\ Driver!Post(Driver!EventIf(c, "StaDisconnected"))
    BY <1>4 DEF Driver!Disconnect
  <2>2. /\ "StaDisconnected" \in Driver!Kinds
        /\ "StaDisconnected" \in Driver!StaEvents
        /\ "StaDisconnected" \notin Driver!ApEvents
        /\ WifiStaOf("StaDisconnected") = "Started"
    BY DEF Driver!Kinds, Driver!StaEvents, Driver!ApEvents, WifiStaOf
  <2>3. WifiSta' = IF c THEN "Started" ELSE WifiSta
    BY <1>1, <2>1 DEF WifiSta
  <2>4. c \in BOOLEAN
    OBVIOUS
  <2> HIDE DEF c
  <2>5. WifiShows(queue', status', WifiSta', ap') /\ Len(queue') <= MaxQueue
    BY <1>2, <2>1, <2>2, <2>3, <2>4, WifiOneEvent
  <2> QED
    BY <1>1, <1>2, <2>1, <2>5
<1> QED
  BY <1>3, <1>4

LEMMA WifiRadioKeepsIInv ==
    ASSUME Driver!ModesAssumption, WifiIInv, Driver!Radio
    PROVE  WifiIInv'
<1>1. /\ sta \in {"Stopped", "Started", "Connecting", "Connected"}
      /\ ap \in {"Stopped", "Started"}
      /\ scanning \in BOOLEAN /\ pairing \in BOOLEAN /\ Len(queue) <= MaxQueue
      /\ WifiShows(queue, status, WifiSta, ap)
  BY DEF WifiIInv, Driver!TypeOK
<1>2. UNCHANGED <<mode, ap, status, wifiPc, async, stage>> /\ success' \in BOOLEAN
  BY DEF Driver!Radio, WifiIInv, Driver!TypeOK
<1>3. ASSUME NEW e \in Driver!Kinds, Driver!Post(<<e>>),
             WifiSta' = IF e \in Driver!StaEvents THEN WifiStaOf(e) ELSE WifiSta,
             e \notin Driver!ApEvents
      PROVE  WifiShows(queue', status', WifiSta', ap') /\ Len(queue') <= MaxQueue
  <2>1. Driver!Post(Driver!EventIf(TRUE, e))
    BY <1>3 DEF Driver!EventIf
  <2> QED
    BY <1>2, <1>3, <2>1, WifiOneEvent
<1>4. /\ WifiShows(queue', status', WifiSta', ap') /\ Len(queue') <= MaxQueue
      /\ sta' \in {"Stopped", "Started", "Connecting", "Connected"}
      /\ scanning' \in BOOLEAN /\ pairing' \in BOOLEAN
  <2>1. CASE /\ sta = "Connecting" /\ sta' = "Connected"
             /\ Driver!Post(<<"StaConnected">>) /\ UNCHANGED <<scanning, pairing>>
    <3>1. /\ "StaConnected" \in Driver!Kinds /\ "StaConnected" \in Driver!StaEvents
          /\ "StaConnected" \notin Driver!ApEvents
          /\ WifiStaOf("StaConnected") = "Connected"
      BY DEF Driver!Kinds, Driver!StaEvents, Driver!ApEvents, WifiStaOf
    <3>2. WifiSta' = "Connected"
      BY <2>1 DEF WifiSta
    <3> QED
      BY <1>1, <1>3, <2>1, <3>1, <3>2
  <2>2. CASE /\ sta \in {"Connecting", "Connected"} /\ sta' = "Started"
             /\ Driver!Post(<<"StaDisconnected">>) /\ UNCHANGED <<scanning, pairing>>
    <3>1. /\ "StaDisconnected" \in Driver!Kinds
          /\ "StaDisconnected" \in Driver!StaEvents
          /\ "StaDisconnected" \notin Driver!ApEvents
          /\ WifiStaOf("StaDisconnected") = "Started"
      BY DEF Driver!Kinds, Driver!StaEvents, Driver!ApEvents, WifiStaOf
    <3>2. WifiSta' = "Started"
      BY <2>2 DEF WifiSta
    <3> QED
      BY <1>1, <1>3, <2>2, <3>1, <3>2
  <2>3. CASE /\ scanning /\ scanning' = FALSE /\ Driver!Post(<<"ScanDone">>)
             /\ UNCHANGED <<sta, pairing>>
    <3>1. /\ "ScanDone" \in Driver!Kinds /\ "ScanDone" \notin Driver!StaEvents
          /\ "ScanDone" \notin Driver!ApEvents
      BY DEF Driver!Kinds, Driver!StaEvents, Driver!ApEvents
    <3>2. WifiSta' = WifiSta
      BY <2>3 DEF WifiSta
    <3> QED
      BY <1>1, <1>3, <2>3, <3>1, <3>2
  <2>4. ASSUME NEW e \in Outcomes, pairing' = (e = "StaWpsPin"),
               Driver!Post(<<e>>), UNCHANGED <<sta, scanning>>
        PROVE  <1>4
    <3>1. e \in Driver!WpsEvents
      BY DEF Driver!ModesAssumption
    <3>2. /\ e \in Driver!Kinds /\ e \notin Driver!StaEvents
          /\ e \notin Driver!ApEvents
      BY <3>1 DEF Driver!Kinds, Driver!WpsEvents, Driver!StaEvents,
         Driver!ApEvents
    <3>3. WifiSta' = WifiSta
      BY <2>4 DEF WifiSta
    <3>4. pairing' \in BOOLEAN
      BY <2>4
    <3> QED
      BY <1>1, <1>3, <2>4, <3>2, <3>3, <3>4
  <2> QED
    BY <2>1, <2>2, <2>3, <2>4 DEF Driver!Radio
<1>5. queue' \in Seq(Driver!Kinds)
  BY <1>4 DEF WifiShows
<1>6. Driver!TypeOK'
  BY <1>1, <1>2, <1>4, <1>5 DEF WifiIInv, Driver!TypeOK
<1> QED
  BY <1>4, <1>6 DEF WifiIInv
LEMMA WifiCallKeepsIInv ==
    ASSUME Driver!ModesAssumption, WifiIInv,
           \E c \in Driver!Calls : Driver!Issue(c) \/ Driver!Call(c)
    PROVE  WifiIInv'
<1>1. PICK c \in Driver!Calls : Driver!Issue(c) \/ Driver!Call(c)
  OBVIOUS
<1>2. /\ Driver!Effect(c) /\ UNCHANGED <<status, async, stage>>
      /\ wifiPc' = wifiPc \/ wifiPc' = c \o ".wait"
  BY <1>1 DEF Driver!Issue, Driver!Call
<1>3. success' \in BOOLEAN
  <2>1. success \in BOOLEAN
    BY DEF WifiIInv, Driver!TypeOK
  <2> QED
    BY <1>1, <2>1 DEF Driver!Issue, Driver!Call
<1>4. Driver!Start \/ Driver!Stop \/ Driver!Connect \/ Driver!Disconnect
  BY <1>2 DEF Driver!Effect, Driver!Calls
<1>5. /\ WifiShows(queue', status', WifiSta', ap') /\ Len(queue') <= MaxQueue
      /\ sta' \in {"Stopped", "Started", "Connecting", "Connected"}
      /\ ap' \in {"Stopped", "Started"}
      /\ mode' = mode /\ scanning' \in BOOLEAN /\ pairing' \in BOOLEAN
  BY <1>2, <1>4, WifiStartKeepsIInv, WifiStopKeepsIInv, WifiConnectKeepsIInv
<1>6. queue' \in Seq(Driver!Kinds)
  BY <1>5 DEF WifiShows
<1>7. wifiPc' \in {"idle", "scan.mark", "scan.wait", "wps.mark", "wps.wait"}
        \union Driver!Waits \union {name \o ".wait" : name \in Driver!Calls}
  <2>1. c \o ".wait" \in {name \o ".wait" : name \in Driver!Calls}
    OBVIOUS
  <2> QED
    BY <1>2, <2>1 DEF WifiIInv, Driver!TypeOK
<1>8. status' \in WifiStatuses /\ WifiWait' /\ mode' \in Modes
  BY <1>2, <1>5 DEF WifiIInv, Driver!TypeOK, WifiStatuses, WifiWait
<1>9. Driver!TypeOK'
  BY <1>3, <1>5, <1>6, <1>7, <1>8 DEF Driver!TypeOK, WifiStatuses, WifiWait
<1> QED
  BY <1>5, <1>9 DEF WifiIInv

(* A scan and WPS are noted in fields of their own. *)
LEMMA WifiOtherFields ==
    ASSUME WifiIInv, UNCHANGED <<sta, ap, queue>>,
           status' \in WifiStatuses,
           status'.sta = status.sta, status'.ap = status.ap
    PROVE  WifiShows(queue', status', WifiSta', ap')
BY DEF WifiIInv, WifiShows, WifiSta

LEMMA WifiScanKeepsIInv ==
    ASSUME Driver!ModesAssumption, WifiIInv,
           \/ Driver!StartScan \/ Driver!MarkScan \/ Driver!StopScan
           \/ Driver!StartWps \/ Driver!MarkWps \/ Driver!Look
    PROVE  WifiIInv'
<1>1. /\ UNCHANGED <<mode, sta, ap, queue>>
      /\ success' = success \/ success' \in BOOLEAN
      /\ scanning' = scanning \/ scanning' \in BOOLEAN
      /\ pairing' = pairing \/ pairing' \in BOOLEAN
      /\ async' = async \/ async' \in BOOLEAN
      /\ stage' \in {stage, "none", "park", "sleep"}
      /\ wifiPc' \in {wifiPc, "scan.mark", "scan.wait", "wps.mark", "wps.wait", "idle"}
  BY DEF Driver!StartScan, Driver!MarkScan, Driver!StopScan, Driver!StartWps,
     Driver!MarkWps, Driver!Look, Driver!driver
<1>2. \/ status' = status
      \/ \E x \in {"Idle", "Started"} : status' = [status EXCEPT !.scan = x]
      \/ status' = [status EXCEPT !.wps = "none"]
  BY DEF Driver!StartScan, Driver!MarkScan, Driver!StopScan, Driver!StartWps,
     Driver!MarkWps, Driver!Look
<1>3. status \in WifiStatuses
  BY DEF WifiIInv, Driver!TypeOK, WifiStatuses
<1>4. status' \in WifiStatuses /\ status'.sta = status.sta /\ status'.ap = status.ap
  <2> DEFINE W == {"none"} \union {Driver!Outcome(event) : event \in Driver!WpsEvents}
  <2>1. "none" \in W
    OBVIOUS
  <2> HIDE DEF W
  <2>2. WifiStatuses = [sta : {"Stopped", "Started", "Connected"},
                        ap : {"Stopped", "Started"},
                        scan : {"Idle", "Started", "Done"}, wps : W]
    BY DEF WifiStatuses, W
  <2> QED
    BY <1>2, <1>3, <2>1, <2>2
<1>5. WifiShows(queue', status', WifiSta', ap')
  BY <1>1, <1>4, WifiOtherFields
<1>6. /\ scanning' \in BOOLEAN /\ pairing' \in BOOLEAN
      /\ WifiWait' /\ success' \in BOOLEAN
  <2>1. /\ scanning \in BOOLEAN /\ pairing \in BOOLEAN
        /\ WifiWait /\ success \in BOOLEAN
    BY DEF WifiIInv, Driver!TypeOK, WifiWait
  <2> QED
    BY <1>1, <2>1 DEF WifiWait
<1>7. Driver!TypeOK'
  BY <1>1, <1>4, <1>6 DEF WifiIInv, Driver!TypeOK, WifiStatuses, WifiWait
<1> QED
  BY <1>5, <1>7 DEF WifiIInv

LEMMA WifiWaitKeepsIInv ==
    ASSUME Driver!ModesAssumption, WifiIInv,
           \/ Driver!SetConfiguration
           \/ \E c \in Driver!Waits : Driver!Wait(c) \/ Driver!GiveUp(c)
    PROVE  WifiIInv'
<1>1. /\ UNCHANGED <<sta, ap, scanning, pairing, queue, status>>
      /\ mode' \in Modes
      /\ success' = success \/ success' \in BOOLEAN
      /\ async' = async \/ async' \in BOOLEAN
      /\ stage' \in {stage, "none", "look"}
      /\ wifiPc' = wifiPc \/ wifiPc' \in Driver!Waits \union {"idle"}
  BY DEF Driver!SetConfiguration, Driver!Wait, Driver!GiveUp, Driver!driver,
     WifiIInv,
     Driver!TypeOK
<1>2. WifiShows(queue', status', WifiSta', ap')
  BY <1>1 DEF WifiIInv, WifiSta
<1>3. WifiWait' /\ success' \in BOOLEAN
  <2>1. WifiWait /\ success \in BOOLEAN
    BY DEF WifiIInv, Driver!TypeOK, WifiWait
  <2> QED
    BY <1>1, <2>1 DEF WifiWait
<1>4. Driver!TypeOK'
  BY <1>1, <1>3 DEF WifiIInv, Driver!TypeOK, WifiWait
<1> QED
  BY <1>2, <1>4 DEF WifiIInv

(* How the wait goes on between two events. *)
LEMMA WifiParkKeepsIInv ==
    ASSUME WifiIInv, Driver!Park \/ Driver!SpuriousWakeup
    PROVE  WifiIInv'
<1>1. /\ UNCHANGED <<mode, sta, ap, scanning, pairing, queue, status, wifiPc,
                     async, success>>
      /\ stage' \in {"sleep", "look"}
  BY DEF Driver!Park, Driver!SpuriousWakeup, Driver!driver
<1>2. Driver!TypeOK'
  BY <1>1 DEF WifiIInv, Driver!TypeOK
<1> QED
  BY <1>1, <1>2 DEF WifiIInv, WifiSta

LEMMA WifiStepKeepsIInv ==
    ASSUME Driver!ModesAssumption, WifiIInv, [Driver!Next]_(Driver!vars)
    PROVE  WifiIInv'
<1>1. CASE UNCHANGED Driver!vars
  <2>1. Driver!TypeOK'
    BY <1>1 DEF Driver!vars, WifiIInv, Driver!TypeOK
  <2> QED
    BY <1>1, <2>1 DEF Driver!vars, WifiIInv, WifiSta
<1> QED
  BY <1>1, WifiCallKeepsIInv, WifiScanKeepsIInv, WifiWaitKeepsIInv,
     WifiRadioKeepsIInv, WifiDispatchKeepsIInv, WifiParkKeepsIInv
  DEF Driver!Next

LEMMA WifiIInvIsSafe ==
    ASSUME WifiIInv PROVE Driver!TypeOK /\ Driver!MirrorCatchesUp
<1>1. WifiShows(queue, status, WifiSta, ap) /\ queue \in Seq(Driver!Kinds)
  BY DEF WifiIInv, WifiShows
<1>2. \A S : Driver!Latest(queue, S) = Latest(queue, S)
  BY DEF Driver!Latest, Latest
<1>3. \A S : \A e \in Latest(queue, S) : e \in S /\ e \in Driver!Kinds
  BY <1>1 DEF Latest
<1>4. status \in WifiStatuses
  BY DEF WifiIInv, Driver!TypeOK, WifiStatuses
<1>5. \A st \in Driver!Final(Driver!StaEvents) : st.sta = WifiSta
  <2>1. CASE Latest(queue, Driver!StaEvents) = {}
    BY <1>1, <1>2, <2>1 DEF Driver!Final, WifiShows
  <2>2. CASE Latest(queue, Driver!StaEvents) # {}
    <3>1. \A e \in Latest(queue, Driver!StaEvents) :
            Driver!Mirrored(status, e).sta = WifiSta
      BY <1>1, <1>3, <1>4, WifiMirrored DEF WifiShows
    <3> QED
      BY <1>2, <2>2, <3>1 DEF Driver!Final
  <2> QED
    BY <2>1, <2>2
<1>6. \A st \in Driver!Final(Driver!ApEvents) : st.ap = ap
  <2>1. CASE Latest(queue, Driver!ApEvents) = {}
    BY <1>1, <1>2, <2>1 DEF Driver!Final, WifiShows
  <2>2. CASE Latest(queue, Driver!ApEvents) # {}
    <3>1. \A e \in Latest(queue, Driver!ApEvents) :
            Driver!Mirrored(status, e).ap = ap
      BY <1>1, <1>3, <1>4, WifiMirrored DEF WifiShows
    <3> QED
      BY <1>2, <2>2, <3>1 DEF Driver!Final
  <2> QED
    BY <2>1, <2>2
<1> QED
  BY <1>5, <1>6 DEF WifiIInv, Driver!MirrorCatchesUp, WifiSta

LEMMA WifiInvariance ==
    ASSUME Driver!ModesAssumption PROVE Driver!Spec => []WifiIInv
<1>1. Driver!Init => WifiIInv
  BY WifiInitIInv
<1>2. WifiIInv /\ [Driver!Next]_(Driver!vars) => WifiIInv'
  BY WifiStepKeepsIInv
<1> QED
  BY <1>1, <1>2, PTL DEF Driver!Spec

-----------------------------------------------------------------------------
(* The Ethernet driver. It changes its state and posts the event of it in  *)
(* one step, as the Wi-Fi driver does; events of others are in between.    *)

EthEvents ==
    [kind : Ethernet!Running \union {"Stopped"}, own : BOOLEAN]

(* Our events are those of EthEvents that are our own. *)
LEMMA EthOurs ==
    /\ \A e \in EthEvents : e.own <=> e \in Ethernet!Ours
    /\ \A q : Ethernet!Latest(q) = Latest(q, Ethernet!Ours)
BY DEF EthEvents, Ethernet!Ours, Ethernet!Latest, Latest

(* While the driver may run the application changes nothing, as long as no *)
(* error of stop() was ignored; a frame is handed over by a driver that    *)
(* runs.                                                                   *)
EthHalted == {"callback", "keep", "attach", "swap", "drop", "gone"}

EthQuiet ==
    /\ rx # None => ethDrv \in Ethernet!Running
    /\ ~ ethIgnored /\ ethPc \in EthHalted => ethDrv = "Stopped"
    /\ ethPc \notin {"none", "init", "end"} => ethDrv # "none"
    /\ ethPc \in {"none", "init"} =>
          /\ ethDrv = "none" /\ ethStatus = "Stopped"
          /\ Latest(ethQueue, Ethernet!Ours) = {}

(* The input path names the closure the driver owns, or is about to own,   *)
(* or the interface the glue binds.                                        *)
EthPath ==
    /\ path \in Closures => path = IF ethPc = "keep" THEN arg ELSE callback
    /\ path \in Netifs /\ glue # None => path = netif
    /\ ethPc \in {"stop.callback", "callback", "keep"} => arg \in Closures
    /\ ethPc = "keep" => path = arg
    /\ ethPc \in {"wrap", "stop.swap", "swap"} => arg \in Netifs
    /\ glue # None => netif # None
    /\ ethPc \in {"stop.gone", "gone"} => glue = None

EthMirror ==
    ethDrv # "none" =>
        /\ \A e \in Latest(ethQueue, Ethernet!Ours) : e.kind = ethDrv
        /\ Latest(ethQueue, Ethernet!Ours) = {} => ethStatus = ethDrv

EthIInv ==
    /\ Ethernet!TypeOK /\ HasLatest(ethQueue, Ethernet!Ours) /\ EthQuiet /\ EthPath
    /\ EthMirror /\ Ethernet!ReceiverIsAlive

(* What the steps of a wait change, and nobody relies on. *)
EthWaits ==
    ethAsync \in BOOLEAN /\ ethStage \in {"none", "look", "park", "sleep"}

LEMMA EthNames ==
    ASSUME Ethernet!EthAssumption
    PROVE  /\ None \notin Closures /\ None \notin Netifs
           /\ \A x \in Closures : x \notin Netifs
BY DEF Ethernet!EthAssumption

LEMMA EthInitIInv == ASSUME Ethernet!EthAssumption, Ethernet!Init PROVE EthIInv
<1>1. ethQueue \in Seq(EthEvents) /\ Len(ethQueue) = 0 /\ DOMAIN ethQueue = {}
  BY DEF Ethernet!Init
<1>2. Latest(ethQueue, Ethernet!Ours) = {} /\ HasLatest(ethQueue, Ethernet!Ours)
  BY <1>1 DEF Latest, HasLatest
<1>3. Ethernet!TypeOK
  <2>1. Len(ethQueue) <= EthQueue
    BY <1>1 DEF Ethernet!EthAssumption
  <2> QED
    BY <1>1, <2>1 DEF Ethernet!Init, Ethernet!TypeOK, EthEvents
<1> QED
  BY <1>2, <1>3, EthNames DEF Ethernet!Init, EthIInv, EthQuiet, EthHalted, EthPath,
     EthMirror, Ethernet!ReceiverIsAlive, Ethernet!Alive

(* Posting one event, or two of ours. *)
LEMMA EthPostOne ==
    ASSUME Ethernet!EthAssumption, EthIInv,
           NEW e \in EthEvents, Ethernet!Post(<<e>>)
    PROVE  /\ ethQueue' \in Seq(EthEvents) /\ Len(ethQueue') <= EthQueue
           /\ HasLatest(ethQueue', Ethernet!Ours)
           /\ Latest(ethQueue', Ethernet!Ours) =
                 IF e.own THEN {e} ELSE Latest(ethQueue, Ethernet!Ours)
<1>1. ethQueue \in Seq(EthEvents) /\ Len(ethQueue) \in Nat /\ EthQueue \in Nat
  BY DEF EthIInv, Ethernet!TypeOK, EthEvents, Ethernet!EthAssumption
<1>2. Len(ethQueue) + 1 <= EthQueue /\ ethQueue' = ethQueue \o <<e>>
  BY <1>1 DEF Ethernet!Post
<1>3. ethQueue' = Append(ethQueue, e)
  BY <1>1, <1>2, AppendIsConcat
<1>4. Len(ethQueue') = Len(ethQueue) + 1 /\ ethQueue' \in Seq(EthEvents)
  BY <1>1, <1>3
<1>5. HasLatest(ethQueue, Ethernet!Ours)
  BY DEF EthIInv
<1>6. /\ HasLatest(Append(ethQueue, e), Ethernet!Ours)
      /\ e.own => Latest(Append(ethQueue, e), Ethernet!Ours) = {e}
      /\ ~ e.own => Latest(Append(ethQueue, e), Ethernet!Ours)
                       = Latest(ethQueue, Ethernet!Ours)
  BY <1>1, <1>5, LatestAppend, EthOurs
<1> QED
  BY <1>1, <1>2, <1>3, <1>4, <1>6

LEMMA EthPostTwo ==
    ASSUME Ethernet!EthAssumption, EthIInv,
           NEW e \in EthEvents, NEW f \in EthEvents, f.own,
           Ethernet!Post(<<e>> \o <<f>>)
    PROVE  /\ ethQueue' \in Seq(EthEvents) /\ Len(ethQueue') <= EthQueue
           /\ HasLatest(ethQueue', Ethernet!Ours)
           /\ Latest(ethQueue', Ethernet!Ours) = {f}
<1>1. ethQueue \in Seq(EthEvents) /\ Len(ethQueue) \in Nat /\ EthQueue \in Nat
  BY DEF EthIInv, Ethernet!TypeOK, EthEvents, Ethernet!EthAssumption
<1>2. Len(ethQueue) + 2 <= EthQueue /\ ethQueue' = ethQueue \o (<<e>> \o <<f>>)
  BY <1>1 DEF Ethernet!Post
<1>3. ethQueue' = Append(Append(ethQueue, e), f)
  <2>1. <<e>> \in Seq(EthEvents) /\ <<f>> \in Seq(EthEvents)
    OBVIOUS
  <2>2. ethQueue \o (<<e>> \o <<f>>) = (ethQueue \o <<e>>) \o <<f>>
    BY <1>1, <2>1, ConcatAssociative
  <2>3. ethQueue \o <<e>> = Append(ethQueue, e) /\ Append(ethQueue, e) \in Seq(EthEvents)
    BY <1>1, AppendIsConcat
  <2> QED
    BY <1>2, <2>2, <2>3, AppendIsConcat
<1>4. Len(ethQueue') = Len(ethQueue) + 2 /\ ethQueue' \in Seq(EthEvents)
  BY <1>1, <1>3
<1>5. /\ Append(ethQueue, e) \in Seq(EthEvents)
      /\ HasLatest(Append(ethQueue, e), Ethernet!Ours)
  BY <1>1, LatestAppend, EthOurs DEF EthIInv
<1>6. Latest(Append(Append(ethQueue, e), f), Ethernet!Ours) = {f}
      /\ HasLatest(Append(Append(ethQueue, e), f), Ethernet!Ours)
  <2> DEFINE q == Append(ethQueue, e)
  <2>1. f \in Ethernet!Ours
    BY EthOurs
  <2>2. q \in Seq(EthEvents) /\ HasLatest(q, Ethernet!Ours)
    BY <1>5
  <2> HIDE DEF q
  <2>3. /\ Latest(Append(q, f), Ethernet!Ours) = {f}
        /\ HasLatest(Append(q, f), Ethernet!Ours)
    BY <2>1, <2>2, LatestAppend
  <2> QED
    BY <2>3 DEF q
<1> QED
  BY <1>1, <1>2, <1>3, <1>4, <1>6

(* stop(): the driver is stopped, and the last event says so.              *)
LEMMA EthStopping ==
    ASSUME Ethernet!EthAssumption, EthIInv, ethDrv # "none", Ethernet!Stopping
    PROVE  /\ rx = None /\ ethDrv' = "Stopped"
           /\ ethQueue' \in Seq(EthEvents) /\ Len(ethQueue') <= EthQueue
           /\ HasLatest(ethQueue', Ethernet!Ours)
           /\ UNCHANGED ethStatus => EthMirror'
<1> DEFINE ev(kind) == [kind |-> kind, own |-> TRUE]
<1>1. rx = None /\ ethDrv' = "Stopped"
  BY DEF Ethernet!Stopping
<1>2. ev("Stopped") \in EthEvents /\ ev("Disconnected") \in EthEvents
  BY DEF EthEvents, Ethernet!Running
<1>3. CASE ethDrv = "Connected"
  <2>1. Ethernet!Post(<<ev("Disconnected")>> \o <<ev("Stopped")>>)
    BY <1>3 DEF Ethernet!Stopping, Ethernet!Event, Ethernet!Running
  <2> HIDE DEF ev
  <2>2. ev("Stopped").own /\ ev("Stopped").kind = "Stopped"
    BY DEF ev
  <2>3. /\ ethQueue' \in Seq(EthEvents) /\ Len(ethQueue') <= EthQueue
        /\ HasLatest(ethQueue', Ethernet!Ours)
        /\ Latest(ethQueue', Ethernet!Ours) = {ev("Stopped")}
    BY <1>2, <2>1, <2>2, EthPostTwo
  <2> QED
    BY <1>1, <2>2, <2>3 DEF EthMirror
<1>4. CASE ethDrv \in Ethernet!Running /\ ethDrv # "Connected"
  <2>1. Ethernet!Post(<<>> \o <<ev("Stopped")>>)
    BY <1>4 DEF Ethernet!Stopping, Ethernet!Event
  <2>2. <<>> \o <<ev("Stopped")>> = <<ev("Stopped")>>
    OBVIOUS
  <2> HIDE DEF ev
  <2>3. ev("Stopped").own /\ ev("Stopped").kind = "Stopped"
    BY DEF ev
  <2>4. /\ ethQueue' \in Seq(EthEvents) /\ Len(ethQueue') <= EthQueue
        /\ HasLatest(ethQueue', Ethernet!Ours)
        /\ Latest(ethQueue', Ethernet!Ours) = {ev("Stopped")}
    BY <1>2, <2>1, <2>2, <2>3, EthPostOne
  <2> QED
    BY <1>1, <2>3, <2>4 DEF EthMirror
<1>5. CASE ethDrv \notin Ethernet!Running
  <2>1. ethDrv = "Stopped" /\ ethQueue' = ethQueue
    BY <1>5 DEF Ethernet!Stopping, EthIInv, Ethernet!TypeOK
  <2> QED
    BY <1>1, <2>1 DEF EthIInv, Ethernet!TypeOK, EthEvents, EthMirror
<1> QED
  BY <1>3, <1>4, <1>5

(* "let _ = self.stop()". *)
LEMMA EthStopIgnored ==
    ASSUME Ethernet!EthAssumption, EthIInv, ethDrv # "none",
           Ethernet!StopIgnored, UNCHANGED <<ethStatus, rx>>
    PROVE  /\ ethQueue' \in Seq(EthEvents) /\ Len(ethQueue') <= EthQueue
           /\ HasLatest(ethQueue', Ethernet!Ours) /\ EthMirror'
           /\ ethDrv' \in Ethernet!Running \union {"Stopped"}
           /\ rx # None => ethDrv' \in Ethernet!Running
           /\ ethIgnored' \in BOOLEAN
           /\ ~ ethIgnored' => ~ ethIgnored /\ ethDrv' = "Stopped"
<1>1. /\ ethQueue \in Seq(EthEvents) /\ Len(ethQueue) <= EthQueue
      /\ HasLatest(ethQueue, Ethernet!Ours) /\ EthMirror
      /\ ethDrv \in Ethernet!Running \union {"Stopped"}
      /\ rx # None => ethDrv \in Ethernet!Running
      /\ ethIgnored \in BOOLEAN
  BY DEF EthIInv, Ethernet!TypeOK, EthEvents, EthQuiet
<1>2. CASE Ethernet!Stopping
  <2>1. /\ rx = None /\ ethDrv' = "Stopped"
        /\ ethQueue' \in Seq(EthEvents) /\ Len(ethQueue') <= EthQueue
        /\ HasLatest(ethQueue', Ethernet!Ours) /\ EthMirror'
    BY <1>2, EthStopping
  <2>2. ethIgnored' = ethIgnored
    BY <1>2 DEF Ethernet!Stopping
  <2> QED
    BY <1>1, <2>1, <2>2
<1>3. CASE /\ UNCHANGED <<ethDrv, ethQueue>>
           /\ ethIgnored' = (ethIgnored \/ ethDrv \in Ethernet!Running)
  <2>1. EthMirror'
    BY <1>1, <1>3 DEF EthMirror
  <2> QED
    BY <1>1, <1>3, <2>1
<1> QED
  BY <1>2, <1>3 DEF Ethernet!StopIgnored

LEMMA EthNewKeepsIInv ==
    ASSUME Ethernet!EthAssumption, EthIInv, Ethernet!New \/ Ethernet!Install
    PROVE  EthIInv'
<1>1. /\ ethPc \in {"none", "init"} /\ ethPc' \in {"init", "idle", "end"}
      /\ UNCHANGED <<ethQueue, ethStatus, path, rx, callback, netif, glue, arg,
                     ethAsync, ethStage, ethIgnored>>
  BY DEF Ethernet!New, Ethernet!Install, Ethernet!wait
<1>2. /\ ethDrv = "none" /\ ethStatus = "Stopped"
      /\ Latest(ethQueue, Ethernet!Ours) = {} /\ rx = None
  BY <1>1 DEF EthIInv, EthQuiet, Ethernet!Running
<1>3. \/ ethDrv' = ethDrv /\ ethPc' \in {"init", "end"}
      \/ ethDrv' = "Stopped" /\ ethPc' \in {"idle", "end"}
  BY <1>1 DEF Ethernet!New, Ethernet!Install
<1>4. Ethernet!TypeOK'
  BY <1>1, <1>2, <1>3 DEF EthIInv, Ethernet!TypeOK
<1>5. EthQuiet' /\ EthPath'
  BY <1>1, <1>2, <1>3 DEF EthIInv, EthQuiet, EthHalted, EthPath
<1> QED
  BY <1>1, <1>2, <1>3, <1>4, <1>5 DEF EthIInv, EthMirror,
     Ethernet!ReceiverIsAlive, Ethernet!Alive

(* A call of a wrapper goes on to wait. *)
LEMMA EthBegun ==
    ASSUME EthIInv, NEW next, Ethernet!Begun(next) PROVE ethPc' = next /\ EthWaits'
BY DEF Ethernet!Begun, Ethernet!wait, EthIInv, Ethernet!TypeOK, EthWaits

LEMMA EthStartKeepsIInv ==
    ASSUME Ethernet!EthAssumption, EthIInv,
           \E next \in {"idle", "await.start"} : Ethernet!Start(next)
    PROVE  EthIInv'
<1> DEFINE e == [kind |-> "Started", own |-> TRUE]
<1>1. /\ ethPc = "idle" /\ ethPc' \in {"idle", "await.start"} /\ EthWaits'
      /\ ethDrv = "Stopped" /\ ethDrv' = "Started" /\ Ethernet!Post(<<e>>)
      /\ UNCHANGED <<ethStatus, path, rx, callback, netif, glue, arg, ethIgnored>>
  BY EthBegun DEF Ethernet!Start, Ethernet!Event
<1>2. e \in EthEvents /\ e.own /\ e.kind = "Started"
  BY DEF EthEvents, Ethernet!Running
<1> HIDE DEF e
<1>3. /\ ethQueue' \in Seq(EthEvents) /\ Len(ethQueue') <= EthQueue
      /\ HasLatest(ethQueue', Ethernet!Ours) /\ Latest(ethQueue', Ethernet!Ours) = {e}
  BY <1>1, <1>2, EthPostOne
<1>4. Ethernet!TypeOK'
  BY <1>1, <1>3 DEF EthIInv, Ethernet!TypeOK, EthEvents, Ethernet!Running, EthWaits
<1>5. EthMirror'
  BY <1>1, <1>2, <1>3 DEF EthMirror
<1> QED
  BY <1>1, <1>3, <1>4, <1>5 DEF EthIInv, EthQuiet, EthHalted, EthPath,
     Ethernet!ReceiverIsAlive, Ethernet!Alive, Ethernet!Running

LEMMA EthStopKeepsIInv ==
    ASSUME Ethernet!EthAssumption, EthIInv,
           \E next \in {"idle", "await.stop"} : Ethernet!Stop(next)
    PROVE  EthIInv'
<1>1. /\ ethPc = "idle" /\ ethPc' \in {"idle", "await.stop"} /\ EthWaits'
      /\ Ethernet!Stopping
      /\ UNCHANGED <<ethStatus, path, rx, callback, netif, glue, arg, ethIgnored>>
  BY EthBegun DEF Ethernet!Stop, Ethernet!Stopping
<1>2. ethDrv # "none"
  BY <1>1 DEF EthIInv, EthQuiet
<1>3. /\ rx = None /\ ethDrv' = "Stopped"
      /\ ethQueue' \in Seq(EthEvents) /\ Len(ethQueue') <= EthQueue
      /\ HasLatest(ethQueue', Ethernet!Ours) /\ EthMirror'
  BY <1>1, <1>2, EthStopping
<1>4. Ethernet!TypeOK'
  BY <1>1, <1>3 DEF EthIInv, Ethernet!TypeOK, EthEvents, EthWaits
<1> QED
  BY <1>1, <1>3, <1>4 DEF EthIInv, EthQuiet, EthHalted, EthPath,
     Ethernet!ReceiverIsAlive, Ethernet!Alive

(* A call that is going to change where the frames go begins.              *)
LEMMA EthBeginKeepsIInv ==
    ASSUME Ethernet!EthAssumption, EthIInv,
           \/ \E c \in Closures \ {callback} : Ethernet!Begin("stop.callback", c)
           \/ \E n \in Netifs \ {netif} :
                 Ethernet!Begin(IF netif = None THEN "wrap" ELSE "stop.swap", n)
           \/ Ethernet!Begin(IF netif = None THEN "stop.gone" ELSE "stop.drop", None)
    PROVE  EthIInv'
<1>1. /\ ethPc = "idle"
      /\ UNCHANGED <<ethDrv, ethQueue, ethStatus, path, rx, callback, netif, glue,
                     ethAsync, ethStage, ethIgnored>>
      /\ \/ ethPc' = "stop.callback" /\ arg' \in Closures
         \/ ethPc' \in {"wrap", "stop.swap"} /\ arg' \in Netifs
         \/ ethPc' = "stop.gone" /\ netif = None /\ arg' = None
         \/ ethPc' = "stop.drop" /\ arg' = None
  BY DEF Ethernet!Begin, Ethernet!wait
<1>2. HasLatest(ethQueue, Ethernet!Ours)' /\ EthMirror'
  BY <1>1 DEF EthIInv, EthMirror
<1>3. Ethernet!TypeOK'
  BY <1>1 DEF EthIInv, Ethernet!TypeOK
<1>4. EthQuiet' /\ EthPath'
  BY <1>1 DEF EthIInv, EthQuiet, EthHalted, EthPath
<1> QED
  BY <1>1, <1>2, <1>3, <1>4 DEF EthIInv, Ethernet!ReceiverIsAlive, Ethernet!Alive

LEMMA EthHaltKeepsIInv ==
    ASSUME Ethernet!EthAssumption, EthIInv, Ethernet!Halting
    PROVE  EthIInv'
<1>1. /\ Ethernet!StopIgnored
      /\ UNCHANGED <<ethStatus, path, rx, callback, netif, glue, arg, ethAsync,
                     ethStage>>
      /\ \/ ethPc = "stop.callback" /\ ethPc' = "callback"
         \/ ethPc = "stop.attach" /\ ethPc' = "attach"
         \/ ethPc = "stop.swap" /\ ethPc' = "swap"
         \/ ethPc = "stop.drop" /\ ethPc' = "drop"
         \/ ethPc = "stop.gone" /\ ethPc' = "gone"
  BY DEF Ethernet!Halting, Ethernet!Halt, Ethernet!wait
<1>2. ethDrv # "none"
  BY <1>1 DEF EthIInv, EthQuiet
<1>3. /\ ethQueue' \in Seq(EthEvents) /\ Len(ethQueue') <= EthQueue
      /\ HasLatest(ethQueue', Ethernet!Ours) /\ EthMirror'
      /\ ethDrv' \in Ethernet!Running \union {"Stopped"}
      /\ rx # None => ethDrv' \in Ethernet!Running
      /\ ethIgnored' \in BOOLEAN
      /\ ~ ethIgnored' => ~ ethIgnored /\ ethDrv' = "Stopped"
  BY <1>1, <1>2, EthStopIgnored
<1>4. Ethernet!TypeOK'
  BY <1>1, <1>3 DEF EthIInv, Ethernet!TypeOK, EthEvents
<1>5. EthPath'
  BY <1>1 DEF EthIInv, EthPath
<1>6. EthQuiet'
  BY <1>1, <1>3 DEF EthQuiet, Ethernet!Running
<1> QED
  BY <1>1, <1>3, <1>4, <1>5, <1>6 DEF EthIInv, Ethernet!ReceiverIsAlive,
     Ethernet!Alive

(* A wait changes nothing but itself.                                      *)
LEMMA EthWaitKeepsIInv ==
    ASSUME Ethernet!EthAssumption, EthIInv,
           \/ Ethernet!WaitConnected \/ Ethernet!Look \/ Ethernet!Park
           \/ Ethernet!SpuriousWakeup \/ Ethernet!GiveUp
    PROVE  EthIInv'
<1>1. UNCHANGED <<ethDrv, ethQueue, ethStatus, path, rx, callback, netif, glue, arg,
                  ethIgnored>>
  BY DEF Ethernet!WaitConnected, Ethernet!Look, Ethernet!Park, Ethernet!GiveUp,
     Ethernet!SpuriousWakeup, Ethernet!app
<1>2. EthWaits'
  <2>1. EthWaits
    BY DEF EthIInv, Ethernet!TypeOK, EthWaits
  <2> QED
    BY <2>1, EthBegun DEF Ethernet!WaitConnected, Ethernet!Look, Ethernet!Park,
       Ethernet!GiveUp, Ethernet!SpuriousWakeup, Ethernet!app, EthWaits
<1>3. \/ ethPc' = ethPc
      \/ /\ ethPc' \in {"idle", "await.connect"}
         /\ ethDrv # "none"
         /\ ethPc # "keep"
  <2>1. CASE Ethernet!WaitConnected
    BY <2>1, EthBegun DEF Ethernet!WaitConnected, EthIInv, EthQuiet
  <2>2. CASE Ethernet!Look
    BY <2>2 DEF Ethernet!Look, Ethernet!Arrived, EthIInv, EthQuiet
  <2>3. CASE Ethernet!Park \/ Ethernet!SpuriousWakeup
    BY <2>3 DEF Ethernet!Park, Ethernet!SpuriousWakeup, Ethernet!app
  <2>4. CASE Ethernet!GiveUp
    BY <2>4 DEF Ethernet!GiveUp, EthIInv, EthQuiet
  <2> QED
    BY <2>1, <2>2, <2>3, <2>4
<1>4. HasLatest(ethQueue, Ethernet!Ours)' /\ EthMirror'
  BY <1>1 DEF EthIInv, EthMirror
<1>5. Ethernet!TypeOK'
  BY <1>1, <1>2, <1>3 DEF EthIInv, Ethernet!TypeOK, EthWaits
<1>6. EthQuiet'
  <2>1. Latest(ethQueue, Ethernet!Ours)' = Latest(ethQueue, Ethernet!Ours)
    BY <1>1
  <2> QED
    BY <1>1, <1>3, <2>1 DEF EthIInv, EthQuiet, EthHalted
<1>7. EthPath'
  BY <1>1, <1>3 DEF EthIInv, EthPath
<1> QED
  BY <1>1, <1>4, <1>5, <1>6, <1>7 DEF EthIInv, Ethernet!ReceiverIsAlive,
     Ethernet!Alive

(* The steps of a call that is under way change neither driver nor queue.  *)
LEMMA EthCallKeepsIInv ==
    ASSUME Ethernet!EthAssumption, EthIInv,
           \/ Ethernet!UpdatePath \/ Ethernet!KeepCallback \/ Ethernet!Wrap
           \/ Ethernet!Attach \/ Ethernet!DeleteGlue
    PROVE  EthIInv'
<1>1. /\ UNCHANGED <<ethDrv, ethQueue, ethStatus, rx, ethAsync, ethStage, ethIgnored>>
      /\ ethPc \in {"callback", "keep", "wrap", "attach", "swap", "drop"}
      /\ ethPc' \in {"keep", "idle", "stop.attach", "stop.drop", "stop.gone", "panic"}
      /\ ethPc' = "keep" => ethPc = "callback"
  BY DEF Ethernet!UpdatePath, Ethernet!KeepCallback, Ethernet!Wrap,
     Ethernet!Attach, Ethernet!DeleteGlue, Ethernet!wait
<1>2. HasLatest(ethQueue, Ethernet!Ours)' /\ EthMirror'
  BY <1>1 DEF EthIInv, EthMirror
<1>3. EthQuiet'
  BY <1>1 DEF EthIInv, EthQuiet, EthHalted
<1>4. /\ ethQueue' \in Seq([kind : Ethernet!Running \union {"Stopped"}, own : BOOLEAN])
      /\ Len(ethQueue') <= EthQueue
  BY <1>1 DEF EthIInv, Ethernet!TypeOK
<1>5. ~ ethIgnored /\ ethPc \in EthHalted => rx = None
  BY DEF EthIInv, EthQuiet, Ethernet!Running
<1>6. CASE Ethernet!UpdatePath
  <2>1. /\ ethPc = "callback" /\ arg \in Closures
        /\ UNCHANGED <<callback, netif, glue>>
        /\ \/ path' = arg /\ ethPc' = "keep" /\ arg' = arg
           \/ path' = path /\ ethPc' = "idle" /\ arg' = None
    BY <1>6 DEF Ethernet!UpdatePath, EthIInv, EthPath
  <2>2. EthPath'
    BY <2>1, EthNames DEF EthIInv, EthPath
  <2>3. Ethernet!TypeOK'
    BY <1>1, <1>4, <2>1 DEF EthIInv, Ethernet!TypeOK
  <2> QED
    BY <1>1, <1>2, <1>3, <2>1, <2>2, <2>3
    DEF EthIInv, Ethernet!ReceiverIsAlive, Ethernet!Alive
<1>7. CASE Ethernet!KeepCallback
  <2>1. /\ ethPc = "keep" /\ ethPc' = "idle" /\ callback' = arg
        /\ arg \in Closures /\ path = arg /\ arg' = None
        /\ UNCHANGED <<path, netif, glue>>
    BY <1>7 DEF Ethernet!KeepCallback, EthIInv, EthPath
  <2>2. EthPath'
    BY <2>1, EthNames DEF EthIInv, EthPath
  <2>3. Ethernet!TypeOK'
    BY <1>1, <1>4, <2>1 DEF EthIInv, Ethernet!TypeOK
  <2>4. Ethernet!ReceiverIsAlive'
    BY <1>1, <1>5, <2>1, EthNames
    DEF EthHalted, Ethernet!ReceiverIsAlive, Ethernet!Alive
  <2> QED
    BY <1>2, <1>3, <2>2, <2>3, <2>4 DEF EthIInv
<1>8. CASE Ethernet!Wrap
  <2>1. /\ ethPc = "wrap" /\ ethPc' = "stop.attach" /\ netif = None /\ netif' = arg
        /\ arg \in Netifs /\ arg' = None /\ glue = None
        /\ UNCHANGED <<path, callback, glue>>
    BY <1>8 DEF Ethernet!Wrap, EthIInv, EthPath
  <2>2. EthPath'
    BY <2>1, EthNames DEF EthIInv, EthPath
  <2>3. Ethernet!TypeOK'
    BY <1>1, <1>4, <2>1 DEF EthIInv, Ethernet!TypeOK
  <2> QED
    BY <1>1, <1>2, <1>3, <2>1, <2>2, <2>3
    DEF EthIInv, Ethernet!ReceiverIsAlive, Ethernet!Alive
<1>9. CASE Ethernet!Attach
  <2>1. /\ ethPc = "attach" /\ ethPc' \in {"idle", "stop.drop"}
        /\ UNCHANGED <<callback, netif, arg>>
        /\ \/ glue' = netif /\ path' = netif
           \/ UNCHANGED <<glue, path>>
    BY <1>9 DEF Ethernet!Attach
  <2>2. netif \in Netifs \union {None}
    BY DEF EthIInv, Ethernet!TypeOK
  <2>3. EthPath'
    BY <2>1, <2>2, EthNames DEF EthIInv, EthPath
  <2>4. Ethernet!TypeOK'
    BY <1>1, <1>4, <2>1, <2>2 DEF EthIInv, Ethernet!TypeOK
  <2>5. Ethernet!ReceiverIsAlive'
    BY <1>1, <1>5, <2>1, EthNames
    DEF EthHalted, Ethernet!ReceiverIsAlive, Ethernet!Alive
  <2> QED
    BY <1>2, <1>3, <2>3, <2>4, <2>5 DEF EthIInv
<1>10. CASE Ethernet!DeleteGlue
  <2>1. /\ ethPc \in {"swap", "drop"}
        /\ ethPc' \in {"panic", "stop.gone", "idle", "stop.attach"}
        /\ glue' = None /\ arg' = None
        /\ UNCHANGED <<path, callback>>
        /\ \/ netif' = arg /\ arg \in Netifs
           \/ netif' = netif
    BY <1>10 DEF Ethernet!DeleteGlue, EthIInv, EthPath
  <2>2. EthPath'
    BY <2>1, EthNames DEF EthIInv, EthPath
  <2>3. Ethernet!TypeOK'
    BY <1>1, <1>4, <2>1 DEF EthIInv, Ethernet!TypeOK
  <2> QED
    BY <1>1, <1>2, <1>3, <2>1, <2>2, <2>3
    DEF EthIInv, Ethernet!ReceiverIsAlive, Ethernet!Alive
<1> QED
  BY <1>6, <1>7, <1>8, <1>9, <1>10

(* clear_all() goes through when the driver does not run.                  *)
LEMMA EthUninstallKeepsIInv ==
    ASSUME Ethernet!EthAssumption, EthIInv, Ethernet!Uninstall
    PROVE  EthIInv'
<1>1. /\ ethPc = "gone"
      /\ UNCHANGED <<ethQueue, ethStatus, rx, glue, arg, ethAsync, ethStage, ethIgnored>>
      /\ glue = None
  BY DEF Ethernet!Uninstall, Ethernet!wait, EthIInv, EthPath
<1>2. CASE /\ ethDrv = "Stopped" /\ ethDrv' = "none" /\ ethPc' = "end"
           /\ callback' = None /\ netif' = None /\ path' = None
  <2>1. rx = None
    BY <1>2 DEF EthIInv, EthQuiet, Ethernet!Running
  <2>2. Ethernet!TypeOK'
    BY <1>1, <1>2 DEF EthIInv, Ethernet!TypeOK
  <2>3. EthPath' /\ Ethernet!ReceiverIsAlive'
    BY <1>1, <1>2, <2>1, EthNames
    DEF EthIInv, EthPath, Ethernet!ReceiverIsAlive, Ethernet!Alive
  <2> QED
    BY <1>1, <1>2, <2>1, <2>2, <2>3 DEF EthIInv, EthQuiet, EthHalted, EthMirror,
       HasLatest
<1>3. CASE ethPc' = "panic" /\ UNCHANGED <<ethDrv, callback, netif, path>>
  <2>1. Ethernet!TypeOK'
    BY <1>1, <1>3 DEF EthIInv, Ethernet!TypeOK
  <2>2. EthPath' /\ Ethernet!ReceiverIsAlive'
    BY <1>1, <1>3 DEF EthIInv, EthPath, Ethernet!ReceiverIsAlive, Ethernet!Alive
  <2> QED
    BY <1>1, <1>3, <2>1, <2>2 DEF EthIInv, EthQuiet, EthHalted, EthMirror, HasLatest
<1> QED
  BY <1>2, <1>3 DEF Ethernet!Uninstall

LEMMA EthLinkKeepsIInv ==
    ASSUME Ethernet!EthAssumption, EthIInv, Ethernet!Link
    PROVE  EthIInv'
<1> DEFINE e == [kind |-> ethDrv', own |-> TRUE]
<1>1. /\ ethDrv \in Ethernet!Running /\ ethDrv' \in Ethernet!Running
      /\ Ethernet!Post(<<e>>)
      /\ UNCHANGED <<ethStatus, path, rx, callback, netif, glue, ethPc, arg,
                     ethAsync, ethStage, ethIgnored>>
  BY DEF Ethernet!Link, Ethernet!Event, Ethernet!app, Ethernet!Running
<1>2. e \in EthEvents /\ e.own /\ e.kind = ethDrv'
  BY <1>1 DEF EthEvents
<1> HIDE DEF e
<1>3. /\ ethQueue' \in Seq(EthEvents) /\ Len(ethQueue') <= EthQueue
      /\ HasLatest(ethQueue', Ethernet!Ours) /\ Latest(ethQueue', Ethernet!Ours) = {e}
  BY <1>1, <1>2, EthPostOne
<1>4. Ethernet!TypeOK'
  BY <1>1, <1>3 DEF EthIInv, Ethernet!TypeOK, EthEvents
<1>5. EthMirror'
  BY <1>1, <1>2, <1>3 DEF EthMirror
<1>6. EthQuiet'
  BY <1>1 DEF EthIInv, EthQuiet, EthHalted, Ethernet!Running
<1> QED
  BY <1>1, <1>3, <1>4, <1>5, <1>6 DEF EthIInv, EthPath, Ethernet!ReceiverIsAlive,
     Ethernet!Alive

LEMMA EthElsewhereKeepsIInv ==
    ASSUME Ethernet!EthAssumption, EthIInv, Ethernet!Elsewhere
    PROVE  EthIInv'
<1> DEFINE e == [kind |-> "Connected", own |-> FALSE]
<1>1. /\ Ethernet!Post(<<e>>)
      /\ UNCHANGED <<ethDrv, ethStatus, path, rx, callback, netif, glue, ethPc, arg,
                     ethAsync, ethStage, ethIgnored>>
  BY DEF Ethernet!Elsewhere, Ethernet!app
<1>2. e \in EthEvents /\ ~ e.own
  BY DEF EthEvents, Ethernet!Running
<1> HIDE DEF e
<1>3. /\ ethQueue' \in Seq(EthEvents) /\ Len(ethQueue') <= EthQueue
      /\ HasLatest(ethQueue', Ethernet!Ours)
      /\ Latest(ethQueue', Ethernet!Ours) = Latest(ethQueue, Ethernet!Ours)
  BY <1>1, <1>2, EthPostOne
<1>4. Ethernet!TypeOK'
  BY <1>1, <1>3 DEF EthIInv, Ethernet!TypeOK, EthEvents
<1>5. EthMirror' /\ EthQuiet'
  BY <1>1, <1>3 DEF EthIInv, EthMirror, EthQuiet
<1> QED
  BY <1>1, <1>3, <1>4, <1>5 DEF EthIInv, EthPath, Ethernet!ReceiverIsAlive,
     Ethernet!Alive

LEMMA EthDispatchKeepsIInv ==
    ASSUME Ethernet!EthAssumption, EthIInv, Ethernet!Dispatch
    PROVE  EthIInv'
<1>1. /\ ethQueue # <<>> /\ ethQueue' = Tail(ethQueue)
      /\ ethStatus' = IF Head(ethQueue).own THEN Head(ethQueue).kind ELSE ethStatus
      /\ UNCHANGED <<ethDrv, path, rx, callback, netif, glue, ethPc, arg, ethAsync,
                     ethIgnored>>
      /\ ethStage' \in {ethStage, "look"}
  BY DEF Ethernet!Dispatch, Ethernet!Mirrored, Ethernet!app
<1>2. ethQueue \in Seq(EthEvents)
  BY DEF EthIInv, Ethernet!TypeOK, EthEvents
<1>3. /\ ethQueue' \in Seq(EthEvents) /\ Len(ethQueue') <= EthQueue
      /\ Head(ethQueue) \in EthEvents
  <2>1. Len(ethQueue') = Len(ethQueue) - 1 /\ Len(ethQueue) \in Nat
    BY <1>1, <1>2
  <2> QED
    BY <1>1, <1>2, <2>1 DEF EthIInv, Ethernet!TypeOK, Ethernet!EthAssumption
<1>4. /\ HasLatest(ethQueue', Ethernet!Ours)
      /\ Latest(ethQueue, Ethernet!Ours) =
            IF Head(ethQueue).own /\ Latest(ethQueue', Ethernet!Ours) = {}
            THEN {Head(ethQueue)} ELSE Latest(ethQueue', Ethernet!Ours)
  <2>1. ethQueue # <<>> /\ ethQueue' = Tail(ethQueue)
    BY <1>1
  <2>2. HasLatest(ethQueue, Ethernet!Ours)
    BY DEF EthIInv
  <2>3. Head(ethQueue) \in Ethernet!Ours <=> Head(ethQueue).own
    BY <1>3, EthOurs
  <2>4. HasLatest(Tail(ethQueue), Ethernet!Ours)
    BY <1>2, <2>1, <2>2, LatestTail
  <2>5. Latest(ethQueue, Ethernet!Ours) =
          IF /\ Head(ethQueue) \in Ethernet!Ours
             /\ Latest(Tail(ethQueue), Ethernet!Ours) = {}
          THEN {Head(ethQueue)} ELSE Latest(Tail(ethQueue), Ethernet!Ours)
    BY <1>2, <2>1, <2>2, LatestTail
  <2> QED
    BY <2>1, <2>3, <2>4, <2>5
<1>5. Ethernet!TypeOK'
  <2>1. ethStatus' \in Ethernet!Running \union {"Stopped"}
    BY <1>1, <1>3 DEF EthIInv, Ethernet!TypeOK, EthEvents
  <2> QED
    BY <1>1, <1>3, <2>1 DEF EthIInv, Ethernet!TypeOK, EthEvents
<1>6. EthMirror'
  BY <1>1, <1>4 DEF EthIInv, EthMirror
<1>7. EthQuiet'
  BY <1>1, <1>4 DEF EthIInv, EthQuiet
<1> QED
  BY <1>1, <1>4, <1>5, <1>6, <1>7 DEF EthIInv, EthPath, Ethernet!ReceiverIsAlive,
     Ethernet!Alive

LEMMA EthFrameKeepsIInv ==
    ASSUME Ethernet!EthAssumption, EthIInv, Ethernet!Receive \/ Ethernet!Handled
    PROVE  EthIInv'
<1>1. UNCHANGED <<ethDrv, ethQueue, ethStatus, path, callback, netif, glue, ethPc,
                  arg, ethAsync, ethStage, ethIgnored>>
  BY DEF Ethernet!Receive, Ethernet!Handled, Ethernet!app
<1>2. \/ rx' = path /\ ethDrv = "Connected"
      \/ rx' = None
  BY DEF Ethernet!Receive, Ethernet!Handled
<1>3. Ethernet!TypeOK'
  BY <1>1, <1>2 DEF EthIInv, Ethernet!TypeOK
<1>4. EthQuiet'
  BY <1>1, <1>2 DEF EthIInv, EthQuiet, Ethernet!Running
<1>5. Ethernet!ReceiverIsAlive'
  BY <1>1, <1>2, EthNames DEF EthIInv, EthQuiet, EthHalted, EthPath,
     Ethernet!ReceiverIsAlive, Ethernet!Alive
<1> QED
  BY <1>1, <1>3, <1>4, <1>5 DEF EthIInv, EthPath, EthMirror,
     HasLatest

LEMMA EthStepKeepsIInv ==
    ASSUME Ethernet!EthAssumption, EthIInv, [Ethernet!Next]_(Ethernet!vars)
    PROVE  EthIInv'
<1>1. CASE UNCHANGED Ethernet!vars
  BY <1>1 DEF Ethernet!vars, EthIInv, Ethernet!TypeOK, HasLatest, EthQuiet,
     EthHalted, EthPath, EthMirror, Ethernet!ReceiverIsAlive, Ethernet!Alive
<1> QED
  BY <1>1, EthNewKeepsIInv, EthStartKeepsIInv, EthStopKeepsIInv,
     EthBeginKeepsIInv, EthHaltKeepsIInv, EthWaitKeepsIInv,
     EthCallKeepsIInv, EthUninstallKeepsIInv, EthLinkKeepsIInv,
     EthElsewhereKeepsIInv, EthDispatchKeepsIInv, EthFrameKeepsIInv
  DEF Ethernet!Next

LEMMA EthIInvIsSafe ==
    ASSUME EthIInv
    PROVE  Ethernet!TypeOK /\ Ethernet!MirrorCatchesUp /\ Ethernet!ReceiverIsAlive
<1>1. Ethernet!MirrorCatchesUp
  BY EthOurs DEF EthIInv, EthMirror, Ethernet!MirrorCatchesUp
<1> QED
  BY <1>1 DEF EthIInv

LEMMA EthInvariance ==
    ASSUME Ethernet!EthAssumption PROVE Ethernet!Spec => []EthIInv
<1>1. Ethernet!Init => EthIInv
  BY EthInitIInv
<1>2. EthIInv /\ [Ethernet!Next]_(Ethernet!vars) => EthIInv'
  BY EthStepKeepsIInv
<1> QED
  BY <1>1, <1>2, PTL DEF Ethernet!Spec

-----------------------------------------------------------------------------
(* Where the frames of the Wi-Fi driver go. The application changes where  *)
(* they go while the driver is stopped and hands over nothing, as long as  *)
(* no error of stop() was ignored; what is registered is in the statics,   *)
(* or is the interface that is attached.                                   *)

LinkHalted ==
    {"register.ap", "register.sta", "register.tx", "swap", "drop", "attach", "gone"}

LinkQuiet ==
    /\ ~ ignored /\ linkPc \in LinkHalted => drv # "started"
    /\ linkPc = "none" => drv = "none"
    /\ call.to # None => drv = "started"

LinkRegistered ==
    /\ \A h \in Link!Handlers : input[h] = "closures" => slot # None
    /\ \A d \in Link!Devices : input[d] \in Netifs => input[d] = attached[d]
    /\ \A d \in Link!Devices : attached[d] # None => attached[d] = linkNetif[d]
    /\ input["tx"] \notin Netifs

LinkCalls ==
    /\ linkPc \in {"register.ap", "register.sta", "register.tx"} => slot # None
    /\ linkPc \in {"wrap", "stop.swap", "swap"} => linkArg \in Link!Pairs
    /\ linkPc = "wrap" => linkNetif = Link!Bare
    /\ call.to \in Netifs => call.by \in Link!Devices
    /\ linkPc \in {"stop.gone", "gone"} => \A d \in Link!Devices : attached[d] = None

LinkIInv ==
    /\ Link!TypeOK /\ LinkQuiet /\ LinkRegistered /\ LinkCalls
    /\ Link!ReceiverIsAlive

LEMMA LinkInitIInv ==
    ASSUME Link!WifiLinkAssumption, Link!Init PROVE LinkIInv
BY DEF Link!WifiLinkAssumption, Link!Init, LinkIInv, Link!TypeOK, LinkQuiet,
   LinkHalted, LinkRegistered, LinkCalls, Link!ReceiverIsAlive, Link!Alive,
   Link!Nobody, Link!Bare, Link!Devices, Link!Handlers

(* None is no interface, and an interface is neither a closure nor a word. *)
LEMMA LinkNames ==
    ASSUME Link!WifiLinkAssumption
    PROVE  /\ None \notin Netifs /\ None \notin Closures
           /\ "closures" \notin Netifs /\ "unwrapped" \notin Netifs
           /\ "closures" \notin Closures /\ "unwrapped" \notin Closures
           /\ None # "closures" /\ None # "unwrapped"
           /\ \A x \in Closures : x \notin Netifs
BY DEF Link!WifiLinkAssumption

LEMMA LinkStartKeepsIInv ==
    ASSUME Link!WifiLinkAssumption, LinkIInv, Link!New \/ Link!Start \/ Link!Stop
    PROVE  LinkIInv'
<1>1. CASE Link!New
  BY <1>1 DEF Link!New, LinkIInv, Link!TypeOK, LinkQuiet, LinkHalted, LinkRegistered,
     LinkCalls, Link!ReceiverIsAlive, Link!Alive
<1>2. CASE Link!Stop
  BY <1>2 DEF Link!Stop, Link!Stopped, LinkIInv, Link!TypeOK, LinkQuiet,
     LinkRegistered, LinkCalls, Link!ReceiverIsAlive, Link!Alive
<1>3. CASE Link!Start
  <2>1. /\ linkPc = "idle" /\ drv' = "started"
        /\ UNCHANGED <<slot, call, linkNetif, attached, linkPc, linkArg, ignored>>
        /\ input' \in [Link!Handlers -> Netifs \union {"closures", None}]
        /\ \A h \in Link!Handlers : input'[h] =
              IF h \in Link!Devices /\ attached[h] # None THEN attached[h] ELSE input[h]
    BY <1>3 DEF Link!Start, LinkIInv, Link!TypeOK
  <2>2. Link!TypeOK'
    BY <2>1 DEF LinkIInv, Link!TypeOK
  <2>3. LinkRegistered'
    BY <2>1, LinkNames DEF LinkIInv, LinkRegistered, Link!TypeOK, Link!Devices,
       Link!Handlers
  <2> QED
    BY <2>1, <2>2, <2>3 DEF LinkIInv, LinkQuiet, LinkHalted, LinkCalls,
       Link!ReceiverIsAlive, Link!Alive
<1> QED
  BY <1>1, <1>2, <1>3

(* "let _ = self.stop()": unless an error was ignored the driver does not  *)
(* run any more, and hands over nothing.                                   *)
LEMMA LinkStopIgnored ==
    ASSUME LinkIInv, Link!StopIgnored
    PROVE  /\ drv' \in {"none", "stopped", "started"} /\ ignored' \in BOOLEAN
           /\ ~ ignored' => ~ ignored /\ drv' # "started" /\ call.to = None
           /\ call.to # None => drv' = "started"
BY DEF Link!StopIgnored, Link!Stopped, LinkIInv, Link!TypeOK, LinkQuiet

LEMMA LinkCallbacksKeepIInv ==
    ASSUME Link!WifiLinkAssumption, LinkIInv,
           \/ \E c \in Closures : Link!SetCallbacks(c)
           \/ Link!Register("ap", "register.ap", "register.sta")
           \/ Link!Register("sta", "register.sta", "register.tx")
           \/ Link!Register("tx", "register.tx", "idle")
    PROVE  LinkIInv'
<1>1. ASSUME NEW c \in Closures, Link!SetCallbacks(c) PROVE LinkIInv'
  <2>1. /\ slot' = c /\ linkPc' = "register.ap" /\ Link!StopIgnored
        /\ UNCHANGED <<input, call, linkNetif, attached, linkArg>>
    BY <1>1 DEF Link!SetCallbacks
  <2>2. /\ drv' \in {"none", "stopped", "started"} /\ ignored' \in BOOLEAN
        /\ ~ ignored' => ~ ignored /\ drv' # "started" /\ call.to = None
        /\ call.to # None => drv' = "started"
    BY <2>1, LinkStopIgnored
  <2>3. Link!TypeOK'
    BY <2>1, <2>2 DEF LinkIInv, Link!TypeOK
  <2>4. LinkQuiet' /\ LinkRegistered' /\ LinkCalls'
    BY <2>1, <2>2, LinkNames DEF LinkIInv, LinkQuiet, LinkRegistered, LinkCalls
  <2> QED
    BY <2>1, <2>2, <2>3, <2>4, LinkNames
    DEF LinkIInv, Link!ReceiverIsAlive, Link!Alive
<1>2. ASSUME NEW h \in Link!Handlers,
             NEW at \in {"register.ap", "register.sta", "register.tx"},
             NEW next \in {"register.sta", "register.tx", "idle"},
             Link!Register(h, at, next)
      PROVE  LinkIInv'
  <2>1. /\ slot # None /\ linkPc \in {"register.ap", "register.sta", "register.tx"}
        /\ linkPc' \in {"register.sta", "register.tx", "idle"}
        /\ UNCHANGED <<drv, slot, call, linkNetif, attached, linkArg, ignored>>
    BY <1>2 DEF Link!Register, LinkIInv, LinkQuiet, LinkCalls
  <2>2. input' = input \/ input' = [input EXCEPT ![h] = "closures"]
    BY <1>2 DEF Link!Register
  <2>3. Link!TypeOK'
    BY <2>1, <2>2 DEF LinkIInv, Link!TypeOK
  <2>4. LinkRegistered'
    BY <2>1, <2>2, LinkNames DEF LinkIInv, LinkRegistered, Link!TypeOK,
       Link!Devices, Link!Handlers
  <2> QED
    BY <2>1, <2>3, <2>4 DEF LinkIInv, LinkQuiet, LinkHalted, LinkCalls,
       Link!ReceiverIsAlive, Link!Alive
<1> QED
  BY <1>1, <1>2 DEF Link!Handlers, Link!Devices

LEMMA LinkBeginKeepsIInv ==
    ASSUME Link!WifiLinkAssumption, LinkIInv,
           \/ \E n \in Link!Pairs :
                 Link!Begin(IF linkNetif = Link!Bare THEN "wrap" ELSE "stop.swap", n)
           \/ Link!Begin(IF linkNetif = Link!Bare THEN "stop.gone" ELSE "stop.drop",
                         None)
    PROVE  LinkIInv'
<1>1. /\ linkPc = "idle"
      /\ UNCHANGED <<drv, input, slot, call, linkNetif, attached, ignored>>
  BY DEF Link!Begin
<1>2. \/ linkPc' = "wrap" /\ linkNetif = Link!Bare /\ linkArg' \in Link!Pairs
      \/ linkPc' = "stop.swap" /\ linkArg' \in Link!Pairs
      \/ linkPc' = "stop.gone" /\ linkNetif = Link!Bare /\ linkArg' = None
      \/ linkPc' = "stop.drop" /\ linkArg' = None
  BY DEF Link!Begin
<1>3. linkNetif = Link!Bare => \A d \in Link!Devices : attached[d] = None
  BY DEF LinkIInv, LinkRegistered, Link!Bare
<1>4. Link!TypeOK'
  BY <1>1, <1>2 DEF LinkIInv, Link!TypeOK
<1> QED
  BY <1>1, <1>2, <1>3, <1>4 DEF LinkIInv, LinkQuiet, LinkHalted, LinkRegistered,
     LinkCalls, Link!ReceiverIsAlive, Link!Alive

LEMMA LinkHaltKeepsIInv ==
    ASSUME Link!WifiLinkAssumption, LinkIInv,
           \/ Link!Halt("stop.swap", "swap") \/ Link!Halt("stop.drop", "drop")
           \/ Link!Halt("stop.attach", "attach") \/ Link!Halt("stop.gone", "gone")
    PROVE  LinkIInv'
<1>1. /\ Link!StopIgnored
      /\ UNCHANGED <<input, slot, call, linkNetif, attached, linkArg>>
      /\ \/ linkPc = "stop.swap" /\ linkPc' = "swap"
         \/ linkPc = "stop.gone" /\ linkPc' = "gone"
         \/ linkPc' \in {"drop", "attach"}
  BY DEF Link!Halt
<1>2. /\ drv' \in {"none", "stopped", "started"} /\ ignored' \in BOOLEAN
      /\ ~ ignored' => ~ ignored /\ drv' # "started" /\ call.to = None
      /\ call.to # None => drv' = "started"
  BY <1>1, LinkStopIgnored
<1>3. Link!TypeOK'
  BY <1>1, <1>2 DEF LinkIInv, Link!TypeOK
<1> QED
  BY <1>1, <1>2, <1>3 DEF LinkIInv, LinkQuiet, LinkRegistered, LinkCalls,
     Link!ReceiverIsAlive, Link!Alive

LEMMA LinkWrapKeepsIInv ==
    ASSUME Link!WifiLinkAssumption, LinkIInv, Link!Wrap PROVE LinkIInv'
<1>1. /\ linkPc = "wrap" /\ linkPc' = "stop.attach"
      /\ linkNetif = Link!Bare /\ linkNetif' = linkArg
      /\ linkArg \in Link!Pairs /\ linkArg' = None
      /\ UNCHANGED <<drv, input, slot, call, attached, ignored>>
  BY DEF Link!Wrap, LinkIInv, LinkCalls
<1>2. \A d \in Link!Devices : attached[d] = None
  BY <1>1 DEF LinkIInv, LinkRegistered, LinkCalls, Link!Bare
<1>3. Link!TypeOK'
  BY <1>1 DEF LinkIInv, Link!TypeOK
<1>4. Link!ReceiverIsAlive'
  <2>1. call.to \in Netifs => linkNetif[call.by] = None
    BY <1>1 DEF LinkIInv, LinkCalls, Link!Bare
  <2> QED
    BY <1>1, <2>1, LinkNames
    DEF LinkIInv, Link!ReceiverIsAlive, Link!Alive
<1> QED
  BY <1>1, <1>2, <1>3, <1>4, LinkNames DEF LinkIInv, LinkQuiet, LinkHalted,
     LinkRegistered, LinkCalls

LEMMA LinkDetachKeepsIInv ==
    ASSUME Link!WifiLinkAssumption, LinkIInv, Link!Detach PROVE LinkIInv'
<1>1. /\ linkPc \in {"swap", "drop"}
      /\ ~ ignored => drv # "started" /\ call.to = None
      /\ linkArg' = None
      /\ UNCHANGED <<drv, slot, call, ignored>>
  BY DEF Link!Detach, LinkIInv, LinkQuiet, LinkHalted
<1>2. PICK cleared \in {{}, {"ap"}, Link!Devices} :
        /\ attached' = [d \in Link!Devices |->
                          IF d \in cleared THEN None ELSE attached[d]]
        /\ input' = [h \in Link!Handlers |->
                       IF h \in cleared /\ input[h] = attached[h]
                       THEN None ELSE input[h]]
        /\ IF cleared = Link!Devices
           THEN /\ linkPc' = IF linkPc = "swap" THEN "stop.attach" ELSE "stop.gone"
                /\ linkNetif' = IF linkPc = "swap" THEN linkArg ELSE linkNetif
           ELSE /\ linkPc' = IF linkPc = "swap" THEN "idle" ELSE "panic"
                /\ UNCHANGED linkNetif
  BY DEF Link!Detach
<1>3. /\ attached' \in [Link!Devices -> Netifs \union {None}]
      /\ input' \in [Link!Handlers -> Netifs \union {"closures", None}]
      /\ linkNetif' \in {Link!Bare} \union Link!Pairs
      /\ linkPc' \in {"stop.attach", "stop.gone", "idle", "panic"}
  BY <1>1, <1>2 DEF LinkIInv, Link!TypeOK, LinkCalls
<1>4. cleared = Link!Devices => \A d \in Link!Devices : attached'[d] = None
  BY <1>2
<1>5. \A d \in Link!Devices :
        /\ input'[d] \in Netifs => input'[d] = attached'[d]
        /\ attached'[d] # None => attached'[d] = linkNetif'[d]
  BY <1>2, <1>4, LinkNames DEF LinkIInv, LinkRegistered, Link!Handlers
<1>6. /\ \A h \in Link!Handlers : input'[h] = "closures" => slot # None
      /\ input'["tx"] \notin Netifs
  BY <1>2, LinkNames DEF LinkIInv, LinkRegistered, Link!Handlers, Link!Devices
<1>7. LinkRegistered'
  BY <1>1, <1>5, <1>6 DEF LinkRegistered
<1>8. Link!TypeOK'
  BY <1>1, <1>3 DEF LinkIInv, Link!TypeOK
<1>9. LinkQuiet' /\ LinkCalls'
  BY <1>1, <1>2, <1>4, <1>3 DEF LinkIInv, LinkQuiet, LinkHalted, LinkCalls
<1>10. Link!ReceiverIsAlive'
  BY <1>1, LinkNames DEF Link!ReceiverIsAlive, Link!Alive
<1> QED
  BY <1>7, <1>8, <1>9, <1>10 DEF LinkIInv

LEMMA LinkAttachKeepsIInv ==
    ASSUME Link!WifiLinkAssumption, LinkIInv, Link!Attach PROVE LinkIInv'
<1>1. /\ linkPc = "attach" /\ linkPc' \in {"idle", "stop.drop"}
      /\ UNCHANGED <<drv, input, slot, call, linkNetif, linkArg, ignored>>
  BY DEF Link!Attach
<1>2. PICK done \in {{}, {"ap"}, Link!Devices} :
        attached' = [d \in Link!Devices |->
                       IF d \in done THEN linkNetif[d] ELSE attached[d]]
  BY DEF Link!Attach
<1>3. \A d \in Link!Devices : linkNetif[d] \in Netifs \union {None}
  BY DEF LinkIInv, Link!TypeOK, Link!Bare, Link!Pairs
<1>4. Link!TypeOK'
  BY <1>1, <1>2, <1>3 DEF LinkIInv, Link!TypeOK
<1>5. \A d \in Link!Devices :
        /\ input[d] \in Netifs => input[d] = attached'[d]
        /\ attached'[d] # None => attached'[d] = linkNetif[d]
  BY <1>2, LinkNames DEF LinkIInv, LinkRegistered
<1> QED
  BY <1>1, <1>4, <1>5 DEF LinkIInv, LinkQuiet, LinkHalted, LinkRegistered,
     LinkCalls, Link!ReceiverIsAlive, Link!Alive

(* esp_wifi_deinit() goes through when the driver does not run.            *)
LEMMA LinkClearAllKeepsIInv ==
    ASSUME Link!WifiLinkAssumption, LinkIInv, Link!ClearAll PROVE LinkIInv'
<1>1. /\ linkPc = "gone"
      /\ \A d \in Link!Devices : attached[d] = None
      /\ UNCHANGED <<call, attached, linkArg, ignored>>
  BY DEF Link!ClearAll, LinkIInv, LinkCalls
<1>2. CASE /\ drv = "stopped" /\ drv' = "none" /\ linkPc' = "end"
           /\ input' = Link!Nobody /\ slot' = None
           /\ linkNetif' = Link!Bare
  <2>1. Link!TypeOK'
    BY <1>1, <1>2 DEF LinkIInv, Link!TypeOK, Link!Nobody
  <2>2. LinkRegistered'
    BY <1>1, <1>2, LinkNames DEF LinkRegistered, Link!Nobody, Link!Handlers,
       Link!Devices
  <2>3. call.to = None
    BY <1>2 DEF LinkIInv, LinkQuiet
  <2> QED
    BY <1>1, <1>2, <2>1, <2>2, <2>3, LinkNames DEF LinkIInv, LinkQuiet, LinkHalted,
       LinkCalls, Link!ReceiverIsAlive, Link!Alive
<1>3. CASE linkPc' = "panic" /\ UNCHANGED <<drv, input, slot, linkNetif>>
  BY <1>1, <1>3 DEF LinkIInv, Link!TypeOK, LinkQuiet, LinkHalted, LinkRegistered,
     LinkCalls, Link!ReceiverIsAlive, Link!Alive
<1> QED
  BY <1>2, <1>3 DEF Link!ClearAll

LEMMA LinkFrameKeepsIInv ==
    ASSUME Link!WifiLinkAssumption, LinkIInv,
           (\E h \in Link!Handlers : Link!Receive(h)) \/ Link!Handled
    PROVE  LinkIInv'
<1>1. UNCHANGED <<drv, input, slot, linkNetif, attached, linkPc, linkArg, ignored>>
  BY DEF Link!Receive, Link!Handled
<1>2. ASSUME NEW h \in Link!Handlers, Link!Receive(h) PROVE LinkIInv'
  <2>1. /\ drv = "started" /\ input[h] # None
        /\ call' = [by |-> h, to |-> IF input[h] # "closures" THEN input[h]
                                     ELSE IF slot = None THEN "unwrapped" ELSE slot]
    BY <1>2 DEF Link!Receive
  <2>2. CASE input[h] = "closures"
    <3>1. slot # None /\ call' = [by |-> h, to |-> slot] /\ slot \in Closures
      BY <2>1, <2>2 DEF LinkIInv, LinkRegistered, Link!TypeOK
    <3> QED
      BY <1>1, <2>1, <3>1, LinkNames DEF LinkIInv, Link!TypeOK, LinkQuiet,
         LinkRegistered, LinkCalls, Link!ReceiverIsAlive, Link!Alive
  <2>3. CASE input[h] # "closures"
    <3>1. call' = [by |-> h, to |-> input[h]] /\ input[h] \in Netifs
      BY <2>1, <2>3 DEF LinkIInv, Link!TypeOK
    <3>2. h \in Link!Devices
      BY <3>1 DEF LinkIInv, LinkRegistered, Link!Handlers
    <3>3. input[h] = linkNetif[h]
      BY <3>1, <3>2, LinkNames DEF LinkIInv, LinkRegistered
    <3>4. Link!TypeOK'
      BY <1>1, <3>1 DEF LinkIInv, Link!TypeOK
    <3>5. Link!ReceiverIsAlive'
      BY <1>1, <3>1, <3>3, LinkNames DEF Link!ReceiverIsAlive, Link!Alive
    <3> QED
      BY <1>1, <2>1, <3>1, <3>2, <3>4, <3>5
      DEF LinkIInv, LinkQuiet, LinkRegistered, LinkCalls
  <2> QED
    BY <2>2, <2>3
<1>3. CASE Link!Handled
  <2>1. call'.to = None /\ call' \in [by : Link!Handlers, to : {None}]
    BY <1>3 DEF Link!Handled, LinkIInv, Link!TypeOK
  <2>2. Link!TypeOK'
    BY <1>1, <2>1 DEF LinkIInv, Link!TypeOK
  <2> QED
    BY <1>1, <2>1, <2>2, LinkNames DEF LinkIInv, LinkQuiet, LinkRegistered,
       LinkCalls, Link!ReceiverIsAlive, Link!Alive
<1> QED
  BY <1>2, <1>3

LEMMA LinkStepKeepsIInv ==
    ASSUME Link!WifiLinkAssumption, LinkIInv, [Link!Next]_(Link!vars)
    PROVE  LinkIInv'
<1>1. CASE UNCHANGED Link!vars
  BY <1>1 DEF Link!vars, LinkIInv, Link!TypeOK, LinkQuiet, LinkRegistered,
     LinkCalls, Link!ReceiverIsAlive, Link!Alive
<1> QED
  BY <1>1, LinkStartKeepsIInv, LinkCallbacksKeepIInv, LinkBeginKeepsIInv,
     LinkHaltKeepsIInv, LinkWrapKeepsIInv, LinkDetachKeepsIInv,
     LinkAttachKeepsIInv, LinkClearAllKeepsIInv, LinkFrameKeepsIInv
  DEF Link!Next

LEMMA LinkInvariance ==
    ASSUME Link!WifiLinkAssumption PROVE Link!Spec => []LinkIInv
<1>1. Link!Init => LinkIInv
  BY LinkInitIInv
<1>2. LinkIInv /\ [Link!Next]_(Link!vars) => LinkIInv'
  BY LinkStepKeepsIInv
<1> QED
  BY <1>1, <1>2, PTL DEF Link!Spec

-----------------------------------------------------------------------------
(* The profiles of Bluedroid. What drop() takes back is not open when it   *)
(* is done, and what the closure was told was a row of the table, in which *)
(* the variant and, for most, the member tell the event.                   *)

BtNames == {"callback", "sink.data", "sink", "source.data", "source",
            "controller", "client", "data"}

BtProfiles == {"gattc", "gatts", "gap", "blegap", "sink", "source", "duplex",
               "avrc", "hfp"}

(* Two sequences put together, element by element.                         *)
LEMMA Two ==
    ASSUME NEW a, NEW b
    PROVE  /\ Len(<<a>> \o <<b>>) = 2
           /\ (<<a>> \o <<b>>)[1] = a
           /\ (<<a>> \o <<b>>)[2] = b
<1> DEFINE S == {a, b}
           s == <<a>>
           t == <<b>>
<1>1. s \in Seq(S) /\ t \in Seq(S)
  OBVIOUS
<1>2. Len(s) = 1 /\ Len(t) = 1 /\ s[1] = a /\ t[1] = b
  OBVIOUS
<1> HIDE DEF s, t, S
<1>3. /\ Len(s \o t) = Len(s) + Len(t)
      /\ \A i \in 1 .. Len(s) + Len(t) :
            (s \o t)[i] = IF i <= Len(s) THEN s[i] ELSE t[i - Len(s)]
  BY <1>1, ConcatProperties
<1>4. Len(s \o t) = 2 /\ (s \o t)[1] = a /\ (s \o t)[2] = b
  BY <1>2, <1>3
<1> QED
  BY <1>4 DEF s, t

LEMMA Five ==
    ASSUME NEW a, NEW b, NEW c, NEW d, NEW e, NEW u, u = <<a, b, c>> \o <<d, e>>
    PROVE  /\ Len(u) = 5
           /\ u[1] = a /\ u[2] = b /\ u[3] = c /\ u[4] = d /\ u[5] = e
<1> DEFINE S == {a, b, c, d, e}
           s == <<a, b, c>>
           t == <<d, e>>
<1>1. s \in Seq(S) /\ t \in Seq(S)
  OBVIOUS
<1>2. /\ Len(s) = 3 /\ Len(t) = 2
      /\ s[1] = a /\ s[2] = b /\ s[3] = c /\ t[1] = d /\ t[2] = e
  OBVIOUS
<1>3. u = s \o t
  OBVIOUS
<1> HIDE DEF s, t, S
<1> QED
  BY <1>1, <1>2, <1>3, ConcatProperties

(* What the steps of new() may have left open, and that drop() has undone  *)
(* what it undoes.                                                         *)
BtOpened(left) ==
    \A x \in left :
        \E i \in 1 .. Len(Profile!NewSteps) : x = Profile!NewSteps[i]

BtNoneLeft(left) ==
    \A i \in 1 .. Len(Profile!DropSteps) : Profile!DropSteps[i] \notin left

(* The steps of new() and of drop(), profile by profile.                   *)
LEMMA BtStepsOf ==
    ASSUME profile \in BtProfiles
    PROVE  /\ Len(Profile!NewSteps) \in 0 .. 5
           /\ Len(Profile!DropSteps) \in 0 .. 5
           /\ \A i \in 1 .. Len(Profile!NewSteps) :
                 Profile!NewSteps[i] \in BtNames
           /\ \A left : BtOpened(left) /\ BtNoneLeft(left) =>
                 /\ left \subseteq {"callback", "sink.data", "source.data"}
                 /\ profile \in {"gattc", "gatts", "blegap"} => left = {}
<1>1. CASE profile = "gattc"
  <2>1. Len(Profile!NewSteps) = 1 /\ Profile!NewSteps[1] = "callback"
    BY <1>1 DEF Profile!NewSteps, Profile!GapNew
  <2>2. Len(Profile!DropSteps) = 1 /\ Profile!DropSteps[1] = "callback"
    BY <1>1 DEF Profile!DropSteps, Profile!GattcDrop
  <2>3. \A i \in 1 .. Len(Profile!NewSteps) :
            Profile!NewSteps[i] \in {"callback"}
    BY <2>1
  <2>4. \A left : BtNoneLeft(left) => "callback" \notin left
    BY <2>2 DEF BtNoneLeft
  <2> QED
    BY <1>1, <2>1, <2>2, <2>3, <2>4 DEF BtNames, BtOpened
<1>2. CASE profile = "gatts"
  <2>1. Len(Profile!NewSteps) = 1 /\ Profile!NewSteps[1] = "callback"
    BY <1>2 DEF Profile!NewSteps, Profile!GapNew
  <2>2. Len(Profile!DropSteps) = 1 /\ Profile!DropSteps[1] = "callback"
    BY <1>2 DEF Profile!DropSteps, Profile!GattsDrop
  <2>3. \A i \in 1 .. Len(Profile!NewSteps) :
            Profile!NewSteps[i] \in {"callback"}
    BY <2>1
  <2>4. \A left : BtNoneLeft(left) => "callback" \notin left
    BY <2>2 DEF BtNoneLeft
  <2> QED
    BY <1>2, <2>1, <2>2, <2>3, <2>4 DEF BtNames, BtOpened
<1>3. CASE profile = "blegap"
  <2>1. Len(Profile!NewSteps) = 1 /\ Profile!NewSteps[1] = "callback"
    BY <1>3 DEF Profile!NewSteps, Profile!GapNew
  <2>2. Len(Profile!DropSteps) = 1 /\ Profile!DropSteps[1] = "callback"
    BY <1>3 DEF Profile!DropSteps, Profile!BleGapDrop
  <2>3. \A i \in 1 .. Len(Profile!NewSteps) :
            Profile!NewSteps[i] \in {"callback"}
    BY <2>1
  <2>4. \A left : BtNoneLeft(left) => "callback" \notin left
    BY <2>2 DEF BtNoneLeft
  <2> QED
    BY <1>3, <2>1, <2>2, <2>3, <2>4 DEF BtNames, BtOpened
<1>4. CASE profile = "gap"
  <2>1. Len(Profile!NewSteps) = 1 /\ Profile!NewSteps[1] = "callback"
    BY <1>4 DEF Profile!NewSteps, Profile!GapNew
  <2>2. Len(Profile!DropSteps) = 0
    BY <1>4 DEF Profile!DropSteps, Profile!GapDrop
  <2>3. \A i \in 1 .. Len(Profile!NewSteps) :
            Profile!NewSteps[i] \in {"callback"}
    BY <2>1
  <2> QED
    BY <1>4, <2>1, <2>2, <2>3 DEF BtNames, BtOpened
<1>5. CASE profile = "sink"
  <2>1. /\ Len(Profile!NewSteps) = 3 /\ Profile!NewSteps[1] = "callback"
        /\ Profile!NewSteps[2] = "sink.data" /\ Profile!NewSteps[3] = "sink"
    BY <1>5 DEF Profile!NewSteps, Profile!SinkNew
  <2>2. Len(Profile!DropSteps) = 1 /\ Profile!DropSteps[1] = "sink"
    <3>1. Profile!DropSteps = <<"sink">> \o <<>>
      BY <1>5 DEF Profile!DropSteps, Profile!A2dpDrop
    <3> QED
      BY <3>1
  <2>3. \A i \in 1 .. Len(Profile!NewSteps) :
            Profile!NewSteps[i] \in {"callback", "sink.data", "sink"}
    BY <2>1
  <2>4. \A left : BtNoneLeft(left) => "sink" \notin left
    BY <2>2 DEF BtNoneLeft
  <2> QED
    BY <1>5, <2>1, <2>2, <2>3, <2>4 DEF BtNames, BtOpened
<1>6. CASE profile = "source"
  <2>1. /\ Len(Profile!NewSteps) = 3 /\ Profile!NewSteps[1] = "callback"
        /\ Profile!NewSteps[2] = "source.data"
        /\ Profile!NewSteps[3] = "source"
    BY <1>6 DEF Profile!NewSteps, Profile!SourceNew
  <2>2. Len(Profile!DropSteps) = 1 /\ Profile!DropSteps[1] = "source"
    <3>1. Profile!DropSteps = <<>> \o <<"source">>
      BY <1>6 DEF Profile!DropSteps, Profile!A2dpDrop
    <3> QED
      BY <3>1
  <2>3. \A i \in 1 .. Len(Profile!NewSteps) :
            Profile!NewSteps[i] \in {"callback", "source.data", "source"}
    BY <2>1
  <2>4. \A left : BtNoneLeft(left) => "source" \notin left
    BY <2>2 DEF BtNoneLeft
  <2> QED
    BY <1>6, <2>1, <2>2, <2>3, <2>4 DEF BtNames, BtOpened
<1>7. CASE profile = "duplex"
  <2>1. /\ Len(Profile!NewSteps) = 5 /\ Profile!NewSteps[1] = "callback"
        /\ Profile!NewSteps[2] = "sink.data" /\ Profile!NewSteps[3] = "sink"
        /\ Profile!NewSteps[4] = "source.data"
        /\ Profile!NewSteps[5] = "source"
    <3>1. Profile!NewSteps = Profile!SinkNew \o Tail(Profile!SourceNew)
      BY <1>7 DEF Profile!NewSteps
    <3>2. Tail(Profile!SourceNew) = <<"source.data", "source">>
      BY DEF Profile!SourceNew
    <3>3. Profile!NewSteps
              = <<"callback", "sink.data", "sink">> \o <<"source.data", "source">>
      BY <3>1, <3>2 DEF Profile!SinkNew
    <3> QED
      BY <3>3, Five
  <2>2. /\ Len(Profile!DropSteps) = 2 /\ Profile!DropSteps[1] = "sink"
        /\ Profile!DropSteps[2] = "source"
    <3>1. Profile!DropSteps = <<"sink">> \o <<"source">>
      BY <1>7 DEF Profile!DropSteps, Profile!A2dpDrop
    <3> QED
      BY <3>1, Two
  <2>3. \A i \in 1 .. Len(Profile!NewSteps) :
            Profile!NewSteps[i] \in {"callback", "sink.data", "sink",
                                     "source.data", "source"}
    BY <2>1
  <2>4. \A left : BtNoneLeft(left) => "sink" \notin left /\ "source" \notin left
    BY <2>2 DEF BtNoneLeft
  <2> QED
    BY <1>7, <2>1, <2>2, <2>3, <2>4 DEF BtNames, BtOpened
<1>8. CASE profile = "avrc"
  <2>1. /\ Len(Profile!NewSteps) = 2 /\ Profile!NewSteps[1] = "callback"
        /\ Profile!NewSteps[2] = "controller"
    BY <1>8 DEF Profile!NewSteps, Profile!AvrcNew
  <2>2. Len(Profile!DropSteps) = 1 /\ Profile!DropSteps[1] = "controller"
    BY <1>8 DEF Profile!DropSteps, Profile!AvrcDrop
  <2>3. \A i \in 1 .. Len(Profile!NewSteps) :
            Profile!NewSteps[i] \in {"callback", "controller"}
    BY <2>1
  <2>4. \A left : BtNoneLeft(left) => "controller" \notin left
    BY <2>2 DEF BtNoneLeft
  <2> QED
    BY <1>8, <2>1, <2>2, <2>3, <2>4 DEF BtNames, BtOpened
<1>9. CASE profile = "hfp"
  <2>1. /\ Len(Profile!NewSteps) = 3 /\ Profile!NewSteps[1] = "callback"
        /\ Profile!NewSteps[2] = "client" /\ Profile!NewSteps[3] = "data"
    BY <1>9 DEF Profile!NewSteps, Profile!HfpNew
  <2>2. /\ Len(Profile!DropSteps) = 2 /\ Profile!DropSteps[1] = "data"
        /\ Profile!DropSteps[2] = "client"
    BY <1>9 DEF Profile!DropSteps, Profile!HfpDrop
  <2>3. \A i \in 1 .. Len(Profile!NewSteps) :
            Profile!NewSteps[i] \in {"callback", "client", "data"}
    BY <2>1
  <2>4. \A left : BtNoneLeft(left) => "data" \notin left /\ "client" \notin left
    BY <2>2 DEF BtNoneLeft
  <2> QED
    BY <1>9, <2>1, <2>2, <2>3, <2>4 DEF BtNames, BtOpened
<1> QED
  BY <1>1, <1>2, <1>3, <1>4, <1>5, <1>6, <1>7, <1>8, <1>9 DEF BtProfiles

(* Every variant of the enum has a row.                                    *)
LEMMA BtHeard ==
    ASSUME NEW p \in BtProfiles
    PROVE  \A v \in Profile!Variants(p) :
              \E row \in Profile!Rows(p) : row[3] = v
<1> DEFINE other == <<"OTHER", Profile!NoMember, "Other">>
<1>1. Profile!Rows(p) = Profile!RowsOf(p) \union {other}
  BY DEF Profile!Rows
<1>2. other[3] = "Other"
  OBVIOUS
<1> HIDE DEF other
<1>3. SUFFICES \A v \in Profile!VariantsOf(p) :
                  \E row \in Profile!RowsOf(p) : row[3] = v
  BY <1>1, <1>2 DEF Profile!Variants
<1> USE DEF Profile!RowsOf, Profile!VariantsOf
<1>4. CASE p = "gattc"
  <2>1. /\ Profile!RowsOf(p) = Profile!GattcAttributes \union Profile!GattcConnection
        /\ Profile!VariantsOf(p) = Profile!GattcEvent
    BY <1>4
  <2>2. \A v \in Profile!GattcEvent :
           \E row \in Profile!GattcAttributes \union Profile!GattcConnection : row[3] = v
    BY DEF Profile!GattcAttributes, Profile!GattcConnection, Profile!GattcEvent
  <2> QED
    BY <2>1, <2>2
<1>5. CASE p = "gatts"
  <2>1. /\ Profile!RowsOf(p) = Profile!GattsAttributes \union Profile!GattsConnection
        /\ Profile!VariantsOf(p) = Profile!GattsEvent
    BY <1>5
  <2>2. \A v \in Profile!GattsEvent :
           \E row \in Profile!GattsAttributes \union Profile!GattsConnection : row[3] = v
    BY DEF Profile!GattsAttributes, Profile!GattsConnection, Profile!GattsEvent
  <2> QED
    BY <2>1, <2>2
<1>6. CASE p = "gap"
  BY <1>6, ZenonT(60) DEF Profile!GapFrom, Profile!GapEvent
<1>7. CASE p = "blegap"
  <2> DEFINE others ==
          Profile!BleGapAdvertising \union Profile!BleGapConnection
              \union Profile!BleGapExtended \union Profile!BleGapPeriodic
  <2>1. /\ Profile!RowsOf(p) = Profile!ScanResult \union others
        /\ Profile!VariantsOf(p)
               = Profile!GapSearchEvent \union Profile!BleGapEvent
    BY <1>7
  <2>2. ASSUME NEW v \in Profile!GapSearchEvent
        PROVE  \E row \in Profile!ScanResult : row[3] = v
    <3>1. <<"SCAN_RESULT", "scan_rst", v>> \in Profile!ScanResult
      BY DEF Profile!ScanResult
    <3>2. <<"SCAN_RESULT", "scan_rst", v>>[3] = v
      OBVIOUS
    <3> QED
      BY <3>1, <3>2
  <2>3. ASSUME NEW v \in Profile!BleGapEvent
        PROVE  \E row \in others : row[3] = v
    BY DEF Profile!BleGapEvent, Profile!BleGapAdvertising,
       Profile!BleGapConnection, Profile!BleGapExtended,
       Profile!BleGapPeriodic
  <2> HIDE DEF others, Profile!RowsOf, Profile!VariantsOf
  <2> QED
    BY <2>1, <2>2, <2>3
<1>8. CASE p \in {"sink", "source", "duplex"}
  <2>1. /\ Profile!RowsOf(p) = Profile!A2dpFrom \union Profile!A2dpData
        /\ Profile!VariantsOf(p) = Profile!A2dpEvent
    BY <1>8
  <2>2. \A v \in Profile!A2dpEvent :
           \E row \in Profile!A2dpFrom \union Profile!A2dpData : row[3] = v
    BY DEF Profile!A2dpFrom, Profile!A2dpData, Profile!A2dpEvent
  <2> QED
    BY <2>1, <2>2
<1>9. CASE p = "avrc"
  BY <1>9 DEF Profile!AvrccFrom, Profile!AvrccEvent
<1>10. CASE p = "hfp"
  <2>1. /\ Profile!RowsOf(p) = Profile!HfpcFrom \union Profile!HfpcData
        /\ Profile!VariantsOf(p) = Profile!HfpcEvent
    BY <1>10
  <2>2. \A v \in Profile!HfpcEvent :
           \E row \in Profile!HfpcFrom \union Profile!HfpcData : row[3] = v
    BY DEF Profile!HfpcFrom, Profile!HfpcData, Profile!HfpcEvent
  <2> QED
    BY <2>1, <2>2
<1> QED
  BY <1>4, <1>5, <1>6, <1>7, <1>8, <1>9, <1>10 DEF BtProfiles

(* What a row says of the others: the variant tells the event, and so does *)
(* the member, unless it is shared or misread.                             *)
BtTells(Rows) ==
    \A q, r \in Rows :
        /\ q[3] = r[3] => q[1] = r[1]
        /\ r[2] \notin Profile!SharedMember /\ r[3] \notin Profile!Misread =>
              IF q[3] \in Profile!Misread THEN q[1] # r[1]
                                          ELSE q[2] = r[2] => q[1] = r[1]

LEMMA BtTables ==
    ASSUME NEW p \in BtProfiles
    PROVE  /\ BtTells(Profile!Rows(p))
           /\ \A row \in Profile!Rows(p) :
                 /\ row[3] \in Profile!Variants(p)
                 /\ row # <<>> /\ <<row[2], row[3]>> # <<>>
<1> USE DEF Profile!Rows, Profile!Variants, Profile!RowsOf, Profile!VariantsOf,
        BtTells, Profile!SharedMember, Profile!Misread, Profile!NoMember
<1>1. CASE p = "gattc"
  BY <1>1 DEF Profile!GattcAttributes, Profile!GattcConnection,
     Profile!GattcEvent
<1>2. CASE p = "gatts"
  BY <1>2 DEF Profile!GattsAttributes, Profile!GattsConnection,
     Profile!GattsEvent
<1>3. CASE p = "gap"
  <2> USE <1>3 DEF Profile!GapFrom
  <2>1. ASSUME NEW q \in Profile!Rows(p), NEW r \in Profile!Rows(p),
               q[3] = r[3]
        PROVE  q[1] = r[1]
    BY <2>1
  <2>2. ASSUME NEW q \in Profile!Rows(p), NEW r \in Profile!Rows(p),
               r[2] \notin Profile!SharedMember,
               r[3] \notin Profile!Misread, q[3] \in Profile!Misread
        PROVE  q[1] # r[1]
    BY <2>2
  <2>3. ASSUME NEW q \in Profile!Rows(p), NEW r \in Profile!Rows(p),
               r[2] \notin Profile!SharedMember,
               r[3] \notin Profile!Misread, q[3] \notin Profile!Misread,
               q[2] = r[2]
        PROVE  q[1] = r[1]
    BY <2>3
  <2>4. \A row \in Profile!Rows(p) : row[3] \in Profile!Variants(p)
    BY DEF Profile!GapEvent
  <2>5. \A row \in Profile!Rows(p) :
            row # <<>> /\ <<row[2], row[3]>> # <<>>
    OBVIOUS
  <2> HIDE DEF Profile!Rows, Profile!RowsOf, Profile!SharedMember,
           Profile!Misread, Profile!NoMember, Profile!Variants
  <2> QED
    BY <2>1, <2>2, <2>3, <2>4, <2>5 DEF BtTells
<1>4. CASE p = "blegap"
  <2> USE <1>4 DEF Profile!ScanResult, Profile!GapSearchEvent,
          Profile!BleGapAdvertising, Profile!BleGapConnection,
          Profile!BleGapExtended, Profile!BleGapPeriodic
  <2>1. ASSUME NEW q \in Profile!Rows(p), NEW r \in Profile!Rows(p),
               q[3] = r[3]
        PROVE  q[1] = r[1]
    BY <2>1
  <2>2. ASSUME NEW q \in Profile!Rows(p), NEW r \in Profile!Rows(p),
               r[2] \notin Profile!SharedMember,
               r[3] \notin Profile!Misread, q[3] \in Profile!Misread
        PROVE  q[1] # r[1]
    BY <2>2
  <2>3. ASSUME NEW q \in Profile!Rows(p), NEW r \in Profile!Rows(p),
               r[2] \notin Profile!SharedMember,
               r[3] \notin Profile!Misread, q[3] \notin Profile!Misread,
               q[2] = r[2]
        PROVE  q[1] = r[1]
    BY <2>3
  <2>4. \A row \in Profile!Rows(p) : row[3] \in Profile!Variants(p)
    BY DEF Profile!BleGapEvent
  <2>5. \A row \in Profile!Rows(p) :
            row # <<>> /\ <<row[2], row[3]>> # <<>>
    OBVIOUS
  <2> HIDE DEF Profile!Rows, Profile!RowsOf, Profile!SharedMember,
           Profile!Misread, Profile!NoMember, Profile!Variants
  <2> QED
    BY <2>1, <2>2, <2>3, <2>4, <2>5 DEF BtTells
<1>5. CASE p \in {"sink", "source", "duplex"}
  BY <1>5 DEF Profile!A2dpFrom, Profile!A2dpData, Profile!A2dpEvent
<1>6. CASE p = "avrc"
  BY <1>6 DEF Profile!AvrccFrom, Profile!AvrccEvent
<1>7. CASE p = "hfp"
  BY <1>7 DEF Profile!HfpcFrom, Profile!HfpcData, Profile!HfpcEvent
<1> QED
  BY <1>1, <1>2, <1>3, <1>4, <1>5, <1>6, <1>7 DEF BtProfiles

-----------------------------------------------------------------------------
(* What new() has opened is what a profile can have open, and drop() takes *)
(* it back step by step.                                                   *)

BtTypes ==
    /\ profile \in Profiles
    /\ btPc \in {"none", "new", "live", "drop", "dead"}
    /\ step \in 0 .. 5
    /\ taken \in BOOLEAN /\ spoiled \in BOOLEAN /\ subscribed \in BOOLEAN

BtOwned ==
    /\ btPc \in {"new", "live", "drop"} => taken
    /\ btPc = "none" /\ ~ spoiled => ~ taken
    /\ subscribed => btPc \in {"live", "dead"}

BtSteps ==
    /\ BtOpened(open)
    /\ btPc = "new" => step <= Len(Profile!NewSteps)
    /\ btPc = "drop" =>
          /\ step <= Len(Profile!DropSteps)
          /\ \A i \in 1 .. step : Profile!DropSteps[i] \notin open
    /\ btPc = "none" /\ ~ spoiled => BtNoneLeft(open)

(* The closure was told of the last event by a row of the table.           *)
BtHeardOf ==
    /\ posted \in Profile!Table \union {Profile!NoRow}
    /\ \/ last = Profile!NoEvent /\ told = Profile!NoRow
       \/ \E row \in Profile!Table :
             last = row[1] /\ told \in {Profile!NoRow, <<row[2], row[3]>>}

BtIInv == BtTypes /\ BtOwned /\ BtSteps /\ BtHeardOf

LEMMA BtNoneOpen ==
    BtOpened({})
BY DEF BtOpened

LEMMA BtInitIInv ==
    ASSUME Profile!BtProfileAssumption, Profile!Init PROVE BtIInv
<1>1. BtNoneLeft(open) /\ BtOpened(open)
  BY DEF Profile!Init, BtNoneLeft, BtOpened
<1>2. BtTypes
  <2>1. step \in 0 .. 5
    BY DEF Profile!Init
  <2> QED
    BY <2>1 DEF Profile!Init, BtTypes
<1>3. BtOwned
  BY DEF Profile!Init, BtOwned
<1>4. BtSteps
  BY <1>1 DEF Profile!Init, BtSteps
<1>5. BtHeardOf
  BY DEF Profile!Init, BtHeardOf
<1> QED
  BY <1>2, <1>3, <1>4, <1>5 DEF BtIInv

(* The steps and the rows are those of the profile, which stays.           *)
LEMMA BtSame ==
    ASSUME UNCHANGED profile
    PROVE  /\ Profile!NewSteps' = Profile!NewSteps
           /\ Profile!DropSteps' = Profile!DropSteps
           /\ Profile!Table' = Profile!Table
BY DEF Profile!NewSteps, Profile!DropSteps, Profile!A2dpDrop, Profile!Table

LEMMA BtOwnerKeepsIInv ==
    ASSUME Profile!BtProfileAssumption, BtIInv,
           \/ Profile!Take \/ Profile!NewStep \/ Profile!NewFails
           \/ Profile!NewEnds \/ Profile!Subscribe \/ Profile!Unsubscribe
           \/ Profile!StartDrop
    PROVE  BtIInv'
<1>1. UNCHANGED <<profile, posted>>
  BY DEF Profile!Take, Profile!NewStep, Profile!NewFails, Profile!NewEnds,
     Profile!Subscribe, Profile!Unsubscribe, Profile!StartDrop
<1>2. BtHeardOf'
  BY <1>1, BtSame DEF BtIInv, BtHeardOf, Profile!Take, Profile!NewStep,
     Profile!NewFails, Profile!NewEnds, Profile!Subscribe,
     Profile!Unsubscribe, Profile!StartDrop
<1>3. /\ Len(Profile!NewSteps) \in 0 .. 5
      /\ Len(Profile!DropSteps) \in 0 .. 5
  BY BtStepsOf DEF BtIInv, BtTypes, BtProfiles, Profile!BtProfileAssumption
<1>4. BtTypes'
  <2>1. step' \in 0 .. 5
    <3>1. step \in 0 .. 5
      BY DEF BtIInv, BtTypes
    <3>2. step' \in {0, step} \/ (step < Len(Profile!NewSteps) /\ step' = step + 1)
      BY DEF Profile!Take, Profile!NewStep,
         Profile!NewFails, Profile!NewEnds, Profile!Subscribe,
         Profile!Unsubscribe, Profile!StartDrop
    <3>3. PICK n \in 0 .. 5 : n = Len(Profile!NewSteps)
      BY <1>3
    <3>4. CASE step < n /\ step' = step + 1
      BY <3>1, <3>4
    <3> QED
      BY <3>1, <3>2, <3>3, <3>4
  <2>2. /\ btPc' \in {"none", "new", "live", "drop", "dead"}
        /\ taken' \in {taken, TRUE} /\ spoiled' \in {spoiled, TRUE}
        /\ subscribed' \in {subscribed, TRUE, FALSE}
    BY DEF BtIInv, BtTypes, Profile!Take, Profile!NewStep,
       Profile!NewFails, Profile!NewEnds, Profile!Subscribe,
       Profile!Unsubscribe, Profile!StartDrop
  <2> QED
    BY <1>1, <2>1, <2>2 DEF BtIInv, BtTypes
<1>5. BtOwned'
  BY DEF BtIInv, BtOwned, Profile!Take, Profile!NewStep, Profile!NewFails,
     Profile!NewEnds, Profile!Subscribe, Profile!Unsubscribe,
     Profile!StartDrop
<1>6. BtSteps'
  <2>1. CASE Profile!NewStep
    <3>1. /\ btPc = "new" /\ btPc' = "new" /\ step < Len(Profile!NewSteps)
          /\ open' = open \union {Profile!NewSteps[step + 1]}
          /\ step' = step + 1
      BY <2>1 DEF Profile!NewStep
    <3>2. BtOpened(open')
      BY <1>3, <3>1 DEF BtIInv, BtSteps, BtTypes, BtOpened
    <3>3. BtOpened(open)'
      BY <1>1, <3>2, BtSame DEF BtOpened
    <3>4. step' <= Len(Profile!NewSteps)
      BY <1>3, <3>1 DEF BtIInv, BtTypes
    <3> QED
      BY <1>1, <3>1, <3>3, <3>4, BtSame DEF BtSteps
  <2>2. CASE ~ Profile!NewStep
    <3>1. UNCHANGED open
      BY <2>2 DEF Profile!Take, Profile!NewFails, Profile!NewEnds,
         Profile!Subscribe, Profile!Unsubscribe, Profile!StartDrop
    <3>2. BtOpened(open)'
      BY <1>1, <3>1, BtSame DEF BtIInv, BtSteps, BtOpened
    <3>3. btPc' = "new" => step' = 0
      BY <2>2 DEF Profile!Take, Profile!NewFails, Profile!NewEnds,
         Profile!Subscribe, Profile!Unsubscribe, Profile!StartDrop
    <3>4. btPc' = "drop" => step' = 0
      BY <2>2 DEF Profile!Take, Profile!NewFails, Profile!NewEnds,
         Profile!Subscribe, Profile!Unsubscribe, Profile!StartDrop
    <3>5. ~ (btPc' = "none" /\ ~ spoiled')
      BY <2>2 DEF Profile!Take, Profile!NewFails, Profile!NewEnds,
         Profile!Subscribe, Profile!Unsubscribe, Profile!StartDrop
    <3> QED
      BY <1>1, <1>3, <3>2, <3>3, <3>4, <3>5, BtSame DEF BtSteps
  <2> QED
    BY <2>1, <2>2
<1> QED
  BY <1>2, <1>4, <1>5, <1>6 DEF BtIInv

LEMMA BtDropKeepsIInv ==
    ASSUME Profile!BtProfileAssumption, BtIInv,
           Profile!DropStep \/ Profile!Release
    PROVE  BtIInv'
<1>1. UNCHANGED <<profile, posted, last, told, spoiled>>
  BY DEF Profile!DropStep, Profile!Release
<1>2. BtHeardOf'
  BY <1>1, BtSame DEF BtIInv, BtHeardOf
<1>3. Len(Profile!DropSteps) \in 0 .. 5
  BY BtStepsOf DEF BtIInv, BtTypes, BtProfiles, Profile!BtProfileAssumption
<1>4. BtTypes'
  <2>1. step' \in 0 .. 5
    <3>1. step \in 0 .. 5
      BY DEF BtIInv, BtTypes
    <3>2. step' = step \/ (step < Len(Profile!DropSteps) /\ step' = step + 1)
      BY DEF Profile!DropStep, Profile!Release
    <3>3. PICK n \in 0 .. 5 : n = Len(Profile!DropSteps)
      BY <1>3
    <3>4. CASE step < n /\ step' = step + 1
      BY <3>1, <3>4
    <3> QED
      BY <3>1, <3>2, <3>3, <3>4
  <2>2. /\ btPc' \in {"none", "drop", "dead"}
        /\ taken' \in {taken, FALSE} /\ subscribed' \in {subscribed, FALSE}
    BY DEF Profile!DropStep, Profile!Release
  <2> QED
    BY <1>1, <2>1, <2>2 DEF BtIInv, BtTypes
<1>5. BtOwned'
  BY DEF BtIInv, BtOwned, Profile!DropStep, Profile!Release
<1>6. open' \subseteq open
  BY DEF Profile!DropStep, Profile!Release
<1>7. BtOpened(open)'
  BY <1>1, <1>6, BtSame DEF BtIInv, BtSteps, BtOpened
<1>8. ASSUME Profile!DropStep PROVE BtSteps'
  <2>1. CASE btPc' = "dead"
    BY <1>7, <2>1 DEF BtSteps
  <2>2. CASE btPc' # "dead"
    <3>1. /\ btPc = "drop" /\ btPc' = "drop"
          /\ step < Len(Profile!DropSteps)
          /\ open' = open \ {Profile!DropSteps[step + 1]}
          /\ step' = step + 1
      BY <1>8, <2>2 DEF Profile!DropStep
    <3>2. ASSUME NEW i \in 1 .. step + 1
          PROVE  Profile!DropSteps[i] \notin open'
      <4>1. CASE i = step + 1
        BY <3>1, <4>1
      <4>2. CASE i # step + 1
        <5>1. i \in 1 .. step
          BY <4>2 DEF BtIInv, BtTypes
        <5> QED
          BY <1>6, <3>1, <5>1 DEF BtIInv, BtSteps
      <4> QED
        BY <4>1, <4>2
    <3>3. step' <= Len(Profile!DropSteps)
      BY <1>3, <3>1 DEF BtIInv, BtTypes
    <3> QED
      BY <1>1, <1>7, <3>1, <3>2, <3>3, BtSame DEF BtSteps
  <2> QED
    BY <2>1, <2>2
<1>9. ASSUME Profile!Release PROVE BtSteps'
  <2>1. /\ btPc' \in {"none", "dead"} /\ open' = open
        /\ \A i \in 1 .. Len(Profile!DropSteps) : Profile!DropSteps[i] \notin open
    BY <1>9 DEF Profile!Release, BtIInv, BtSteps
  <2>2. BtNoneLeft(open)'
    BY <1>1, <2>1, BtSame DEF BtNoneLeft
  <2> QED
    BY <1>7, <2>1, <2>2 DEF BtSteps
<1>10. BtSteps'
  BY <1>8, <1>9
<1> QED
  BY <1>2, <1>4, <1>5, <1>10 DEF BtIInv

LEMMA BtEventKeepsIInv ==
    ASSUME BtIInv,
           \/ Profile!Post \/ Profile!Deliver \/ Profile!DeliverNull
           \/ Profile!Panic
    PROVE  BtIInv'
<1>1. UNCHANGED <<profile, step, taken, spoiled, subscribed, open>>
  BY DEF Profile!Post, Profile!Deliver, Profile!DeliverNull, Profile!Panic
<1>2. btPc' \in {btPc, "dead"}
  BY DEF Profile!Post, Profile!Deliver, Profile!DeliverNull, Profile!Panic
<1>3. BtTypes'
  BY <1>1, <1>2 DEF BtIInv, BtTypes
<1>4. BtOwned'
  BY <1>1, <1>2 DEF BtIInv, BtOwned
<1>5. BtOpened(open)' /\ BtNoneLeft(open)' = BtNoneLeft(open)
  BY <1>1, BtSame DEF BtIInv, BtSteps, BtOpened, BtNoneLeft
<1>6. BtSteps'
  BY <1>1, <1>2, <1>5, BtSame DEF BtIInv, BtSteps
<1>7. BtHeardOf'
  BY <1>1, BtSame DEF BtIInv, BtHeardOf, Profile!Post, Profile!Deliver,
     Profile!DeliverNull, Profile!Panic
<1> QED
  BY <1>3, <1>4, <1>6, <1>7 DEF BtIInv

LEMMA BtStepKeepsIInv ==
    ASSUME Profile!BtProfileAssumption, BtIInv, [Profile!Next]_(Profile!vars)
    PROVE  BtIInv'
<1>1. CASE UNCHANGED Profile!vars
  <2>1. UNCHANGED <<profile, btPc, step, taken, spoiled, subscribed, open,
                    posted, last, told>>
    BY <1>1 DEF Profile!vars
  <2>2. BtSteps'
    BY <2>1, BtSame DEF BtIInv, BtSteps, BtOpened, BtNoneLeft
  <2>3. BtHeardOf'
    BY <2>1, BtSame DEF BtIInv, BtHeardOf
  <2> QED
    BY <2>1, <2>2, <2>3 DEF BtIInv, BtTypes, BtOwned
<1> QED
  BY <1>1, BtOwnerKeepsIInv, BtDropKeepsIInv, BtEventKeepsIInv
     DEF Profile!Next

LEMMA BtInvariance ==
    ASSUME Profile!BtProfileAssumption PROVE Profile!Spec => []BtIInv
<1>1. Profile!Init => BtIInv
  BY BtInitIInv
<1>2. BtIInv /\ [Profile!Next]_(Profile!vars) => BtIInv'
  BY BtStepKeepsIInv
<1> QED
  BY <1>1, <1>2, PTL DEF Profile!Spec

(* What the strengthening is for.                                          *)
LEMMA BtIInvIsSafe ==
    ASSUME Profile!BtProfileAssumption, BtIInv
    PROVE  /\ Profile!TypeOK /\ Profile!DropUndoesNew
           /\ Profile!VariantTellsEvent /\ Profile!NoVariantIsUnheard
<1>1. profile \in BtProfiles
  BY DEF BtIInv, BtTypes, BtProfiles, Profile!BtProfileAssumption
<1>2. /\ BtTells(Profile!Table)
      /\ \A row \in Profile!Table :
            /\ row[3] \in Profile!Variants(profile)
            /\ row # <<>> /\ <<row[2], row[3]>> # <<>>
  BY <1>1, BtTables DEF Profile!Table
<1>3. \A v \in Profile!Variants(profile) :
         \E row \in Profile!Table : row[3] = v
  BY <1>1, BtHeard DEF Profile!Table
<1>4. Profile!NoVariantIsUnheard
  BY <1>2, <1>3 DEF Profile!NoVariantIsUnheard
<1>5. Profile!DropUndoesNew
  BY <1>1, BtStepsOf DEF BtIInv, BtOwned, BtSteps, Profile!DropUndoesNew
<1>6. ASSUME told # Profile!NoRow
      PROVE  \E row \in Profile!Table :
                last = row[1] /\ told = <<row[2], row[3]>>
  BY <1>6 DEF BtIInv, BtHeardOf
<1>7. Profile!TypeOK
  <2>1. open \subseteq BtNames
    BY <1>1, BtStepsOf DEF BtIInv, BtSteps, BtOpened
  <2>2. last \in {row[1] : row \in Profile!Table} \union {Profile!NoEvent}
    BY DEF BtIInv, BtHeardOf
  <2>3. told # Profile!NoRow => told[2] \in Profile!Variants(profile)
    BY <1>2, <1>6
  <2> QED
    BY <2>1, <2>2, <2>3 DEF BtIInv, BtTypes, BtHeardOf, BtNames,
       Profile!TypeOK
<1>8. ASSUME told # Profile!NoRow
      PROVE  /\ {row[1] : row \in {r \in Profile!Table : r[3] = told[2]}} = {last}
             /\ \/ told[1] \in Profile!SharedMember
                \/ told[2] \in Profile!Misread
                \/ {row[1] : row \in {r \in Profile!Table : r[2] = told[1]}}
                     \ {r[1] : r \in {q \in Profile!Table :
                                        q[3] \in Profile!Misread}} = {last}
  <2>1. PICK row \in Profile!Table :
           last = row[1] /\ told = <<row[2], row[3]>>
    BY <1>6, <1>8
  <2>2. told[1] = row[2] /\ told[2] = row[3]
    BY <2>1
  <2>3. \A q \in Profile!Table : q[3] = row[3] => q[1] = row[1]
    BY <1>2 DEF BtTells
  <2>4. {q[1] : q \in {r \in Profile!Table : r[3] = told[2]}} = {last}
    BY <2>1, <2>2, <2>3
  <2>5. ASSUME told[1] \notin Profile!SharedMember,
               told[2] \notin Profile!Misread
        PROVE  {q[1] : q \in {r \in Profile!Table : r[2] = told[1]}}
                 \ {r[1] : r \in {q \in Profile!Table :
                                    q[3] \in Profile!Misread}} = {last}
    <3>1. \A q \in Profile!Table :
             IF q[3] \in Profile!Misread THEN q[1] # row[1]
             ELSE q[2] = row[2] => q[1] = row[1]
      BY <1>2, <2>2, <2>5 DEF BtTells
    <3> QED
      BY <2>1, <2>2, <3>1
  <2> QED
    BY <2>4, <2>5
<1> QED
  BY <1>4, <1>5, <1>7, <1>8 DEF Profile!VariantTellsEvent

-----------------------------------------------------------------------------
(* The two waits. Who is on the way to sleep has been told to wait; what   *)
(* has changed since then the handler is going to tell, or has told.       *)

BlockingIInv ==
    /\ Blocking!TypeOK /\ Blocking!Justified
    /\ waitPc \in {"park", "polled", "asleep"} => verdict = "wait"

AwaitingIInv ==
    /\ Awaiting!TypeOK /\ Awaiting!NoLostEvent
    /\ waitPc \in {"park", "polled", "asleep"} => verdict = "wait"

LEMMA BlockingInitIInv ==
    ASSUME Blocking!WaitAssumption, Blocking!Init PROVE BlockingIInv
<1>1. 0 \in 0 .. Duration
  BY DEF Blocking!WaitAssumption
<1> QED
  BY <1>1 DEF Blocking!Init, BlockingIInv, Blocking!TypeOK, Blocking!Justified,
     Blocking!Verdicts, Blocking!Results

LEMMA AwaitingInitIInv ==
    ASSUME Awaiting!WaitAssumption, Awaiting!Init PROVE AwaitingIInv
<1>1. 0 \in 0 .. Duration
  BY DEF Awaiting!WaitAssumption
<1> QED
  BY <1>1 DEF Awaiting!Init, AwaitingIInv, Awaiting!TypeOK,
     Awaiting!NoLostEvent,
     Awaiting!Verdicts, Awaiting!Results

LEMMA BlockingStepKeepsIInv ==
    ASSUME Blocking!WaitAssumption, BlockingIInv, Blocking!Next
    PROVE  BlockingIInv'
<1> USE DEF BlockingIInv, Blocking!TypeOK, Blocking!Justified,
        Blocking!Verdicts,
        Blocking!Results, Blocking!Wake
<1>1. CASE \E c \in Blocking!Verdicts : Blocking!Update(c)
  BY <1>1 DEF Blocking!Update
<1>2. CASE Blocking!Notify
  BY <1>2 DEF Blocking!Notify
<1>3. CASE Blocking!Check
  BY <1>3 DEF Blocking!Check
<1>4. CASE Blocking!Park
  <2>1. 0 \in 0 .. Duration
    BY DEF Blocking!WaitAssumption
  <2> QED
    BY <1>4, <2>1 DEF Blocking!Park
<1>9. CASE Blocking!Poll \/ Blocking!PollTimer
  BY <1>9 DEF Blocking!Poll, Blocking!PollTimer
<1>5. CASE Blocking!Resume
  BY <1>5 DEF Blocking!Resume
<1>6. CASE Blocking!SpuriousWakeup
  BY <1>6 DEF Blocking!SpuriousWakeup
<1>7. CASE Blocking!Timeout
  BY <1>7 DEF Blocking!Timeout
<1>8. CASE Blocking!Tick
  <2>1. time' \in 0 .. Duration
    BY <1>8 DEF Blocking!Tick, Blocking!WaitAssumption
  <2> QED
    BY <1>8, <2>1 DEF Blocking!Tick
<1> QED
  BY <1>1, <1>2, <1>3, <1>4, <1>5, <1>6, <1>7, <1>8, <1>9 DEF Blocking!Next

LEMMA AwaitingStepKeepsIInv ==
    ASSUME Awaiting!WaitAssumption, AwaitingIInv, Awaiting!Next
    PROVE  AwaitingIInv' /\ Awaiting!HonestStep
<1> USE DEF AwaitingIInv, Awaiting!TypeOK, Awaiting!NoLostEvent,
        Awaiting!Verdicts,
        Awaiting!Results, Awaiting!Wake, Awaiting!HonestStep
<1>1. CASE \E c \in Awaiting!Verdicts : Awaiting!Update(c)
  BY <1>1 DEF Awaiting!Update
<1>2. CASE Awaiting!Notify
  BY <1>2 DEF Awaiting!Notify
<1>3. CASE Awaiting!Check
  BY <1>3 DEF Awaiting!Check
<1>4. CASE Awaiting!Park
  BY <1>4 DEF Awaiting!Park
<1>9. CASE Awaiting!Poll
  BY <1>9 DEF Awaiting!Poll
<1>10. CASE Awaiting!PollTimer
  BY <1>10 DEF Awaiting!PollTimer
<1>5. CASE Awaiting!Resume
  BY <1>5 DEF Awaiting!Resume
<1>6. CASE Awaiting!SpuriousWakeup
  BY <1>6 DEF Awaiting!SpuriousWakeup
<1>7. CASE Awaiting!Timeout
  BY <1>7 DEF Awaiting!Timeout
<1>8. CASE Awaiting!Tick
  <2>1. time' \in 0 .. Duration
    BY <1>8 DEF Awaiting!Tick, Awaiting!WaitAssumption
  <2> QED
    BY <1>8, <2>1 DEF Awaiting!Tick
<1> QED
  BY <1>1, <1>2, <1>3, <1>4, <1>5, <1>6, <1>7, <1>8, <1>9, <1>10
  DEF Awaiting!Next

(* The two waits share their variables: a behaviour is about one of them.  *)
WaitIInv ==
    /\ part = "blocking" => BlockingIInv
    /\ part = "awaiting" => AwaitingIInv

LEMMA WaitStepKeepsIInv ==
    ASSUME Blocking!WaitAssumption, WaitIInv, [Next]_vars
    PROVE  /\ WaitIInv'
           /\ part = "blocking" => Blocking!Justified'
           /\ part = "awaiting" => Awaiting!HonestStep
<1>1. CASE UNCHANGED <<part, waitVars>>
  <2>1. part' = part /\ UNCHANGED waitVars
    BY <1>1
  <2>2. BlockingIInv' <=> BlockingIInv
    BY <2>1 DEF waitVars, BlockingIInv, Blocking!TypeOK, Blocking!Justified
  <2>3. AwaitingIInv' <=> AwaitingIInv
    BY <2>1 DEF waitVars, AwaitingIInv, Awaiting!TypeOK, Awaiting!NoLostEvent
  <2>4. Awaiting!HonestStep
    BY <2>1 DEF waitVars, Awaiting!HonestStep
  <2> QED
    BY <2>1, <2>2, <2>3, <2>4 DEF WaitIInv, BlockingIInv
<1>2. CASE part' = part /\ part = "blocking" /\ Blocking!Next
  BY <1>2, BlockingStepKeepsIInv DEF WaitIInv, BlockingIInv
<1>3. CASE part' = part /\ part = "awaiting" /\ Awaiting!Next
  <2>1. Awaiting!WaitAssumption
    BY DEF Blocking!WaitAssumption, Awaiting!WaitAssumption
  <2> QED
    BY <1>3, <2>1, AwaitingStepKeepsIInv DEF WaitIInv
<1> QED
  BY <1>1, <1>2, <1>3 DEF Next, vars

LEMMA WaitInvariance == Spec => []WaitIInv
<1>1. Init => WaitIInv
  <2> SUFFICES ASSUME Init PROVE WaitIInv
    OBVIOUS
  <2>1. Blocking!WaitAssumption /\ Awaiting!WaitAssumption
    BY Assumptions DEF Assumptions, Blocking!WaitAssumption,
       Awaiting!WaitAssumption
  <2>2. Blocking!Init /\ Awaiting!Init
    BY DEF Init, Blocking!Init, Awaiting!Init, Blocking!Verdicts,
       Awaiting!Verdicts
  <2> QED
    BY <2>1, <2>2, BlockingInitIInv, AwaitingInitIInv DEF WaitIInv
<1>2. WaitIInv /\ [Next]_vars => WaitIInv'
  BY Assumptions, WaitStepKeepsIInv DEF Assumptions
<1> QED
  BY <1>1, <1>2, PTL DEF Spec

-----------------------------------------------------------------------------
(* What is proved of the composition. *)

(* Each part keeps its invariant. *)
LEMMA PartsInvariance ==
    Spec => []WifiIInv /\ []LinkIInv /\ []EthIInv /\ []BtIInv
<1>1. /\ Driver!ModesAssumption /\ Link!WifiLinkAssumption
      /\ Ethernet!EthAssumption /\ Profile!BtProfileAssumption
  BY Assumptions DEF Assumptions
<1> QED
  BY <1>1, Components, WifiInvariance, LinkInvariance, EthInvariance,
     BtInvariance, PTL

(* Every reachable state has the types of the model. *)
THEOREM TypeCorrect == Spec => []TypeOK
<1>1. Profile!BtProfileAssumption
  BY Assumptions DEF Assumptions
<1>2. WifiIInv /\ LinkIInv /\ EthIInv /\ BtIInv /\ WaitIInv => TypeOK
  BY <1>1, WifiIInvIsSafe, EthIInvIsSafe, BtIInvIsSafe
  DEF LinkIInv, WaitIInv, BlockingIInv, AwaitingIInv, TypeOK
<1> QED
  BY <1>2, PartsInvariance, WaitInvariance, PTL

(* The status of the Wi-Fi and of the Ethernet driver shows the interfaces *)
(* as they are once the events on their way are dispatched (wifi.rs,       *)
(* eth.rs): however many events there are, and whoever posts in between.   *)
THEOREM MirrorSafety == Spec => []MirrorCatchesUp
<1>1. WifiIInv /\ EthIInv => MirrorCatchesUp
  BY WifiIInvIsSafe, EthIInvIsSafe DEF MirrorCatchesUp
<1> QED
  BY <1>1, PartsInvariance, PTL

(* A frame is handed to a closure or an interface that its owner still has *)
(* as long as no error of stop() was ignored while the driver ran          *)
(* (wifi.rs, eth.rs), and a profile of Bluedroid that is gone has left     *)
(* nothing behind that would run for it (bt: drop()).                      *)
THEOREM ReceiverSafety == Spec => []ReceiverIsAlive
<1>1. Profile!BtProfileAssumption
  BY Assumptions DEF Assumptions
<1>2. LinkIInv /\ EthIInv /\ BtIInv => ReceiverIsAlive
  BY <1>1, EthIInvIsSafe, BtIInvIsSafe DEF LinkIInv, ReceiverIsAlive
<1> QED
  BY <1>2, PartsInvariance, PTL

(* No event goes by without the asynchronous caller asking its matcher     *)
(* about the state it has left (eventloop.rs), and the closure of a        *)
(* profile can tell by what it hears which event there was (bt: from()).   *)
THEOREM EventSafety == Spec => []NoLostEvent
<1>1. Profile!BtProfileAssumption
  BY Assumptions DEF Assumptions
<1>2. BtIInv /\ WaitIInv => NoLostEvent
  BY <1>1, BtIInvIsSafe DEF WaitIInv, AwaitingIInv, NoLostEvent
<1> QED
  BY <1>2, PartsInvariance, WaitInvariance, PTL

(* A wait returns what its matcher has said last, and an AsyncWait goes on *)
(* to its timer, or to sleep, only while what it waits for has not         *)
(* happened or the event loop task is busy with it (eventloop.rs).         *)
THEOREM AnswerSafety == Spec => AnswerIsHonest
<1>1. Blocking!WaitAssumption
  BY Assumptions DEF Assumptions
<1>2. WaitIInv /\ [Next]_vars =>
        [/\ part = "blocking" => Blocking!Justified'
         /\ part = "awaiting" => Awaiting!HonestStep]_vars
  BY <1>1, WaitStepKeepsIInv
<1> QED
  BY <1>2, WaitInvariance, PTL DEF Spec, AnswerIsHonest
=============================================================================
