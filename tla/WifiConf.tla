-------------------------------- MODULE WifiConf --------------------------------
(***************************************************************************)
(* The configuration of the Wi-Fi driver in src/src/wifi.rs: how the       *)
(* configurations of the crate become those of C and back, and how         *)
(* set_configuration() writes a mode and up to two of them, each of which  *)
(* may be refused; and how the records of a scan are fetched, by a count   *)
(* and a call that fills a buffer of that size.                            *)
(*                                                                         *)
(* A string is its length. A channel is None, or Some of a number of which *)
(* 0 is a possible one.                                                    *)
(***************************************************************************)
EXTENDS Naturals, Sequences, FiniteSets, FiniteSetsExt

CONSTANTS
    Clients,    \* the ClientConfigurations the application sets
    Points,     \* the AccessPointConfigurations it sets
    Sights,     \* what a scan may find, each a sequence of records of C
    Room,       \* the N of get_scan_result_n()
    None

Methods == {"FastScan", "Signal", "Security"}
Channels == {None} \union 0 .. 13

ClientType ==
    [ssid : 0 .. 32, password : 0 .. 64, bssid : BOOLEAN, channel : Channels,
     scan_method : Methods, pmf : {"NotCapable", "Capable", "Required"}]

PointType ==
    [ssid : 0 .. 32, password : 0 .. 64, channel : 0 .. 13,
     secondary_channel : Channels, protocols : BOOLEAN, max_connections : Nat]

(* The modes of C that are an AuthMethod. C has others, such as OWE. *)
AuthMethods ==
    {"None", "WEP", "WPA", "WPA2Personal", "WPAWPA2Personal", "WPA2Enterprise",
     "WPA3Personal", "WPA2WPA3Personal", "WAPIPersonal"}

(* A record of a scan: whether its SSID is UTF-8, and its mode. *)
RecordType == [utf8 : BOOLEAN, authmode : AuthMethods \union {"OWE"}]

(* What the constants are required to be. *)
WifiConfAssumption ==
    /\ \A c \in Clients : c \in ClientType
    /\ \A p \in Points : p \in PointType
    /\ \A s \in Sights : s \in Seq(RecordType)
    /\ Room \in Nat /\ None \notin Nat

VARIABLES
    mode,       \* the mode of C
    sta, ap,    \* its configurations of the two interfaces
    client, point,  \* history: what was set last, None before
    result,     \* what the last call has returned
    found,      \* the records C keeps of the last scan
    counted,    \* what get_scan_count() has said of them, None outside a call
    infos       \* what the last get_scan_result() has returned

confVars == <<mode, sta, ap, client, point, result>>
scanVars == <<found, counted, infos>>
vars == <<confVars, scanVars>>

-----------------------------------------------------------------------------
(* Variants with a bug. *)

(* The channel is kept as it is. *)
StaConfigChannel(c) ==
    [ssid |-> c.ssid, password |-> c.password, bssid |-> c.bssid,
     channel |-> IF c.channel = None THEN 1 ELSE c.channel,
     all_channels |-> c.scan_method # "FastScan",
     by_security |-> c.scan_method = "Security",
     capable |-> FALSE, required |-> FALSE]

(* The access point is written before it has been looked at. *)
ApRefusedNever(p) == FALSE

(* The whole buffer is looked at. *)
FetchedAll(buffer) == buffer

-----------------------------------------------------------------------------
(* set_str_no_termination_requirement() takes a string that fills the      *)
(* array, set_str() does not.                                              *)
FitsUnterminated(length, size) == length <= size
FitsTerminated(length, size) == length < size

(* wifi_sta_config_t of a ClientConfiguration: what it says of PMF is not  *)
(* passed on.                                                              *)
StaConfig(c) ==
    [ssid |-> c.ssid, password |-> c.password, bssid |-> c.bssid,
     channel |-> IF c.channel = None THEN 0 ELSE c.channel,
     all_channels |-> c.scan_method # "FastScan",
     by_security |-> c.scan_method = "Security",
     capable |-> FALSE, required |-> FALSE]

(* The way back: channel 0 is none. *)
ClientOf(s) ==
    [ssid |-> s.ssid, password |-> s.password, bssid |-> s.bssid,
     channel |-> IF s.channel = 0 THEN None ELSE s.channel,
     scan_method |-> CASE ~ s.all_channels -> "FastScan"
                       [] s.all_channels /\ s.by_security -> "Security"
                       [] s.all_channels /\ ~ s.by_security -> "Signal",
     pmf |-> CASE ~ s.capable -> "NotCapable"
               [] s.capable /\ ~ s.required -> "Capable"
               [] s.capable /\ s.required -> "Required"]

(* wifi_ap_config_t of an AccessPointConfiguration: the secondary channel  *)
(* and the protocols are not passed on, and of the stations at most 16.    *)
ApConfig(p) ==
    [ssid |-> p.ssid, password |-> p.password, channel |-> p.channel,
     max_connection |-> Min({p.max_connections, 16})]

PointOf(a) ==
    [ssid |-> a.ssid, password |-> a.password, channel |-> a.channel,
     secondary_channel |-> None, protocols |-> FALSE,
     max_connections |-> a.max_connection]

(* Both arrays of an access point end in a zero byte. *)
ApRefused(p) ==
    ~ FitsTerminated(p.ssid, 32) \/ ~ FitsTerminated(p.password, 64)

StaRefused(c) ==
    ~ FitsUnterminated(c.ssid, 32) \/ ~ FitsUnterminated(c.password, 64)

-----------------------------------------------------------------------------
(* The driver starts with what it finds in NVS, or with a default; another *)
(* program may have enabled PMF.                                           *)
Init ==
    /\ mode = {"sta"}
    /\ \E pmf \in BOOLEAN :
          sta = [ssid |-> 0, password |-> 0, bssid |-> FALSE, channel |-> 0,
                 all_channels |-> FALSE, by_security |-> FALSE,
                 capable |-> pmf, required |-> FALSE]
    /\ ap = [ssid |-> 12, password |-> 0, channel |-> 1, max_connection |-> 4]
    /\ client = None /\ point = None
    /\ result = "ok"
    /\ found = <<>> /\ counted = None /\ infos = <<>>

-----------------------------------------------------------------------------
(* set_sta_conf() writes what differs from what it reads. C may refuse.    *)
SetSta(c) ==
    IF ClientOf(sta) = c
    THEN UNCHANGED sta
    ELSE ~ StaRefused(c) /\ sta' = StaConfig(c)

SetAp(p) ==
    IF PointOf(ap) = p
    THEN UNCHANGED ap
    ELSE ~ ApRefused(p) /\ ap' = ApConfig(p)

(* set_configuration() in the end: the mode, the station, the access point *)
(* have been accepted, as far as the configuration has them.               *)
Set(c, p) ==
    /\ mode' = (IF c = None THEN {} ELSE {"sta"})
                   \union (IF p = None THEN {} ELSE {"ap"})
    /\ IF c = None THEN UNCHANGED <<sta, client>> ELSE SetSta(c) /\ client' = c
    /\ IF p = None THEN UNCHANGED <<ap, point>> ELSE SetAp(p) /\ point' = p
    /\ result' = "ok"

(* It returns the first error, and what came before has been written: C    *)
(* refuses the mode, ...                                                   *)
RefuseMode ==
    /\ result' = "err"
    /\ UNCHANGED <<mode, sta, ap, client, point>>

(* ... or, in the new mode, the first of the configurations, ...           *)
RefuseFirst(modes) ==
    /\ mode' = modes
    /\ result' = "err"
    /\ UNCHANGED <<sta, ap, client, point>>

(* ... or the access point, with the station's in effect; an access point  *)
(* with strings that are too long is always refused, but not before.       *)
RefuseAp(c) ==
    /\ mode' = {"sta", "ap"}
    /\ SetSta(c) /\ client' = c
    /\ result' = "err"
    /\ UNCHANGED <<ap, point>>

(* start_wps() needs a station, and leaves it enabled.                     *)
StartWps ==
    /\ mode' = mode \union {"sta"}
    /\ UNCHANGED <<sta, ap, client, point, result>>

-----------------------------------------------------------------------------
(* What get_configuration() returns. *)
Configuration ==
    [sta |-> IF "sta" \in mode THEN ClientOf(sta) ELSE None,
     ap |-> IF "ap" \in mode THEN PointOf(ap) ELSE None]

-----------------------------------------------------------------------------
(* A scan ends in C, also one that was started without waiting for it, at  *)
(* any time.                                                               *)
ScanEnds(sight) ==
    /\ found' = sight
    /\ UNCHANGED <<confVars, counted, infos>>

(* get_scan_result_n() and get_scan_result(): the size of the buffer ...   *)
GetScanCount(room) ==
    /\ counted = None
    /\ counted' = Min({Len(found), room})
    /\ UNCHANGED <<confVars, found, infos>>

(* ... is how many records C writes at most, the rest of the buffer is not *)
(* initialized. A record says what it was made of.                         *)
Uninitialized == [utf8 |-> TRUE, authmode |-> "uninitialized"]

Buffer ==
    [k \in 1 .. counted |-> IF k <= Len(found) THEN found[k] ELSE Uninitialized]

(* fetch_scan_result() returns how many C has written.                     *)
Fetched(buffer) == SubSeq(buffer, 1, Min({Len(buffer), Len(found)}))

(* AccessPointInfo of a record: the ones with an SSID that is not UTF-8    *)
(* are left out, and the mode may be unknown.                              *)
Info(record) ==
    [auth_method |-> IF record.authmode = "OWE" THEN None ELSE record.authmode]

Nth(places, n) ==
    CHOOSE k \in places : Cardinality({l \in places : l <= k}) = n

Infos(records) ==
    LET kept == {k \in DOMAIN records : records[k].utf8}
    IN  [n \in 1 .. Cardinality(kept) |-> Info(records[Nth(kept, n)])]

(* C gives its records away. It may fail instead.                          *)
FetchScanResult ==
    /\ counted # None
    /\ counted' = None
    /\ \/ infos' = Infos(Fetched(Buffer)) /\ found' = <<>>
       \/ UNCHANGED <<infos, found>>
    /\ UNCHANGED confVars

-----------------------------------------------------------------------------
Next ==
    \/ /\ \/ \E c \in Clients \union {None}, p \in Points \union {None} : Set(c, p)
          \/ RefuseMode
          \/ \E modes \in {{"sta"}, {"ap"}, {"sta", "ap"}} : RefuseFirst(modes)
          \/ \E c \in Clients : RefuseAp(c)
          \/ StartWps
       /\ UNCHANGED scanVars
    \/ \E sight \in Sights : ScanEnds(sight)
    \/ \E room \in {Room, Len(found)} : GetScanCount(room)
    \/ FetchScanResult

Spec == Init /\ [][Next]_vars

-----------------------------------------------------------------------------
(* Properties *)

(* The values the variables take. *)
TypeOK ==
    /\ mode \subseteq {"sta", "ap"}
    /\ ClientOf(sta) \in ClientType
    /\ PointOf(ap) \in PointType
    /\ client \in Clients \union {None} /\ point \in Points \union {None}
    /\ result \in {"ok", "err"}
    /\ found \in Sights \union {<<>>} /\ counted \in Nat \union {None}

(* What is left of a configuration that has been set. *)
KeptClient(c) ==
    {c, [c EXCEPT !.pmf = "NotCapable"]}

KeptPoint(p) ==
    [ssid |-> p.ssid, password |-> p.password, channel |-> p.channel,
     secondary_channel |-> None, protocols |-> FALSE,
     max_connections |-> IF p.max_connections > 16 THEN 16 ELSE p.max_connections]

SameChannel(c, d) ==
    {c.channel, d.channel} \subseteq {None, 0} \/ c.channel = d.channel

(* What get_configuration() returns of an interface is what was set for it *)
(* last, in a call that went through or in the part of one that did, but   *)
(* for PMF, an access point's secondary channel, protocols and stations    *)
(* beyond 16, and a client's channel 0.                                    *)
ReadsTheLastWrite ==
    /\ client # None => \E c \in KeptClient(client) :
          /\ SameChannel(ClientOf(sta), c)
          /\ [ClientOf(sta) EXCEPT !.channel = None] = [c EXCEPT !.channel = None]
    /\ point # None => PointOf(ap) = KeptPoint(point)
    /\ "ap" \in mode => FitsTerminated(Configuration.ap.ssid, 32)

(* A list of access points holds only what C has written, also when        *)
(* another scan has ended between the count and the records.               *)
RecordsAreReal ==
    \A k \in DOMAIN infos : infos[k].auth_method \in AuthMethods \union {None}
=============================================================================
