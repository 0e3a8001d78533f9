------------------------------- MODULE MCStorage -------------------------------
(***************************************************************************)
(* The instance that TLC checks of what is kept: the key-value store, the  *)
(* NVS partitions under it, the partitions of the flash, the updates of    *)
(* the firmware, the network interfaces, the configuration of the Wi-Fi    *)
(* driver, the services of the SRP client, the cache of the GATT client    *)
(* and the attributes of the GATT server. They share no state: a behaviour *)
(* exercises one part and leaves the others where they start.              *)
(***************************************************************************)
EXTENDS Naturals, Sequences

CONSTANTS
    Writers, Strings,           \* see KeyValue
    Tasks, Names, DefaultName,  \* see NvsPartition
    Threads, MaxUpdates,        \* see Ota
    Interfaces, Confs,          \* see Netif
    Clients, Points, Sights, Room,      \* see WifiConf
    Slots, Services, Hosts, TooLong,    \* see Srp
    Table, Filters, Iterators, Size, ErasePage,     \* see Partition
    Uuids, Contents, Rooms,     \* see GattClient
    Characteristics, Texts, Lengths, U16, MaxResponse, MaxAttrLen,
                                \* see GattServer
    None

-----------------------------------------------------------------------------
(* What the constants that are not mere names are, in the instance.        *)

(* Lengths 0, 1, 7, 8 and 9, where the representation of a value changes, *)
(* with bytes that are zero, full, or different in each place.            *)
SomeStrings ==
    {<<>>, <<0>>, <<255>>, <<1, 2, 3, 4, 5, 6, 7>>, <<0, 0, 0, 0, 0, 0, 255>>,
     <<1, 2, 3, 4, 5, 6, 7, 8>>, <<1, 2, 3, 4, 5, 6, 7, 8, 9>>}

(* A client with a host name, one with a fixed address and a DNS server,   *)
(* and routers with and without a DHCP server.                             *)
SomeConfs ==
    {[kind |-> "dhcp", hostname |-> TRUE, dns |-> FALSE, dhcps |-> FALSE],
     [kind |-> "fixed", hostname |-> FALSE, dns |-> TRUE, dhcps |-> FALSE],
     [kind |-> "router", hostname |-> FALSE, dns |-> TRUE, dhcps |-> TRUE]}

(* Strings that fill their array and some that do not, channels that are   *)
(* absent, zero and set, each way to scan, each setting of PMF.            *)
ClientOfKind(ssid, channel, method, pmf) ==
    [ssid |-> ssid, password |-> 2 * ssid, bssid |-> ssid = 5,
     channel |-> channel, scan_method |-> method, pmf |-> pmf]

SomeClients ==
    {ClientOfKind(5, None, "FastScan", "Required"),
     ClientOfKind(32, 0, "Signal", "Capable"),
     ClientOfKind(32, 6, "Security", "NotCapable"),
     ClientOfKind(0, None, "FastScan", "Capable")}

PointOfKind(ssid, secondary_channel, protocols, max_connections) ==
    [ssid |-> ssid, password |-> 8, channel |-> 1,
     secondary_channel |-> secondary_channel, protocols |-> protocols,
     max_connections |-> max_connections]

SomePoints ==
    {PointOfKind(31, None, TRUE, 16), PointOfKind(32, None, FALSE, 4),
     PointOfKind(5, 2, FALSE, 17)}

(* No access point, one, and three of which one has no readable name.      *)
SomeSights ==
    {<<>>, <<[utf8 |-> TRUE, authmode |-> "OWE"]>>,
     <<[utf8 |-> TRUE, authmode |-> "WPA"], [utf8 |-> FALSE, authmode |-> "WEP"],
       [utf8 |-> TRUE, authmode |-> "None"]>>}

(* NVS twice, two slots and a test application, and a data partition of a  *)
(* type the crate does not know.                                           *)
Entry(type, subtype) == [type |-> type, subtype |-> subtype]

SomeTable ==
    <<Entry(1, 2), Entry(0, 16), Entry(0, 17), Entry(0, 32), Entry(1, 131),
      Entry(1, 2)>>

TypeOf(kind, of, n) == [kind |-> kind, of |-> of, n |-> n]

SomeFilters ==
    {None, TypeOf("Data", "Nvs", 0), TypeOf("App", "Ota", 1),
     TypeOf("App", "Ota", 16),
     TypeOf("App", "Unknown", 0), TypeOf("Data", "Fat", 0)}

(* A peer without services, one with a characteristic of which nothing is  *)
(* to be had, and one in which UUIDs come more than once.                  *)
Element(kind, uuid) == [kind |-> kind, uuid |-> uuid]

SomeContents ==
    {<<>>,
     <<Element("SecondaryService", "u2"), Element("PrimaryService", "u2"),
       Element("Characteristic", "u1")>>,
     <<Element("PrimaryService", "u1"), Element("Characteristic", "u1"),
       Element("Descriptor", "u2"), Element("Descriptor", "u1"),
       Element("PrimaryService", "u1"), Element("IncludedService", "u2"),
       Element("Characteristic", "u2"), Element("Characteristic", "u2"),
       Element("Descriptor", "u2"), Element("Descriptor", "u2")>>}

-----------------------------------------------------------------------------
VARIABLES
    part,   \* the part of the system that this behaviour is about
    \* KeyValue
    u64, blob, valuePc, arg, possible, removed, stale,
    \* NvsPartition
    nvsTaken, locked, inited, arcs, dropping, nvs, open, panicked, shared,
    \* Ota
    otaTaken, otaPc, handle, slot, handles, last, image, trust, boot, running,
    misused,
    \* Netif
    netConf, iface, alive, inner, transmit, lent, handlers, dispatched, sending,
    broken, netPc,
    \* WifiConf
    mode, sta, ap, client, point, result, found, counted, infos,
    \* Srp
    conf_taken, conf_buf, srpTaken, buf, host, list, added, srpRunning, srpPanicked,
    \* Partition
    filter, raw, allocated, given, use, partitionHandles,
    \* GattClient
    cache, query, phase, results, answer, filled, collected, changed,
    \* GattServer
    service, attr, value, response, intended, request, outcome

valueVars == <<u64, blob, valuePc, arg, possible, removed, stale>>
nvsVars == <<nvsTaken, locked, inited, arcs, dropping, nvs, open, panicked, shared>>
otaVars == <<otaTaken, otaPc, handle, slot, handles, last, image, trust, boot,
    running, misused>>
netVars == <<netConf, iface, alive, inner, transmit, lent, handlers, dispatched,
    sending, broken, netPc>>
confVars == <<mode, sta, ap, client, point, result, found, counted, infos>>
srpVars == <<conf_taken, conf_buf, srpTaken, buf, host, list, added, srpRunning,
    srpPanicked>>
partitionVars == <<filter, raw, allocated, given, use, partitionHandles>>

clientVars == <<cache, query, phase, results, answer, filled, collected,
    changed>>
serverVars == <<service, attr, value, response, intended, request, outcome>>

vars == <<part, valueVars, nvsVars, otaVars, netVars, confVars, srpVars,
    partitionVars, clientVars, serverVars>>

Store == INSTANCE KeyValue WITH
    Tasks <- Writers, Values <- Strings, pc <- valuePc

Nvs == INSTANCE NvsPartition WITH
    taken <- nvsTaken

Update == INSTANCE Ota WITH
    taken <- otaTaken, pc <- otaPc

Net == INSTANCE Netif WITH
    conf <- netConf, running <- dispatched, pc <- netPc

Conf == INSTANCE WifiConf

SrpClient == INSTANCE Srp WITH
    taken <- srpTaken, running <- srpRunning, panicked <- srpPanicked

Flash == INSTANCE Partition WITH
    handles <- partitionHandles

Client == INSTANCE GattClient

Server == INSTANCE GattServer WITH
    Handles <- Characteristics, given <- value

ASSUME Assumptions ==
    /\ Store!ValuesAssumption /\ Update!OtaAssumption
    /\ Net!NetifAssumption /\ Conf!WifiConfAssumption
    /\ SrpClient!SrpAssumption /\ Flash!PartitionAssumption
    /\ Client!GattClientAssumption /\ Server!GattServerAssumption

Init ==
    /\ part \in {"values", "nvs", "ota", "net", "conf", "srp", "flash", "gattc",
                "gatts"}
    /\ Store!Init
    /\ Nvs!Init
    /\ Update!Init
    /\ Net!Init
    /\ Conf!Init
    /\ SrpClient!Init
    /\ Flash!Init
    /\ Client!Init
    /\ Server!Init
    /\ part # "net" => lent = {} /\ \A i \in Interfaces : netConf[i].kind = "dhcp"
    /\ part # "conf" => ~ sta.capable
    /\ part # "gattc" => cache = <<>>

Next ==
    /\ UNCHANGED part
    /\ \/ /\ part = "values" /\ Store!Next
          /\ UNCHANGED <<nvsVars, otaVars, netVars, confVars, srpVars,
                       partitionVars, clientVars, serverVars>>
       \/ /\ part = "nvs" /\ Nvs!Next
          /\ UNCHANGED <<valueVars, otaVars, netVars, confVars, srpVars,
                       partitionVars, clientVars, serverVars>>
       \/ /\ part = "ota" /\ Update!Next
          /\ UNCHANGED <<valueVars, nvsVars, netVars, confVars, srpVars,
                       partitionVars, clientVars, serverVars>>
       \/ /\ part = "net" /\ Net!Next
          /\ UNCHANGED <<valueVars, nvsVars, otaVars, confVars, srpVars,
                       partitionVars, clientVars, serverVars>>
       \/ /\ part = "conf" /\ Conf!Next
          /\ UNCHANGED <<valueVars, nvsVars, otaVars, netVars, srpVars,
                       partitionVars, clientVars, serverVars>>
       \/ /\ part = "srp" /\ SrpClient!Next
          /\ UNCHANGED <<valueVars, nvsVars, otaVars, netVars, confVars,
                       partitionVars, clientVars, serverVars>>
       \/ /\ part = "flash" /\ Flash!Next
          /\ UNCHANGED <<valueVars, nvsVars, otaVars, netVars, confVars,
                       srpVars, clientVars, serverVars>>
       \/ /\ part = "gattc" /\ Client!Next
          /\ UNCHANGED <<valueVars, nvsVars, otaVars, netVars, confVars,
                       srpVars, partitionVars, serverVars>>
       \/ /\ part = "gatts" /\ Server!Next
          /\ UNCHANGED <<valueVars, nvsVars, otaVars, netVars, confVars,
                       srpVars, partitionVars, clientVars>>

Spec == Init /\ [][Next]_vars

-----------------------------------------------------------------------------
(* Properties *)

(* The values the variables take. *)
TypeOK ==
    /\ Store!TypeOK /\ Nvs!TypeOK /\ Update!TypeOK /\ Net!TypeOK /\ Conf!TypeOK
    /\ SrpClient!TypeOK /\ Flash!TypeOK
    /\ Client!TypeOK /\ Server!TypeOK

(* What is read is what was written. get_raw() returns what the last       *)
(* set_raw() wrote, byte for byte, or, after a reset or a failure in the   *)
(* middle of set_raw(), the value before or none, and the key never has    *)
(* two items, unless an erase has failed unnoticed and what it was to      *)
(* erase is still there (nvs.rs). get_configuration() returns what the     *)
(* last set_configuration() has set, as far as it is passed on, and a      *)
(* scan's list holds only records of C (wifi.rs). An iterator gives each partition of its type once, and what  *)
(* is erased is what was asked for (partition.rs). Queries of the GATT     *)
(* client report what C has found, and page through all of it              *)
(* (bt/ble/gatt/client.rs); values of the GATT server arrive whole         *)
(* (bt/ble/gatt/server.rs).                                                *)
ReadsTheLastWrite ==
    /\ Store!ReadsTheLastWrite /\ Store!OneItem
    /\ Conf!ReadsTheLastWrite /\ Conf!RecordsAreReal
    /\ Flash!TypesAreFaithful /\ Flash!EachPartitionOnce /\ Flash!ErasesTheRange
    /\ Client!ReportsWhatIsThere /\ Client!PagesAreTheWhole
    /\ Client!CountsAreEnough
    /\ Server!GetsTheLastValue /\ Server!PeerGetsTheWhole

(* A handle of ESP-IDF is valid exactly as long as the object that wraps   *)
(* it: NVS is not taken down under an EspNvs, unless it is on the default  *)
(* partition and that is taken by its name as well (nvs.rs), no way out of *)
(* an update leaves its handle behind (ota.rs), C calls IP handlers of     *)
(* network interfaces and transmit functions of drivers that exist, but    *)
(* for drivers whose constructor has failed and interfaces that were lent  *)
(* to their driver, and interfaces have one source of their address        *)
(* (netif.rs), iterators and mappings are freed once      *)
(* (partition.rs), and memory that OpenThread reads is not written and is  *)
(* free again when it is done (srp.rs).                                    *)
HandlesMatch ==
    /\ Nvs!HandlesStayValid /\ Update!HandlesMatch
    /\ Net!CalledWhileAlive /\ Net!OneAddressSource
    /\ Flash!HandlesMatch
    /\ SrpClient!MemoryIsStable /\ SrpClient!SlotsComeBack

(* A partition name has one owner, and can be taken again when its         *)
(* partition is dropped (nvs.rs); there is one EspOta (ota.rs).            *)
OneOwner == Nvs!OneOwner /\ Nvs!DropSucceeds /\ Update!OneInstance

(* The image that runs is never written over, also when another slot has   *)
(* been activated since it was booted (ota.rs).                            *)
RunningIntact == Update!RunningIntact

(* ota.rs:420: "`esp_ota_abort` can only fail if the provided OTA handle   *)
(* is invalid [..] The methods which invalidate the OTA handle all call    *)
(* `mem::forget(self)`."                                                   *)
AbortedHandleIsValid == Update!AbortedHandleIsValid
=============================================================================
