----------------------------- MODULE GattClient -----------------------------
(***************************************************************************)
(* How a GATT client reads the cache that the stack keeps of the database  *)
(* of a peer (src/src/bt/ble/gatt/client.rs). Each query hands C a slice   *)
(* and the number of elements it has room for, and makes the number of     *)
(* elements that it reports of what C puts in the place of that number. An *)
(* application pages through what does not fit its slice. The cache may be *)
(* discovered anew between two queries.                                    *)
(***************************************************************************)
EXTENDS Naturals, Sequences, FiniteSets

CONSTANTS
    Uuids,          \* the UUIDs
    Contents,       \* the databases a peer can have: sequences of elements
    Rooms,          \* the lengths of the slices of the application
    None

(* What the application asks for: page by page, or with one call. *)
Paged == {"services", "characteristics", "descriptors"}
Single == {"service", "char_by_uuid", "descr_by_uuid", "descr_by_handle",
           "included", "db"}

Kinds == {"PrimaryService", "SecondaryService", "Characteristic",
          "Descriptor", "IncludedService"}

(* What the constants are required to be. A handle is the place in the     *)
(* database, and a database is no longer than a u16 can say.               *)
GattClientAssumption ==
    /\ Rooms \subseteq Nat
    /\ Contents \subseteq Seq([kind : Kinds, uuid : Uuids])
    /\ None \notin Paged \union Single

VARIABLES
    cache,      \* the database of the peer in the cache of the stack
    query,      \* what the application is asking for, None if nothing
    phase,      \* it is about to ask, was answered, or was refused
    results,    \* its slice
    answer,     \* the number of elements that the last call has reported
    filled,     \* history: how many elements C has written into the slice
    collected,  \* what the application has collected, page by page
    changed     \* history: the cache has changed since the first page

vars == <<cache, query, phase, results, answer, filled, collected, changed>>

(* An element that new() makes, which no peer has. *)
Blank == [kind |-> None, uuid |-> None, handle |-> 0]

Database(db) ==
    [i \in DOMAIN db |-> [kind |-> db[i].kind, uuid |-> db[i].uuid,
                          handle |-> i]]

Init ==
    /\ \E db \in Contents : cache = Database(db)
    /\ query = None
    /\ phase = "ask"
    /\ results = <<>>
    /\ answer = 0
    /\ filled = 0
    /\ collected = <<>>
    /\ changed = FALSE

-----------------------------------------------------------------------------
(* Numbers *)

Least(m, n) == IF m <= n THEN m ELSE n

(* External: what a call of C does that finds a sequence of elements. It   *)
(* writes those from the offset on for which it was told there is room,    *)
(* and puts in the place of that number how many it has found, which is    *)
(* what the wrapper relies on.                                             *)
Written(found, offset, count) ==
    SubSeq(found, offset + 1, Least(offset + count, Len(found)))

Overlay(slice, written) ==
    [i \in DOMAIN slice |->
        IF i <= Len(written) THEN written[i] ELSE slice[i]]

(* Variants with a bug: the elements before the offset count as well.      *)
PageLenWhole(total, offset, room) == Least(total, room)

(* What a query that pages reports ... *)
PageLen(total, offset, room) ==
    IF offset > total THEN 0 ELSE Least(total - offset, room)

(* ... and one that does not. *)
AllLen(total, room) == Least(total, room)

-----------------------------------------------------------------------------
(* What the queries find: elements of the cache, in its order. *)

(* External: the elements at a set of places. *)
Nth(places, n) ==
    CHOOSE k \in places : Cardinality({l \in places : l <= k}) = n

At(places) == [n \in 1 .. Cardinality(places) |-> cache[Nth(places, n)]]

ServicesOf(uuid) ==
    {k \in DOMAIN cache : cache[k].kind = "PrimaryService"
                              /\ uuid \in {None, cache[k].uuid}}

GetService(uuid) == At(ServicesOf(uuid))

CharPlaces == {k \in DOMAIN cache : cache[k].kind = "Characteristic"}

GetAllCharacteristics == At(CharPlaces)

(* The descriptors of a characteristic follow it. *)
DescriptorsOf(handle) ==
    {k \in DOMAIN cache :
        /\ k > handle
        /\ \A h \in handle + 1 .. k : cache[h].kind = "Descriptor"}

GetAllDescriptors(handle) == At(DescriptorsOf(handle))

GetCharacteristicByUuid(uuid) ==
    At({k \in CharPlaces : cache[k].uuid = uuid})

GetDescriptorByUuid(char_uuid, uuid) ==
    At({k \in DOMAIN cache :
        /\ cache[k].uuid = uuid
        /\ \E c \in CharPlaces :
            cache[c].uuid = char_uuid /\ k \in DescriptorsOf(c)})

GetDescriptorByCharHandle(handle, uuid) ==
    At({k \in DescriptorsOf(handle) : cache[k].uuid = uuid})

GetIncludeService(uuid) ==
    At({k \in DOMAIN cache :
        cache[k].kind = "IncludedService" /\ cache[k].uuid = uuid})

GetDb == cache

(* get_attr_count(): a descriptor is counted of a characteristic, and the  *)
(* range of handles is INVALID_HANDLE; with everything else it is the      *)
(* other way round.                                                        *)
INVALID_HANDLE == 0

AttrCountArgs(attr_type, first, end) ==
    IF attr_type = "Descriptor"
    THEN [start_handle |-> INVALID_HANDLE, end_handle |-> INVALID_HANDLE,
          char_handle |-> first]
    ELSE [start_handle |-> first, end_handle |-> end,
          char_handle |-> INVALID_HANDLE]

(* External: what C counts. *)
Counted(attr_type, args) ==
    IF args.char_handle # INVALID_HANDLE
    THEN Cardinality(DescriptorsOf(args.char_handle))
    ELSE Cardinality({k \in DOMAIN cache :
            /\ k \in args.start_handle .. args.end_handle
            /\ attr_type \in {"AllAttributes", cache[k].kind}})

-----------------------------------------------------------------------------
(* The application. *)

Start(q, room) ==
    /\ query = None
    /\ query' = q
    /\ phase' = "ask"
    /\ results' = [i \in 1 .. room |-> Blank]
    /\ answer' = 0
    /\ filled' = 0
    /\ collected' = <<>>
    /\ changed' = FALSE
    /\ UNCHANGED cache

(* A characteristic, the last one. *)
SomeChar ==
    LET chars == GetAllCharacteristics
    IN IF chars = <<>> THEN 1 ELSE chars[Len(chars)].handle

FoundPaged ==
    CASE query = "services" -> GetService(None)
      [] query = "characteristics" -> GetAllCharacteristics
      [] query = "descriptors" -> GetAllDescriptors(SomeChar)

(* One page. C refuses an offset past the end, or finds nothing there.     *)
Page ==
    /\ query \in Paged
    /\ phase = "ask"
    /\ LET offset == Len(collected)
           room == Len(results)
           written == Written(FoundPaged, offset, room)
       IN \/ /\ results' = Overlay(results, written)
             /\ filled' = Len(written)
             /\ answer' = PageLen(Len(FoundPaged), offset, room)
             /\ phase' = "answered"
          \/ /\ offset >= Len(FoundPaged)
             /\ phase' = "refused"
             /\ UNCHANGED <<results, answer, filled>>
    /\ UNCHANGED <<cache, query, collected, changed>>

(* The application takes what it was told was there and asks for more.     *)
NextPage ==
    /\ query \in Paged
    /\ phase = "answered" /\ answer > 0
    /\ collected' = collected \o SubSeq(results, 1, answer)
    /\ phase' = "ask"
    /\ UNCHANGED <<cache, query, results, answer, filled, changed>>

(* The queries for a UUID and get_db(). get_service() tells C that there   *)
(* is room for one element when it gives a UUID, whatever the slice.       *)
Once ==
    /\ query \in Single
    /\ phase = "ask"
    /\ \E uuid, char_uuid \in Uuids :
        LET room == Len(results)
            count == IF query = "service" THEN 1 ELSE room
            found ==
                CASE query = "service" -> GetService(uuid)
                  [] query = "char_by_uuid" -> GetCharacteristicByUuid(uuid)
                  [] query = "descr_by_uuid" ->
                        GetDescriptorByUuid(char_uuid, uuid)
                  [] query = "descr_by_handle" ->
                        GetDescriptorByCharHandle(SomeChar, uuid)
                  [] query = "included" -> GetIncludeService(uuid)
                  [] query = "db" -> GetDb
            written == Written(found, 0, count)
        IN /\ results' = Overlay(results, written)
           /\ filled' = Len(written)
           /\ answer' = AllLen(Len(found), room)
           /\ phase' = "answered"
    /\ UNCHANGED <<cache, query, collected, changed>>

Done ==
    /\ phase # "ask"
    /\ query \in Paged /\ phase = "answered" => answer = 0
    /\ query # None
    /\ query' = None
    /\ UNCHANGED <<cache, phase, results, answer, filled, collected, changed>>

-----------------------------------------------------------------------------
(* External: cache_refresh(), or the peer has changed its services. *)
Discover ==
    /\ \E db \in Contents : cache' = Database(db)
    /\ cache' # cache
    /\ changed' = TRUE
    /\ UNCHANGED <<query, phase, results, answer, filled, collected>>

-----------------------------------------------------------------------------
Next ==
    \/ \E q \in Paged \union Single, room \in Rooms : Start(q, room)
    \/ Page \/ NextPage \/ Once \/ Done
    \/ Discover

Spec == Init /\ [][Next]_vars

-----------------------------------------------------------------------------
(* Properties *)

(* The values the variables take. *)
TypeOK ==
    /\ cache \in {Database(db) : db \in Contents}
    /\ query \in {None} \union Paged \union Single
    /\ phase \in {"ask", "answered", "refused"}
    /\ Len(results) \in Rooms \union {0}
    /\ {answer, filled} \subseteq Nat
    /\ changed \in BOOLEAN

(* The known exceptions: a service asked for by its UUID is written past   *)
(* the end of an empty slice, and only the first of several services with  *)
(* that UUID is written while all of them are counted.                     *)
ServiceByUuid == query = "service" /\ (Len(results) = 0 \/ answer > filled)

(* client.rs:1138: "The number of elements in `results`, which could be 0; *)
(* this is not the actual number of elements". What a call reports was     *)
(* written by C in this very call, and C wrote inside the slice.           *)
ReportsWhatIsThere ==
    query # None /\ phase = "answered" =>
        \/ ServiceByUuid
        \/ /\ answer = filled
           /\ filled <= Len(results)
           /\ \A i \in 1 .. answer : results[i] # Blank

(* Paging through a database that does not change collects every element   *)
(* of it once and in order, whatever the length of the slice, and a slice  *)
(* of one element is enough.                                               *)
PagesAreTheWhole ==
    /\ query \in Paged /\ ~ changed /\ Len(results) > 0
    /\ \/ phase = "refused"
       \/ phase = "answered" /\ answer = 0
    => collected = FoundPaged

(* A slice as long as get_attr_count() says takes everything there is.     *)
CountsAreEnough ==
    LET all == AttrCountArgs("AllAttributes", 1, Len(cache))
        chars == AttrCountArgs("Characteristic", 1, Len(cache))
        descrs == AttrCountArgs("Descriptor", SomeChar, 0)
    IN /\ Counted("AllAttributes", all) = Len(GetDb)
       /\ Counted("Characteristic", chars) = Len(GetAllCharacteristics)
       /\ Counted("Descriptor", descrs) = Len(GetAllDescriptors(SomeChar))
=============================================================================
